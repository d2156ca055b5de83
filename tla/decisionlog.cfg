SPECIFICATION Spec
CONSTANTS
  Resources = 2
  Retains = {0, 1, 3}
  Lag = TRUE
  MaxDecisions = 5
  MaxOps = 2
  MaxFaults = 2
INVARIANTS TypeOK LogIsHistory
PROPERTY WindowSlides
