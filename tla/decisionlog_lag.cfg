SPECIFICATION Spec
CONSTANTS
  Resources = 2
  Retains = {3}
  Lag = TRUE
  MaxDecisions = 3
  MaxOps = 0
  MaxFaults = 0
PROPERTY ActionsAreStored
