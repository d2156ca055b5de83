SPECIFICATION Spec
CONSTANTS
  ProfileNames = {"n1", "n2"}
  ProfileValues <- Levels
  Quantities = {"", "2", "bad"}
  Pods <- TwoPods
  PodLevel <- MixedLevels
  OwnClass <- MixedClasses
  Supported = TRUE
  EnvOps = {"profile", "spec", "drift", "pod"}
  MaxOps = 2
  MaxFaults = 1
INVARIANT TypeOK
PROPERTIES IsolationConverges PhaseSettles PodsAreMirrored
