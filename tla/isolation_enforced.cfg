SPECIFICATION Spec
CONSTANTS
  ProfileNames = {"n1", "n2"}
  ProfileValues <- Levels
  Quantities = {"", "2", "bad"}
  Pods <- OnePod
  PodLevel <- AllRestricted
  OwnClass <- NoOwnClass
  Supported = TRUE
  EnvOps = {"profile", "spec", "drift", "pod"}
  MaxOps = 1
  MaxFaults = 0
PROPERTY EnforcedIsApplied
