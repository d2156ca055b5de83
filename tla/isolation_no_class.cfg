SPECIFICATION Spec
CONSTANTS
  ProfileNames = {"n1", "n2"}
  ProfileValues <- WithoutClass
  Quantities = {"", "2"}
  Pods <- OnePod
  PodLevel <- AllRestricted
  OwnClass <- NoOwnClass
  Supported = TRUE
  EnvOps = {"profile", "spec", "drift", "pod"}
  MaxOps = 0
  MaxFaults = 0
PROPERTY PodsAreMirrored
