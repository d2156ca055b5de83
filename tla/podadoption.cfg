SPECIFICATION Spec
CONSTANTS
  Pods <- AllPods
  HostDefault = "default"
  MaxOps = 1
INVARIANTS UpdateKeepsFixedFields UpdateSettles
PROPERTY ImagesFollow
