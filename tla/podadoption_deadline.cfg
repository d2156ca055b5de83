SPECIFICATION Spec
CONSTANTS
  Pods <- SmallPods
  HostDefault = "default"
  MaxOps = 1
INVARIANT UpdateIsValid
