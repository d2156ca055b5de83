CHECK_DEADLOCK FALSE
SPECIFICATION Spec
CONSTANTS
  Tenants <- OneTenant
  WorkloadNs <- InOneNamespace
  ControlPlaneNs <- OneControlPlane
  Admission = TRUE
  NamespaceLag = TRUE
  Nobody = "nobody"
  Stranger = "stranger"
  EnvOps = {"create", "delete"}
  MaxOps = 2
  MaxFaults = 1
INVARIANT FinalizerHeldUntilGone
