CHECK_DEADLOCK FALSE
SPECIFICATION Spec
CONSTANTS
  Tenants <- TwoTenants
  WorkloadNs <- InTwoNamespaces
  ControlPlaneNs <- OneControlPlane
  Admission = TRUE
  NamespaceLag = FALSE
  Nobody = "nobody"
  Stranger = "stranger"
  EnvOps = {"create", "delete", "deleteNamespace", "strangerNamespace"}
  MaxOps = 5
  MaxFaults = 1
INVARIANTS TypeOK FinalizerHeldUntilGone BindingsCleared
PROPERTY ForeignNamespaceSafe
