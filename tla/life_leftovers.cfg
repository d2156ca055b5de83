CHECK_DEADLOCK FALSE
SPECIFICATION FairSpec
CONSTANTS
  Tenants <- OneTenant
  WorkloadNs <- InOneNamespace
  ControlPlaneNs <- OneControlPlane
  Admission = TRUE
  NamespaceLag = FALSE
  Nobody = "nobody"
  Stranger = "stranger"
  EnvOps = {"create", "delete"}
  MaxOps = 2
  MaxFaults = 0
PROPERTY WorkloadNamespaceCleared
