CHECK_DEADLOCK FALSE
SPECIFICATION FairSpec
CONSTANTS
  Tenants <- OneTenant
  WorkloadNs <- InOneNamespace
  ControlPlaneNs <- OneControlPlane
  Admission = TRUE
  NamespaceLag = TRUE
  Nobody = "nobody"
  Stranger = "stranger"
  EnvOps = {"create", "delete", "deleteNamespace", "strangerNamespace"}
  MaxOps = 5
  MaxFaults = 2
PROPERTIES DeletionCompletes ForeignNamespaceSafe
