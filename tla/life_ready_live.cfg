CHECK_DEADLOCK FALSE
SPECIFICATION FairSpec
CONSTANTS
  Tenants <- TwoTenants
  WorkloadNs <- InTwoNamespaces
  ControlPlaneNs <- OwnControlPlanes
  Admission = FALSE
  NamespaceLag = FALSE
  Nobody = "nobody"
  Stranger = "stranger"
  EnvOps = {"create", "delete"}
  MaxOps = 4
  MaxFaults = 1
PROPERTY TenantsBecomeReady
