CHECK_DEADLOCK FALSE
SPECIFICATION FairSpec
CONSTANTS
  Tenants <- TwoTenants
  WorkloadNs <- InTwoNamespaces
  ControlPlaneNs <- OwnControlPlanes
  Admission = TRUE
  NamespaceLag = FALSE
  Nobody = "nobody"
  Stranger = "stranger"
  EnvOps = {"create"}
  MaxOps = 2
  MaxFaults = 0
PROPERTY TenantsBecomeReady
