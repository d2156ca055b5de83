SPECIFICATION FairSpec
CONSTANTS
  Obj <- TwoObjs
  KindOf <- DeploymentAndService
  HostName <- SharedName
  LabelIsName = TRUE
  System <- NoObjs
  Resources <- DeploymentBothServiceFromHost
  ConflictPolicy = "manual"
  Required = "none"
  RecordDecisions = TRUE
  CacheLag = FALSE
  Limited = FALSE
  Burst = 0
  MayDelete = {"Deployment", "Service", "Pod"}
  Frees = {"a", "b"}
  Fixeds = {"unset"}
  Classes = {"none"}
  HostAddress = "hostIP"
  TenantAddress = "tenantIP"
  EnvOps = {"tenantCreate", "tenantEdit", "tenantDelete", "hostEdit", "hostDelete", "foreignCreate"}
  MaxOps = 5
  MaxFaults = 0
PROPERTIES OneSidedEditsPropagate
