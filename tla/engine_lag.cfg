SPECIFICATION FairSpec
CONSTANTS
  Obj <- OneObj
  KindOf <- OneDeployment
  HostName <- OneName
  LabelIsName = TRUE
  System <- NoObjs
  Resources <- DeploymentBoth
  ConflictPolicy = "manual"
  Required = "none"
  RecordDecisions = TRUE
  CacheLag = TRUE
  Limited = FALSE
  Burst = 0
  MayDelete = {"Deployment", "Service", "Pod"}
  Frees = {"a", "b"}
  Fixeds = {"unset"}
  Classes = {"none"}
  HostAddress = "hostIP"
  TenantAddress = "tenantIP"
  EnvOps = {"tenantCreate", "tenantEdit", "tenantDelete", "hostEdit", "hostDelete", "foreignCreate"}
  MaxOps = 5
  MaxFaults = 0
PROPERTY OneSidedEditsPropagate
