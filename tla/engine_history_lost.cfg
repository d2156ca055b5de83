SPECIFICATION Spec
CONSTANTS
  Obj <- TwoObjs
  KindOf <- TwoDeployments
  HostName <- OwnNames
  LabelIsName = TRUE
  System <- NoObjs
  Resources <- DeploymentBoth
  ConflictPolicy = "manual"
  Required = "none"
  RecordDecisions = TRUE
  CacheLag = TRUE
  Limited = FALSE
  Burst = 0
  MayDelete = {"Deployment", "Service", "Pod"}
  Frees = {"a", "b"}
  Fixeds = {"unset"}
  Classes = {"none"}
  HostAddress = "hostIP"
  TenantAddress = "tenantIP"
  EnvOps = {"tenantCreate", "tenantEdit", "tenantDelete", "hostEdit", "hostDelete", "foreignCreate"}
  MaxOps = 4
  MaxFaults = 0
PROPERTY SavedHistoryGrows
