SPECIFICATION Spec
CONSTANTS
  Obj <- OneObj
  KindOf <- OneDeployment
  HostName <- OneName
  LabelIsName = TRUE
  System <- NoObjs
  Resources <- DeploymentToHost
  ConflictPolicy = "manual"
  Required = "none"
  RecordDecisions = FALSE
  CacheLag = TRUE
  Limited = FALSE
  Burst = 0
  MayDelete = {"Deployment", "Service", "Pod"}
  Frees = {"a", "b"}
  Fixeds = {"unset"}
  Classes = {"none"}
  HostAddress = "hostIP"
  TenantAddress = "tenantIP"
  EnvOps = {"tenantCreate", "tenantEdit", "tenantDelete", "hostEdit", "hostDelete", "foreignCreate"}
  MaxOps = 4
  MaxFaults = 0
PROPERTY ForeignUntouched
