SPECIFICATION FairSpec
CONSTANTS
  Obj <- TwoObjs
  KindOf <- TwoDeployments
  HostName <- OwnNames
  LabelIsName = TRUE
  System <- NoObjs
  Resources <- DeploymentToHost
  ConflictPolicy = "manual"
  Required = "none"
  RecordDecisions = FALSE
  CacheLag = TRUE
  Limited = TRUE
  Burst = 1
  MayDelete = {"Deployment", "Service", "Pod"}
  Frees = {"a", "b"}
  Fixeds = {"unset"}
  Classes = {"none"}
  HostAddress = "hostIP"
  TenantAddress = "tenantIP"
  EnvOps = {"tenantCreate"}
  MaxOps = 2
  MaxFaults = 0
PROPERTY EveryObjectProjected
