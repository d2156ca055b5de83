SPECIFICATION FairSpec
CONSTANTS
  Obj <- TwoObjs
  KindOf <- TwoDeployments
  HostName <- SharedName
  LabelIsName = TRUE
  System <- NoObjs
  Resources <- DeploymentToHost
  ConflictPolicy = "manual"
  Required = "none"
  RecordDecisions = FALSE
  CacheLag = TRUE
  Limited = FALSE
  Burst = 0
  MayDelete = {"Deployment", "Service", "Pod"}
  Frees = {"a", "b"}
  Fixeds = {"unset"}
  Classes = {"none"}
  HostAddress = "hostIP"
  TenantAddress = "tenantIP"
  EnvOps = {"tenantCreate", "tenantDelete"}
  MaxOps = 3
  MaxFaults = 0
PROPERTY OrphansCollected
