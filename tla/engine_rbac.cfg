SPECIFICATION FairSpec
CONSTANTS
  Obj <- OneObj
  KindOf <- OneConfigMap
  HostName <- OneName
  LabelIsName = TRUE
  System <- NoObjs
  Resources <- ConfigMapToHost
  ConflictPolicy = "manual"
  Required = "none"
  RecordDecisions = FALSE
  CacheLag = TRUE
  Limited = FALSE
  Burst = 0
  MayDelete = {"Deployment", "Service", "Pod"}
  Frees = {"a", "b"}
  Fixeds = {"unset"}
  Classes = {"none"}
  HostAddress = "hostIP"
  TenantAddress = "tenantIP"
  EnvOps = {"tenantCreate", "tenantDelete"}
  MaxOps = 2
  MaxFaults = 0
PROPERTY OrphansCollected
