SPECIFICATION Spec
CONSTANTS
  Obj <- OneObj
  KindOf <- OnePod
  HostName <- OneName
  LabelIsName = TRUE
  System <- NoObjs
  Resources <- PodBoth
  ConflictPolicy = "manual"
  Required = "none"
  RecordDecisions = TRUE
  CacheLag = TRUE
  Limited = FALSE
  Burst = 0
  MayDelete = {"Deployment", "Service", "Pod"}
  Frees = {"a", "b"}
  Fixeds = {"x", "y"}
  Classes = {"none"}
  HostAddress = "hostIP"
  TenantAddress = "tenantIP"
  EnvOps = {"tenantCreate", "tenantEdit", "tenantDelete", "hostEdit", "hostDelete", "foreignCreate", "touch"}
  MaxOps = 4
  MaxFaults = 0
INVARIANT HistoryTruth
