SPECIFICATION FairSpec
CONSTANTS
  Obj <- OneObj
  KindOf <- OnePod
  HostName <- OneName
  LabelIsName = TRUE
  System <- NoObjs
  Resources <- PodBoth
  ConflictPolicy = "tenant-wins"
  Required = "sandbox"
  RecordDecisions = FALSE
  CacheLag = TRUE
  Limited = FALSE
  Burst = 0
  MayDelete = {"Deployment", "Service", "Pod"}
  Frees = {"a", "b"}
  Fixeds = {"x"}
  Classes = {"own"}
  HostAddress = "hostIP"
  TenantAddress = "tenantIP"
  EnvOps = {"tenantCreate"}
  MaxOps = 1
  MaxFaults = 0
PROPERTY PairsAgree
