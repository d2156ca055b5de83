SPECIFICATION Spec
CONSTANTS
  Obj <- TwoObjs
  KindOf <- TwoServices
  HostName <- SharedName
  LabelIsName = TRUE
  System <- NoObjs
  Resources <- ServiceBoth
  ConflictPolicy = "manual"
  Required = "none"
  RecordDecisions = TRUE
  CacheLag = TRUE
  Limited = TRUE
  Burst = 1
  MayDelete = {"Deployment", "Service", "Pod"}
  Frees = {"a", "b"}
  Fixeds = {"unset"}
  Classes = {"none"}
  HostAddress = "hostIP"
  TenantAddress = "tenantIP"
  EnvOps = {"tenantCreate", "tenantEdit", "tenantDelete", "hostEdit", "hostDelete", "foreignCreate", "touch"}
  MaxOps = 4
  MaxFaults = 1
INVARIANTS TypeOK HistoryTruth
PROPERTIES ProvenanceStable OnlyOrphansDeleted NoLostEdit ImplementsPairs
