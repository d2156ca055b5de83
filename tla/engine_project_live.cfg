SPECIFICATION FairSpec
CONSTANTS
  Obj <- ThreeObjs
  KindOf <- TwoDeploymentsAndPod
  HostName <- ThirdShares
  LabelIsName = TRUE
  System <- Third
  Resources <- DeploymentToHostPodBoth
  ConflictPolicy = "tenant-wins"
  Required = "sandbox"
  RecordDecisions = FALSE
  CacheLag = TRUE
  Limited = FALSE
  Burst = 0
  MayDelete = {"Deployment", "Service", "Pod"}
  Frees = {"a", "b"}
  Fixeds = {"x"}
  Classes = {"none"}
  HostAddress = "hostIP"
  TenantAddress = "tenantIP"
  EnvOps = {"tenantCreate", "tenantEdit", "tenantDelete", "hostEdit", "hostDelete", "foreignCreate", "schedule", "reset"}
  MaxOps = 4
  MaxFaults = 1
PROPERTIES EveryObjectProjected PairsAgree OrphansCollected
