---------------------------- MODULE MCSyncEngine ----------------------------
(* Instances of SyncEngine for TLC. *)
EXTENDS SyncEngineRefinement, TLC

OneObj == {1}
TwoObjs == {1, 2}
ThreeObjs == {1, 2, 3}

OneDeployment == (1 :> "Deployment")
OneConfigMap == (1 :> "ConfigMap")
OnePod == (1 :> "Pod")
TwoDeployments == (1 :> "Deployment") @@ (2 :> "Deployment")
TwoServices == (1 :> "Service") @@ (2 :> "Service")
TwoDeploymentsAndPod == (1 :> "Deployment") @@ (2 :> "Pod") @@ (3 :> "Deployment")
DeploymentAndService == (1 :> "Deployment") @@ (2 :> "Service")

OneName == (1 :> 1)
OwnNames == (1 :> 1) @@ (2 :> 2)
SharedName == (1 :> 1) @@ (2 :> 1)
ThirdShares == (1 :> 1) @@ (2 :> 2) @@ (3 :> 1)

NoObjs == {}
Third == {3}

R(k, d) == [kind |-> k, dir |-> d]
DeploymentToHost == <<R("Deployment", "toHost")>>
ConfigMapToHost == <<R("ConfigMap", "toHost")>>
DeploymentBoth == <<R("Deployment", "bidirectional")>>
ServiceBoth == <<R("Service", "bidirectional")>>
PodBoth == <<R("Pod", "bidirectional")>>
DeploymentToHostPodBoth == <<R("Deployment", "toHost"), R("Pod", "bidirectional")>>
DeploymentBothServiceFromHost == <<R("Deployment", "bidirectional"), R("Service", "fromHost")>>
TwoKindsBoth == <<R("Deployment", "bidirectional"), R("Service", "bidirectional")>>
=============================================================================
