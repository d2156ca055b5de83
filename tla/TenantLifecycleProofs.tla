------------------------ MODULE TenantLifecycleProofs ------------------------
(***************************************************************************)
(* Proofs about TenantLifecycle, for any tenants, namespaces and bounds.   *)
(***************************************************************************)
EXTENDS TenantLifecycle, TLAPS

TearingDown == {"unbind", "teardown", "delete-namespace", "release"}

\* The informer's copy of a TenantCluster is never ahead of it, and one that is
\* live and has the finalizer vouches for the finalizer: only the worker takes it
\* away, and only after it has seen the deletion.
InformerCoherent ==
  \A t \in Tenants :
    /\ tcSeen[t].state = "deleting" => tc[t].state \in {"deleting", "gone"}
    /\ tcSeen[t].state = "gone" => tc[t].state = "gone"
    /\ tcSeen[t].state = "active" /\ tcSeen[t].finalizer => tc[t].finalizer
    /\ tc[t].state \in {"gone", "absent"} => ~tc[t].finalizer
    /\ tc[t].state = "absent" => tcSeen[t].state = "absent"

\* So does the copy of a reconcile that provisions; one that tears down has seen
\* the deletion.
WorkerCoherent ==
  /\ pc \in Provisioning => tc[cur].finalizer
  /\ pc \in TearingDown =>
       copy.state = "deleting" /\ tcSeen[cur].state \in {"deleting", "gone"}

\* A tenant's namespace has the tenant's name for it, and once the worker has
\* seen that there is none it stays so.
NamespacesHeld ==
  /\ \A c \in CpNames : cpns[c].owner \in Tenants => c = ControlPlaneNs[cpns[c].owner]
  /\ pc = "release" => \A c \in CpNames : cpns[c].owner # cur

\* Once teardown has removed the binding it is not made again.
BindingsHeld == pc \in TearingDown \ {"unbind"} => cur \notin bindings

IInv ==
  /\ TypeOK /\ InformerCoherent /\ WorkerCoherent
  /\ BindingsCleared /\ BindingsHeld
  /\ ~NamespaceLag => NamespacesHeld /\ FinalizerHeldUntilGone
-----------------------------------------------------------------------------
\* What the type invariant is made of, and what the actions have in common.
USE LifecycleAssumption
USE DEF TenantObject, NamespaceObject, Absent, Gone, NoNamespace, Cluster, Namespace

\* Every tenant has its two namespaces.
LEMMA NamesOK == \A t \in Tenants : ControlPlaneNs[t] \in CpNames /\ WorkloadNs[t] \in WorkloadNames
  BY DEF CpNames, WorkloadNames

\* The steps of a reconcile have one of three ends: it goes on, it returns, or it
\* reports the status and returns.
LEMMA Returned ==
  ASSUME WorkerTypes, Return, ops' \in Nat, faults' \in Nat
  PROVE  WorkerTypes'
  BY DEF WorkerTypes, Return, Steps, Provisioning, Degrading

\* It goes on to a later call.
LEMMA Went ==
  ASSUME WorkerTypes, pc # "idle", NEW s \in Steps \ {"idle"}, Go(s), UNCHANGED <<ops, faults>>,
         s \in Provisioning => pc \in Provisioning, s # "finalizer"
  PROVE  WorkerTypes'
  BY DEF WorkerTypes, Go, Steps

\* It writes the status, or finds its copy stale.
LEMMA Reported ==
  ASSUME ClusterTypes, cur \in Tenants, UNCHANGED <<tc, tcSeen>>,
         NEW p \in {"", "Degraded", "Provisioning", "Ready"}, NEW s \in BOOLEAN,
         ReportStatus(p, s)
  PROVE  ClusterTypes' /\ Return
  BY DEF ClusterTypes, ReportStatus, statusVars

\* degrade is such a report.
LEMMA Degraded ==
  ASSUME ClusterTypes, cur \in Tenants, UNCHANGED <<tc, tcSeen>>, degrade
  PROVE  ClusterTypes' /\ Return
  BY Reported DEF ClusterTypes, degrade

\* The budget of failures stays a number.
LEMMA FaultOK == faults \in Nat /\ Fault => faults' \in Nat
  BY DEF Fault

\* Every step keeps the types, one case per action.
LEMMA TypeStep == TypeOK /\ [Next]_vars => TypeOK'
<1> SUFFICES ASSUME ClusterTypes, HostTypes, WorkerTypes, [Next]_vars
             PROVE  ClusterTypes' /\ HostTypes' /\ WorkerTypes'
  BY DEF TypeOK
<1> USE DEF vars, apiVars, cacheVars, statusVars, CP, WNS
<1>0. ops \in Nat /\ faults \in Nat /\ (pc # "idle" => cur \in Tenants)
  BY DEF WorkerTypes
<1>1. CASE AddFinalizer
  <2>a. cur \in Tenants /\ copy.state = "active" /\ HostTypes'
    BY <1>0, <1>1 DEF AddFinalizer, HostTypes, WorkerTypes
  <2>b. tc' = tc \/ tc' = [tc EXCEPT ![cur] = Cluster("active", TRUE)]
    BY <1>1, <2>a DEF AddFinalizer
  <2>c. UNCHANGED <<tcSeen, phase, synced>>
    BY <1>1 DEF AddFinalizer
  <2>d. ASSUME tc' = tc PROVE ClusterTypes'
    BY <2>c, <2>d DEF ClusterTypes
  <2>e. ASSUME tc' = [tc EXCEPT ![cur] = Cluster("active", TRUE)] PROVE ClusterTypes'
    BY <2>a, <2>c, <2>e DEF ClusterTypes
  <2>1. ClusterTypes' /\ HostTypes'
    BY <2>a, <2>b, <2>d, <2>e
  <2>2. CASE Return
    BY <1>0, <1>1, <2>1, <2>2, Returned DEF AddFinalizer
  <2>3. CASE ~Return
    <3>1. copy' = Cluster("active", TRUE)
      BY <1>1, <2>3 DEF AddFinalizer, WorkerTypes
    <3> QED
      BY <1>1, <2>1, <2>3, <3>1 DEF AddFinalizer, WorkerTypes, Steps, Degrading
  <2> QED
    BY <2>2, <2>3
<1>2. CASE ApplyIsolation
  <2>1. HostTypes'
    BY <1>0, <1>2, NamesOK DEF ApplyIsolation, HostTypes
  <2>2. CASE degrade
    BY <1>0, <1>2, <2>1, <2>2, Degraded, Returned DEF ApplyIsolation
  <2>3. CASE ~degrade
    <3>1. ClusterTypes'
      BY <1>2, <2>3 DEF ApplyIsolation, ClusterTypes
    <3>2. WorkerTypes'
      BY <1>2, <2>3, Went DEF ApplyIsolation, Steps, Provisioning, Degrading
    <3> QED
      BY <2>1, <3>1, <3>2
  <2> QED
    BY <2>2, <2>3
<1>3. CASE ApplyNamespaceLabels
  <2>1. ClusterTypes' /\ HostTypes'
    BY <1>0, <1>3, NamesOK DEF ApplyNamespaceLabels, ClusterTypes, HostTypes
  <2>2. WorkerTypes'
    BY <1>3, Went DEF ApplyNamespaceLabels, Steps, Provisioning, Degrading
  <2> QED
    BY <2>1, <2>2
<1>4. CASE ReconcileBinding
  <2>1. ClusterTypes' /\ HostTypes'
    BY <1>0, <1>4, NamesOK DEF ReconcileBinding, ClusterTypes, HostTypes
  <2>2. WorkerTypes'
    BY <1>4, Went DEF ReconcileBinding, Steps, Provisioning, Degrading
  <2> QED
    BY <2>1, <2>2
<1>5. CASE EnsureControllerScopePolicies
  <2>1. ClusterTypes' /\ HostTypes'
    BY <1>0, <1>5, NamesOK DEF EnsureControllerScopePolicies, ClusterTypes, HostTypes
  <2>2. WorkerTypes'
    BY <1>5, Went DEF EnsureControllerScopePolicies, Steps, Provisioning, Degrading
  <2> QED
    BY <2>1, <2>2
<1>6. CASE EnsureControlPlaneNamespace
  <2>1. HostTypes'
    BY <1>0, <1>6, NamesOK DEF EnsureControlPlaneNamespace, HostTypes, NamespaceObject, Namespace
  <2>2. CASE degrade
    BY <1>0, <1>6, <2>1, <2>2, Degraded, Returned DEF EnsureControlPlaneNamespace
  <2>3. CASE ~degrade
    <3>1. ClusterTypes'
      BY <1>6, <2>3 DEF EnsureControlPlaneNamespace, ClusterTypes
    <3>2. WorkerTypes'
      BY <1>6, <2>3, Went DEF EnsureControlPlaneNamespace, Steps, Provisioning, Degrading
    <3> QED
      BY <2>1, <3>1, <3>2
  <2> QED
    BY <2>2, <2>3
<1>7. CASE ReconcileControlPlane
  <2>1. HostTypes'
    BY <1>0, <1>7, NamesOK DEF ReconcileControlPlane, HostTypes
  <2>2. CASE degrade
    BY <1>0, <1>7, <2>1, <2>2, Degraded, Returned DEF ReconcileControlPlane
  <2>3. CASE ReportStatus("Provisioning", synced[cur])
    <3>1. synced[cur] \in BOOLEAN
      BY <1>0, <1>7 DEF ReconcileControlPlane, ClusterTypes
    <3> QED
      BY <1>0, <1>7, <2>1, <2>3, <3>1, Reported, Returned DEF ReconcileControlPlane
  <2>4. CASE Go("kubeconfig") /\ UNCHANGED statusVars
    <3>1. ClusterTypes'
      BY <1>7, <2>4 DEF ReconcileControlPlane, ClusterTypes
    <3>2. WorkerTypes'
      BY <1>7, <2>4, Went DEF ReconcileControlPlane, Steps, Provisioning, Degrading
    <3> QED
      BY <2>1, <3>1, <3>2
  <2> QED
    BY <1>7, <2>2, <2>3, <2>4 DEF ReconcileControlPlane
<1>8. CASE EnsureKubeconfigSecret
  <2>1. HostTypes'
    BY <1>0, <1>8, NamesOK DEF EnsureKubeconfigSecret, HostTypes
  <2>2. CASE degrade
    BY <1>0, <1>8, <2>1, <2>2, Degraded, Returned DEF EnsureKubeconfigSecret
  <2>3. CASE ~degrade
    <3>1. ClusterTypes'
      BY <1>8, <2>3 DEF EnsureKubeconfigSecret, ClusterTypes
    <3>2. WorkerTypes'
      BY <1>8, <2>3, Went DEF EnsureKubeconfigSecret, Steps, Provisioning, Degrading
    <3> QED
      BY <2>1, <3>1, <3>2
  <2> QED
    BY <2>2, <2>3
<1>9. CASE RunSync
  <2> DEFINE works == sts[CP] = "ready" /\ secret[cur] = incarnation[CP]
  <2>1. HostTypes'
    BY <1>0, <1>9 DEF RunSync, HostTypes
  <2>2. ClusterTypes' /\ Return
    <3>1. works \in BOOLEAN /\ ReportStatus("Ready", works) /\ UNCHANGED <<tc, tcSeen>>
      BY <1>9 DEF RunSync
    <3> HIDE DEF works
    <3> QED
      BY <1>0, <1>9, <3>1, Reported DEF RunSync
  <2> QED
    BY <1>0, <1>9, <2>1, <2>2, Returned DEF RunSync
<1>10. CASE DeleteRuntimeClassBinding
  <2>1. ClusterTypes' /\ HostTypes'
    BY <1>0, <1>10, NamesOK DEF DeleteRuntimeClassBinding, ClusterTypes, HostTypes
  <2>2. WorkerTypes'
    BY <1>10, Went DEF DeleteRuntimeClassBinding, Steps, Provisioning, Degrading
  <2> QED
    BY <2>1, <2>2
<1>11. CASE Teardown
  <2>1. ClusterTypes' /\ HostTypes'
    BY <1>11 DEF Teardown, ClusterTypes, HostTypes
  <2>2. CASE Return
    BY <1>0, <1>11, <2>1, <2>2, Returned DEF Teardown
  <2>3. CASE ~Return
    BY <1>11, <2>1, <2>3, Went DEF Teardown, Steps, Provisioning, Degrading
  <2> QED
    BY <2>2, <2>3
<1>12. CASE DeleteControlPlaneNamespace
  <2>1. ClusterTypes' /\ HostTypes'
    BY <1>0, <1>12, NamesOK DEF DeleteControlPlaneNamespace, ClusterTypes, HostTypes, NamespaceObject, Namespace
  <2>2. WorkerTypes'
    BY <1>0, <1>12, Returned DEF DeleteControlPlaneNamespace
  <2> QED
    BY <2>1, <2>2
<1>13. CASE ReleaseFinalizer
  <2>a. HostTypes' /\ cur \in Tenants /\ UNCHANGED tcSeen
    BY <1>0, <1>13 DEF ReleaseFinalizer, HostTypes
  <2>b. ASSUME UNCHANGED <<tc, statusVars>> PROVE ClusterTypes'
    BY <2>a, <2>b DEF ClusterTypes
  <2>c. ASSUME ~UNCHANGED <<tc, statusVars>> PROVE ClusterTypes'
    <3>1. /\ tc' = [tc EXCEPT ![cur] = Gone]
          /\ phase' = [phase EXCEPT ![cur] = ""] /\ synced' = [synced EXCEPT ![cur] = FALSE]
      BY <1>13, <2>c DEF ReleaseFinalizer
    <3> QED
      BY <2>a, <3>1 DEF ClusterTypes
  <2>1. ClusterTypes' /\ HostTypes'
    BY <2>a, <2>b, <2>c
  <2>2. WorkerTypes'
    BY <1>0, <1>13, Returned DEF ReleaseFinalizer
  <2> QED
    BY <2>1, <2>2
<1>14. CASE CallFails
  <2>1. HostTypes' /\ faults' \in Nat /\ ops' = ops /\ cur \in Tenants
    BY <1>0, <1>14, FaultOK DEF CallFails, HostTypes
  <2>2. CASE degrade
    BY <1>0, <1>14, <2>1, <2>2, Degraded, Returned DEF CallFails
  <2>3. CASE ReportStatus("Ready", FALSE)
    BY <1>0, <1>14, <2>1, <2>3, Reported, Returned DEF CallFails
  <2>4. CASE Return /\ UNCHANGED statusVars
    BY <1>0, <1>14, <2>1, <2>4, Returned DEF CallFails, ClusterTypes
  <2> QED
    BY <1>14, <2>2, <2>3, <2>4 DEF CallFails
<1>15. CASE Restart
  <2>1. ClusterTypes' /\ HostTypes'
    BY <1>15 DEF Restart, ClusterTypes, HostTypes
  <2>2. WorkerTypes'
    BY <1>0, <1>15, Returned, FaultOK DEF Restart
  <2> QED
    BY <2>1, <2>2
<1>16. ASSUME NEW t \in Tenants, Begin(t)
       PROVE  ClusterTypes' /\ HostTypes' /\ WorkerTypes'
  <2>1. ClusterTypes' /\ HostTypes'
    BY <1>16 DEF Begin, ClusterTypes, HostTypes
  <2>2. copy' \in TenantObject /\ copy'.state \in {"active", "deleting"} /\ pc' = FirstStep(copy')
    BY <1>16 DEF Begin, ClusterTypes
  <2>3. WorkerTypes'
    BY <1>16, <2>2 DEF Begin, WorkerTypes, FirstStep, Steps, Provisioning, Degrading, TenantObject
  <2> QED
    BY <2>1, <2>3
<1>17. ASSUME NEW t \in Tenants, SeeTenant(t)
       PROVE  ClusterTypes' /\ HostTypes' /\ WorkerTypes'
  <2>1. ClusterTypes'
    BY <1>17 DEF SeeTenant, ClusterTypes
  <2>2. HostTypes'
    BY <1>17 DEF SeeTenant, HostTypes
  <2>3. WorkerTypes'
    BY <1>0, <1>17 DEF SeeTenant, WorkerTypes
  <2> QED
    BY <2>1, <2>2, <2>3
<1>18. ASSUME NEW t \in Tenants, CollectGarbage(t)
       PROVE  ClusterTypes' /\ HostTypes' /\ WorkerTypes'
  <2>1. ClusterTypes'
    BY <1>18 DEF CollectGarbage, ClusterTypes
  <2>2. HostTypes'
    BY <1>18 DEF CollectGarbage, HostTypes
  <2>3. WorkerTypes'
    BY <1>0, <1>18 DEF CollectGarbage, WorkerTypes
  <2> QED
    BY <2>1, <2>2, <2>3
<1>19. ASSUME NEW c \in CpNames, SeeNamespace(c)
       PROVE  ClusterTypes' /\ HostTypes' /\ WorkerTypes'
  <2>1. ClusterTypes'
    BY <1>19 DEF SeeNamespace, ClusterTypes
  <2>2. HostTypes'
    BY <1>19 DEF SeeNamespace, HostTypes
  <2>3. WorkerTypes'
    BY <1>0, <1>19 DEF SeeNamespace, WorkerTypes
  <2> QED
    BY <2>1, <2>2, <2>3
<1>20. ASSUME NEW c \in CpNames, NamespaceRemoved(c)
       PROVE  ClusterTypes' /\ HostTypes' /\ WorkerTypes'
  <2>1. ClusterTypes'
    BY <1>20 DEF NamespaceRemoved, ClusterTypes
  <2>2. HostTypes'
    BY <1>20 DEF NamespaceRemoved, HostTypes
  <2>3. WorkerTypes'
    BY <1>0, <1>20 DEF NamespaceRemoved, WorkerTypes
  <2> QED
    BY <2>1, <2>2, <2>3
<1>21. ASSUME NEW c \in CpNames, ControlPlaneReady(c)
       PROVE  ClusterTypes' /\ HostTypes' /\ WorkerTypes'
  <2>1. ClusterTypes'
    BY <1>21 DEF ControlPlaneReady, ClusterTypes
  <2>2. HostTypes'
    BY <1>21 DEF ControlPlaneReady, HostTypes
  <2>3. WorkerTypes'
    BY <1>0, <1>21 DEF ControlPlaneReady, WorkerTypes
  <2> QED
    BY <2>1, <2>2, <2>3
<1>22. ASSUME NEW c \in CpNames, ControlPlaneFails(c)
       PROVE  ClusterTypes' /\ HostTypes' /\ WorkerTypes'
  <2>1. ClusterTypes'
    BY <1>22 DEF ControlPlaneFails, ClusterTypes
  <2>2. HostTypes'
    BY <1>22 DEF ControlPlaneFails, HostTypes
  <2>3. WorkerTypes'
    BY <1>0, <1>22, FaultOK DEF ControlPlaneFails, WorkerTypes
  <2> QED
    BY <2>1, <2>2, <2>3
<1>23. ASSUME NEW t \in Tenants, CreateTenant(t)
       PROVE  ClusterTypes' /\ HostTypes' /\ WorkerTypes'
  <2>1. ClusterTypes'
    BY <1>23 DEF CreateTenant, ClusterTypes, Outside, TenantObject, Cluster
  <2>2. HostTypes'
    BY <1>23 DEF CreateTenant, HostTypes, Outside, TenantObject, Cluster
  <2>3. WorkerTypes'
    BY <1>0, <1>23 DEF CreateTenant, WorkerTypes, Outside, TenantObject, Cluster
  <2> QED
    BY <2>1, <2>2, <2>3
<1>24. ASSUME NEW t \in Tenants, DeleteTenant(t)
       PROVE  ClusterTypes' /\ HostTypes' /\ WorkerTypes'
  <2>a. UNCHANGED <<tcSeen, pc, cur, copy, faults>> /\ ops' = ops - 1 /\ ops > 0
    BY <1>24 DEF DeleteTenant, Outside
  <2>b. HostTypes'
    BY <1>24 DEF DeleteTenant, Outside, HostTypes
  <2>1. ASSUME tc[t].finalizer PROVE ClusterTypes'
    <3>1. tc' = [tc EXCEPT ![t] = Cluster("deleting", TRUE)] /\ UNCHANGED statusVars
      BY <1>24, <2>1 DEF DeleteTenant
    <3> QED
      BY <2>a, <3>1 DEF ClusterTypes
  <2>2. ASSUME ~tc[t].finalizer PROVE ClusterTypes'
    <3>1. /\ tc' = [tc EXCEPT ![t] = Gone]
          /\ phase' = [phase EXCEPT ![t] = ""] /\ synced' = [synced EXCEPT ![t] = FALSE]
      BY <1>24, <2>2 DEF DeleteTenant
    <3> QED
      BY <2>a, <3>1 DEF ClusterTypes
  <2>3. ops' \in Nat
    BY <1>0, <2>a
  <2>4. WorkerTypes'
    BY <2>a, <2>3 DEF WorkerTypes
  <2> QED
    BY <2>b, <2>1, <2>2, <2>4
<1>25. ASSUME NEW c \in CpNames, DeleteNamespace(c)
       PROVE  ClusterTypes' /\ HostTypes' /\ WorkerTypes'
  <2>1. ClusterTypes'
    BY <1>25 DEF DeleteNamespace, ClusterTypes, Outside, NamespaceObject, Namespace
  <2>2. HostTypes'
    BY <1>25 DEF DeleteNamespace, HostTypes, Outside, NamespaceObject, Namespace
  <2>3. WorkerTypes'
    BY <1>0, <1>25 DEF DeleteNamespace, WorkerTypes, Outside, NamespaceObject, Namespace
  <2> QED
    BY <2>1, <2>2, <2>3
<1>26. ASSUME NEW c \in CpNames, StrangerNamespace(c)
       PROVE  ClusterTypes' /\ HostTypes' /\ WorkerTypes'
  <2>1. ClusterTypes'
    BY <1>26 DEF StrangerNamespace, ClusterTypes, Outside, NamespaceObject, Namespace
  <2>2. HostTypes'
    BY <1>26 DEF StrangerNamespace, HostTypes, Outside, NamespaceObject, Namespace
  <2>3. WorkerTypes'
    BY <1>0, <1>26 DEF StrangerNamespace, WorkerTypes, Outside, NamespaceObject, Namespace
  <2> QED
    BY <2>1, <2>2, <2>3
<1>27. CASE UNCHANGED vars
  BY <1>27 DEF ClusterTypes, HostTypes, WorkerTypes
<1> QED
  BY <1>1, <1>2, <1>3, <1>4, <1>5, <1>6, <1>7, <1>8, <1>9, <1>10, <1>11, <1>12, <1>13, <1>14, <1>15, <1>16, <1>17, <1>18, <1>19, <1>20, <1>21, <1>22, <1>23, <1>24, <1>25, <1>26, <1>27
     DEF Next, Worker, Kubernetes, Failures, Users
-----------------------------------------------------------------------------
\* Who writes a TenantCluster or reads it into the informer.
LEMMA ClusterFrame ==
  ASSUME [Next]_vars
  PROVE  \/ UNCHANGED <<tc, tcSeen>>
         \/ AddFinalizer \/ ReleaseFinalizer \/ Restart
         \/ \E t \in Tenants : SeeTenant(t) \/ CreateTenant(t) \/ DeleteTenant(t)
<1> USE DEF vars, apiVars, cacheVars, statusVars
<1>1. CASE Worker
  BY <1>1 DEF Worker, ApplyIsolation, ApplyNamespaceLabels, ReconcileBinding,
       EnsureControllerScopePolicies, EnsureControlPlaneNamespace, ReconcileControlPlane,
       EnsureKubeconfigSecret, RunSync, DeleteRuntimeClassBinding, Teardown,
       DeleteControlPlaneNamespace
<1>2. CASE \E t \in Tenants : Begin(t)
  BY <1>2 DEF Begin
<1>3. CASE Kubernetes
  BY <1>3 DEF Kubernetes, CollectGarbage, SeeNamespace, NamespaceRemoved, ControlPlaneReady
<1>4. CASE Failures
  BY <1>4 DEF Failures, CallFails, ControlPlaneFails
<1>5. CASE Users
  BY <1>5 DEF Users, DeleteNamespace, StrangerNamespace, Outside
<1> QED
  BY <1>1, <1>2, <1>3, <1>4, <1>5 DEF Next

\* What a step does to the worker.
LEMMA WorkerFrame ==
  ASSUME [Next]_vars
  PROVE  \/ UNCHANGED <<pc, cur, copy>>
         \/ Return
         \/ /\ UNCHANGED <<cur, copy, tc, tcSeen>>
            /\ \/ pc \in Provisioning /\ pc' \in Provisioning
               \/ pc = "unbind" /\ DeleteRuntimeClassBinding
               \/ pc = "teardown" /\ Teardown /\ pc' \in {"release", "delete-namespace"}
         \/ AddFinalizer
         \/ \E t \in Tenants : Begin(t)
<1> USE DEF vars, apiVars, cacheVars, statusVars, Go
<1>1. CASE Worker
  <2> USE DEF Provisioning, Degrading, TearingDown
  <2>1. CASE ApplyIsolation \/ EnsureControlPlaneNamespace \/ ReconcileControlPlane
    BY <2>1 DEF ApplyIsolation, EnsureControlPlaneNamespace, ReconcileControlPlane,
         degrade, ReportStatus
  <2>2. CASE EnsureKubeconfigSecret \/ RunSync
    BY <2>2 DEF EnsureKubeconfigSecret, RunSync, degrade, ReportStatus
  <2>3. CASE ApplyNamespaceLabels \/ ReconcileBinding \/ EnsureControllerScopePolicies
    BY <2>3 DEF ApplyNamespaceLabels, ReconcileBinding, EnsureControllerScopePolicies
  <2>4. CASE DeleteRuntimeClassBinding \/ Teardown
    BY <2>4 DEF DeleteRuntimeClassBinding, Teardown
  <2>5. CASE DeleteControlPlaneNamespace \/ ReleaseFinalizer
    BY <2>5 DEF DeleteControlPlaneNamespace, ReleaseFinalizer
  <2> QED
    BY <1>1, <2>1, <2>2, <2>3, <2>4, <2>5 DEF Worker
<1>2. CASE Kubernetes
  BY <1>2 DEF Kubernetes, SeeTenant, CollectGarbage, SeeNamespace, NamespaceRemoved,
       ControlPlaneReady
<1>3. CASE Failures
  BY <1>3 DEF Failures, CallFails, Restart, ControlPlaneFails, degrade, ReportStatus
<1>4. CASE Users
  BY <1>4 DEF Users, CreateTenant, DeleteTenant, DeleteNamespace, StrangerNamespace, Outside
<1> QED
  BY <1>1, <1>2, <1>3, <1>4 DEF Next

\* Every step keeps the informer's copy coherent.
LEMMA InformerStep ==
  ASSUME TypeOK, InformerCoherent, WorkerCoherent, [Next]_vars
  PROVE  InformerCoherent'
<1>0. /\ tc \in [Tenants -> TenantObject] /\ tcSeen \in [Tenants -> TenantObject]
      /\ pc # "idle" => cur \in Tenants
      /\ pc = "finalizer" => copy.state = "active"
  BY DEF TypeOK, ClusterTypes, WorkerTypes
<1>1. CASE UNCHANGED <<tc, tcSeen>>
  BY <1>0, <1>1 DEF InformerCoherent
<1>2. CASE AddFinalizer
  <2>1. cur \in Tenants /\ copy.state = "active" /\ UNCHANGED tcSeen
    BY <1>0, <1>2 DEF AddFinalizer, cacheVars
  <2>2. CASE UNCHANGED tc
    BY <1>0, <2>1, <2>2 DEF InformerCoherent
  <2>3. CASE tc[cur].state = "active" /\ tc' = [tc EXCEPT ![cur] = Cluster("active", TRUE)]
    BY <1>0, <2>1, <2>3 DEF InformerCoherent
  <2> QED
    BY <1>0, <1>2, <2>1, <2>2, <2>3 DEF AddFinalizer, Current
<1>3. CASE ReleaseFinalizer
  <2>1. cur \in Tenants /\ tcSeen[cur].state \in {"deleting", "gone"} /\ UNCHANGED tcSeen
    BY <1>0, <1>3 DEF ReleaseFinalizer, WorkerCoherent, TearingDown, cacheVars
  <2>2. CASE UNCHANGED tc
    BY <1>0, <2>1, <2>2 DEF InformerCoherent
  <2>3. CASE tc' = [tc EXCEPT ![cur] = Gone]
    BY <1>0, <2>1, <2>3 DEF InformerCoherent
  <2> QED
    BY <1>0, <1>3, <2>2, <2>3 DEF ReleaseFinalizer
<1>4. CASE Restart
  BY <1>0, <1>4 DEF Restart, InformerCoherent
<1>5. ASSUME NEW t \in Tenants, SeeTenant(t) PROVE InformerCoherent'
  BY <1>0, <1>5 DEF SeeTenant, InformerCoherent
<1>6. ASSUME NEW t \in Tenants, CreateTenant(t) PROVE InformerCoherent'
  <2>1. tc' = [tc EXCEPT ![t] = Cluster("active", FALSE)] /\ UNCHANGED tcSeen
    BY <1>0, <1>6 DEF CreateTenant, Outside, cacheVars
  <2>a. tc[t].state = "absent"
    BY <1>0, <1>6 DEF CreateTenant
  <2>2. tcSeen[t].state = "absent"
    BY <1>0, <2>a DEF InformerCoherent
  <2> QED
    BY <1>0, <2>1, <2>2 DEF InformerCoherent
<1>7. ASSUME NEW t \in Tenants, DeleteTenant(t) PROVE InformerCoherent'
  <2>1. tc[t].state = "active" /\ UNCHANGED tcSeen
    BY <1>0, <1>7 DEF DeleteTenant, Outside, cacheVars
  <2>2. CASE tc[t].finalizer /\ tc' = [tc EXCEPT ![t] = Cluster("deleting", TRUE)]
    BY <1>0, <2>1, <2>2 DEF InformerCoherent
  <2>3. CASE ~tc[t].finalizer /\ tc' = [tc EXCEPT ![t] = Gone]
    BY <1>0, <2>1, <2>3 DEF InformerCoherent
  <2> QED
    BY <1>0, <1>7, <2>2, <2>3 DEF DeleteTenant
<1> QED
  BY <1>0, <1>1, <1>2, <1>3, <1>4, <1>5, <1>6, <1>7, ClusterFrame

\* Nobody but the worker takes a finalizer away, and the informer does not forget
\* a deletion.
LEMMA FinalizerKept ==
  ASSUME TypeOK, InformerCoherent, [Next]_vars, NEW t \in Tenants
  PROVE  /\ tc[t].finalizer => tc'[t].finalizer \/ (ReleaseFinalizer /\ t = cur)
         /\ tcSeen[t].state \in {"deleting", "gone"} => tcSeen'[t].state \in {"deleting", "gone"}
<1>0. /\ tc \in [Tenants -> TenantObject] /\ tcSeen \in [Tenants -> TenantObject]
      /\ pc # "idle" => cur \in Tenants
  BY DEF TypeOK, ClusterTypes, WorkerTypes
<1>1. CASE UNCHANGED <<tc, tcSeen>>
  BY <1>1
<1>2. CASE AddFinalizer
  <2>1. cur \in Tenants /\ UNCHANGED tcSeen
    BY <1>0, <1>2 DEF AddFinalizer, cacheVars
  <2>2. CASE tc' = [tc EXCEPT ![cur] = Cluster(copy.state, TRUE)]
    BY <1>0, <2>1, <2>2
  <2> QED
    BY <1>2, <2>1, <2>2 DEF AddFinalizer
<1>3. CASE ReleaseFinalizer
  BY <1>0, <1>3 DEF ReleaseFinalizer, cacheVars
<1>4. CASE Restart
  BY <1>4 DEF Restart, InformerCoherent
<1>5. ASSUME NEW u \in Tenants, SeeTenant(u)
      PROVE  /\ tc[t].finalizer => tc'[t].finalizer
             /\ tcSeen[t].state \in {"deleting", "gone"} => tcSeen'[t].state \in {"deleting", "gone"}
  <2>1. UNCHANGED tc /\ tcSeen'[t] \in {tcSeen[t], tc[t]}
    BY <1>0, <1>5 DEF SeeTenant
  <2> QED
    BY <2>1 DEF InformerCoherent
<1>6. ASSUME NEW u \in Tenants, CreateTenant(u)
      PROVE  UNCHANGED tcSeen /\ (tc[t].finalizer => tc'[t].finalizer)
  <2>1. UNCHANGED tcSeen /\ ~tc[u].finalizer /\ (u # t => tc'[t] = tc[t])
    BY <1>0, <1>6 DEF CreateTenant, Outside, cacheVars
  <2> QED
    BY <2>1
<1>7. ASSUME NEW u \in Tenants, DeleteTenant(u)
      PROVE  UNCHANGED tcSeen /\ (tc[t].finalizer => tc'[t].finalizer)
  <2>1. UNCHANGED tcSeen
    BY <1>7 DEF DeleteTenant, Outside, cacheVars
  <2>2. CASE tc' = [tc EXCEPT ![u] = Cluster("deleting", TRUE)]
    BY <1>0, <2>1, <2>2
  <2>3. CASE ~tc[u].finalizer /\ tc' = [tc EXCEPT ![u] = Gone]
    BY <1>0, <2>1, <2>3
  <2> QED
    BY <1>7, <2>2, <2>3 DEF DeleteTenant
<1> QED
  BY <1>1, <1>2, <1>3, <1>4, <1>5, <1>6, <1>7, ClusterFrame

\* Every step keeps the reconcile's own copy coherent.
LEMMA WorkerStep ==
  ASSUME TypeOK, InformerCoherent, WorkerCoherent, [Next]_vars
  PROVE  WorkerCoherent'
<1> USE DEF TypeOK, WorkerTypes
<1>1. CASE UNCHANGED <<pc, cur, copy>>
  <2>1. ~(pc = "release" /\ ReleaseFinalizer)
    BY <1>1 DEF ReleaseFinalizer, Return
  <2>2. pc # "idle" => cur \in Tenants
    OBVIOUS
  <2> QED
    BY <1>1, <2>1, <2>2, FinalizerKept
    DEF WorkerCoherent, ReleaseFinalizer, Provisioning, Degrading, TearingDown
<1>2. CASE Return
  BY <1>2 DEF Return, WorkerCoherent, Provisioning, Degrading, TearingDown
<1>3. CASE /\ UNCHANGED <<cur, copy, tc, tcSeen>>
           /\ \/ pc \in Provisioning /\ pc' \in Provisioning
              \/ pc = "unbind" /\ DeleteRuntimeClassBinding
              \/ pc = "teardown" /\ Teardown /\ pc' \in {"release", "delete-namespace"}
  BY <1>3 DEF DeleteRuntimeClassBinding, Go, WorkerCoherent, Provisioning, Degrading, TearingDown
<1>4. CASE AddFinalizer
  <2>1. CASE ~Return
    <3>1. pc' = "isolate" /\ cur' = cur /\ cur \in Tenants /\ tc' = [tc EXCEPT ![cur] = copy']
          /\ copy' = Cluster(copy.state, TRUE)
      BY <1>4, <2>1 DEF AddFinalizer
    <3> QED
      BY <3>1 DEF WorkerCoherent, ClusterTypes, TearingDown
  <2> QED
    BY <1>2, <2>1
<1>5. ASSUME NEW t \in Tenants, Begin(t) PROVE WorkerCoherent'
  BY <1>5 DEF Begin, FirstStep, InformerCoherent, WorkerCoherent, cacheVars, Provisioning,
       Degrading, TearingDown
<1> QED
  BY <1>1, <1>2, <1>3, <1>4, <1>5, WorkerFrame
-----------------------------------------------------------------------------
\* Who makes and removes admission bindings.
LEMMA BindingFrame ==
  ASSUME [Next]_vars
  PROVE  UNCHANGED bindings \/ ReconcileBinding \/ DeleteRuntimeClassBinding
<1> USE DEF vars, apiVars
<1>1. CASE Worker
  BY <1>1 DEF Worker, AddFinalizer, ApplyIsolation, ApplyNamespaceLabels,
       EnsureControllerScopePolicies, EnsureControlPlaneNamespace, ReconcileControlPlane,
       EnsureKubeconfigSecret, RunSync, Teardown, DeleteControlPlaneNamespace, ReleaseFinalizer
<1>2. CASE (\E t \in Tenants : Begin(t)) \/ Failures
  BY <1>2 DEF Begin, Failures, CallFails, Restart, ControlPlaneFails
<1>3. CASE Kubernetes
  BY <1>3 DEF Kubernetes, SeeTenant, CollectGarbage, SeeNamespace, NamespaceRemoved,
       ControlPlaneReady
<1>4. CASE Users
  BY <1>4 DEF Users, CreateTenant, DeleteTenant, DeleteNamespace, StrangerNamespace, Outside
<1> QED
  BY <1>1, <1>2, <1>3, <1>4 DEF Next

\* Every step keeps the runtime class bindings behind the finalizer.
LEMMA BindingsStep ==
  ASSUME TypeOK, InformerCoherent, WorkerCoherent, BindingsCleared, BindingsHeld, [Next]_vars
  PROVE  BindingsCleared' /\ BindingsHeld'
<1>0. bindings \subseteq Tenants /\ (pc # "idle" => cur \in Tenants)
  BY DEF TypeOK, HostTypes, WorkerTypes
<1>1. CASE UNCHANGED bindings
  <2>1. BindingsCleared'
    <3> SUFFICES ASSUME NEW t \in bindings PROVE tc'[t].finalizer
      BY <1>1 DEF BindingsCleared
    <3>1. ~(ReleaseFinalizer /\ t = cur)
      BY DEF ReleaseFinalizer, BindingsHeld, TearingDown
    <3> QED
      BY <1>0, <3>1, FinalizerKept DEF BindingsCleared
  <2>2. BindingsHeld'
    <3>1. CASE UNCHANGED <<pc, cur, copy>>
      BY <1>1, <3>1 DEF BindingsHeld
    <3>2. CASE Return
      BY <3>2 DEF Return, BindingsHeld, TearingDown
    <3>3. CASE UNCHANGED <<cur, copy, tc, tcSeen>> /\ pc \in Provisioning /\ pc' \in Provisioning
      BY <3>3 DEF BindingsHeld, TearingDown, Provisioning, Degrading
    <3>4. CASE DeleteRuntimeClassBinding
      BY <1>1, <3>4 DEF DeleteRuntimeClassBinding, BindingsHeld, Go
    <3>7. CASE UNCHANGED <<cur, copy, tc, tcSeen>> /\ pc = "teardown"
      BY <1>1, <3>7 DEF BindingsHeld, TearingDown
    <3>5. CASE AddFinalizer
      BY <3>5, <3>2 DEF AddFinalizer, BindingsHeld, TearingDown
    <3>6. CASE \E t \in Tenants : Begin(t)
      BY <3>6 DEF Begin, FirstStep, BindingsHeld, TearingDown
    <3> QED
      BY <3>1, <3>2, <3>3, <3>4, <3>5, <3>6, <3>7, WorkerFrame
  <2> QED
    BY <2>1, <2>2
<1>2. CASE ReconcileBinding
  <2>1. /\ cur \in Tenants /\ tc[cur].finalizer /\ UNCHANGED <<tc, cur>> /\ pc' = "scope"
        /\ bindings' \subseteq bindings \union {cur}
    BY <1>0, <1>2 DEF ReconcileBinding, WorkerCoherent, Provisioning, Degrading, Go
  <2> QED
    BY <2>1 DEF BindingsCleared, BindingsHeld, TearingDown
<1>3. CASE DeleteRuntimeClassBinding
  BY <1>3 DEF DeleteRuntimeClassBinding, Go, BindingsCleared, BindingsHeld
<1> QED
  BY <1>1, <1>2, <1>3, BindingFrame
-----------------------------------------------------------------------------
\* Who writes control-plane namespaces.
LEMMA NamespaceFrame ==
  ASSUME [Next]_vars
  PROVE  \/ UNCHANGED cpns
         \/ EnsureControlPlaneNamespace \/ DeleteControlPlaneNamespace
         \/ \E c \in CpNames : NamespaceRemoved(c) \/ DeleteNamespace(c) \/ StrangerNamespace(c)
<1> USE DEF vars, apiVars
<1>1. CASE Worker
  BY <1>1 DEF Worker, AddFinalizer, ApplyIsolation, ApplyNamespaceLabels, ReconcileBinding,
       EnsureControllerScopePolicies, ReconcileControlPlane, EnsureKubeconfigSecret, RunSync,
       DeleteRuntimeClassBinding, Teardown, ReleaseFinalizer
<1>2. CASE (\E t \in Tenants : Begin(t)) \/ Failures
  BY <1>2 DEF Begin, Failures, CallFails, Restart, ControlPlaneFails
<1>3. CASE Kubernetes
  BY <1>3 DEF Kubernetes, SeeTenant, CollectGarbage, SeeNamespace, ControlPlaneReady
<1>4. CASE Users
  BY <1>4 DEF Users, CreateTenant, DeleteTenant
<1> QED
  BY <1>1, <1>2, <1>3, <1>4 DEF Next

\* A namespace changes owner only by being removed, by becoming a stranger's, or
\* by being created for the tenant at hand, under the tenant's name for it.
LEMMA OwnerStep ==
  ASSUME TypeOK, [Next]_vars, NEW c \in CpNames
  PROVE  \/ cpns'[c].owner \in {cpns[c].owner, Nobody, Stranger}
         \/ EnsureControlPlaneNamespace /\ c = ControlPlaneNs[cur] /\ cpns'[c].owner = cur
<1>0. cpns \in [CpNames -> NamespaceObject] /\ (pc # "idle" => cur \in Tenants)
  BY DEF TypeOK, HostTypes, WorkerTypes
<1>1. CASE EnsureControlPlaneNamespace
  BY <1>0, <1>1, NamesOK DEF EnsureControlPlaneNamespace, CP
<1>2. CASE DeleteControlPlaneNamespace
  BY <1>0, <1>2, NamesOK DEF DeleteControlPlaneNamespace, CP
<1>3. CASE \E d \in CpNames : NamespaceRemoved(d) \/ DeleteNamespace(d) \/ StrangerNamespace(d)
  BY <1>0, <1>3 DEF NamespaceRemoved, DeleteNamespace, StrangerNamespace
<1> QED
  BY <1>1, <1>2, <1>3, NamespaceFrame

\* With a Namespace cache that is never behind, every step keeps the
\* control-plane namespaces behind the finalizer.
LEMMA NamespacesStep ==
  ASSUME TypeOK, InformerCoherent, WorkerCoherent, [Next]_vars,
         ~NamespaceLag, NamespacesHeld, FinalizerHeldUntilGone
  PROVE  NamespacesHeld' /\ FinalizerHeldUntilGone'
<1>0. /\ cpns \in [CpNames -> NamespaceObject] /\ (pc # "idle" => cur \in Tenants)
      /\ Nobody \notin Tenants /\ Stranger \notin Tenants
  BY DEF TypeOK, HostTypes, WorkerTypes
<1>1. \A c \in CpNames :
        cpns'[c].owner \in Tenants => c = ControlPlaneNs[cpns'[c].owner]
  BY <1>0, OwnerStep DEF NamespacesHeld
<1>2. ASSUME pc' = "release" PROVE \A c \in CpNames : cpns'[c].owner # cur'
  <2>1. CASE UNCHANGED <<pc, cur, copy>>
    <3>1. ~EnsureControlPlaneNamespace /\ cur \in Tenants
      BY <1>0, <1>2, <2>1 DEF EnsureControlPlaneNamespace
    <3> QED
      BY <1>0, <1>2, <2>1, <3>1, OwnerStep DEF NamespacesHeld
  <2>2. CASE Teardown /\ UNCHANGED <<cur, tc>>
    <3>1. /\ UNCHANGED cpns /\ cur \in Tenants /\ cur' = cur
          /\ cpns[ControlPlaneNs[cur]].owner # cur
      BY <1>0, <1>2, <2>2 DEF Teardown, TornDown, ownedByTenant, Read, CP, Go, Return, apiVars
    <3> QED
      BY <3>1 DEF NamespacesHeld
  <2>3. ~Return /\ ~AddFinalizer /\ ~DeleteRuntimeClassBinding /\ pc' \notin Provisioning
    BY <1>2 DEF Return, AddFinalizer, DeleteRuntimeClassBinding, Go, Provisioning, Degrading
  <2>4. ~ \E t \in Tenants : Begin(t)
    BY <1>2 DEF Begin, FirstStep
  <2> QED
    BY <2>1, <2>2, <2>3, <2>4, WorkerFrame
<1>3. ASSUME NEW t \in Tenants, NEW c \in CpNames, cpns'[c].owner = t PROVE tc'[t].finalizer
  <2>1. CASE EnsureControlPlaneNamespace /\ t = cur
    BY <2>1 DEF EnsureControlPlaneNamespace, WorkerCoherent, Provisioning, Degrading
  <2>2. CASE cpns[c].owner = t
    <3>1. ~(ReleaseFinalizer /\ t = cur)
      BY <2>2 DEF ReleaseFinalizer, NamespacesHeld
    <3> QED
      BY <2>2, <3>1, FinalizerKept DEF FinalizerHeldUntilGone
  <2> QED
    BY <1>0, <1>3, <2>1, <2>2, OwnerStep
<1> QED
  BY <1>1, <1>2, <1>3 DEF NamespacesHeld, FinalizerHeldUntilGone
-----------------------------------------------------------------------------
\* The inductive invariant holds initially.
LEMMA InitIInv == Init => IInv
<1> SUFFICES ASSUME Init PROVE IInv
  OBVIOUS
<1>1. TypeOK
  <2>1. ClusterTypes
    BY DEF Init, ClusterTypes
  <2>2. HostTypes
    BY DEF Init, HostTypes
  <2>3. WorkerTypes
    BY DEF Init, WorkerTypes, Steps, Provisioning, Degrading
  <2> QED
    BY <2>1, <2>2, <2>3 DEF TypeOK
<1>2. InformerCoherent
  BY DEF Init, InformerCoherent
<1>3. WorkerCoherent /\ BindingsHeld
  BY DEF Init, WorkerCoherent, BindingsHeld, Provisioning, Degrading, TearingDown
<1>4. BindingsCleared
  BY DEF Init, BindingsCleared
<1>5. NamespacesHeld /\ FinalizerHeldUntilGone
  BY DEF Init, NamespacesHeld, FinalizerHeldUntilGone
<1> QED
  BY <1>1, <1>2, <1>3, <1>4, <1>5 DEF IInv

\* Every step keeps it.
LEMMA IInvStep == IInv /\ [Next]_vars => IInv'
<1> SUFFICES ASSUME IInv, [Next]_vars PROVE IInv'
  OBVIOUS
<1>1. TypeOK'
  BY TypeStep DEF IInv
<1>2. InformerCoherent' /\ WorkerCoherent'
  BY InformerStep, WorkerStep DEF IInv
<1>3. BindingsCleared' /\ BindingsHeld'
  BY BindingsStep DEF IInv
<1>4. ~NamespaceLag => NamespacesHeld' /\ FinalizerHeldUntilGone'
  BY NamespacesStep DEF IInv
<1> QED
  BY <1>1, <1>2, <1>3, <1>4 DEF IInv

\* The inductive invariant behind the three results below: Reconcile only
\* provisions while the finalizer is held, and only teardown releases it.
LEMMA Invariance == Spec => []IInv
  BY InitIInv, IInvStep, PTL DEF Spec

\* Reconcile, and everything that happens around it, keeps every variable in its
\* type and provisions only from a live copy that has the finalizer.
THEOREM TypeCorrect == Spec => []TypeOK
<1>1. IInv => TypeOK
  BY DEF IInv
<1> QED
  BY <1>1, Invariance, PTL

\* No admission binding outlives the finalizer of its tenant, whatever fails and
\* however far the informers lag behind.
THEOREM BindingsNeverLeak == Spec => []BindingsCleared
<1>1. IInv => BindingsCleared
  BY DEF IInv
<1> QED
  BY <1>1, Invariance, PTL

\* If Namespaces are read as they are, no control-plane namespace outlives the
\* finalizer of its tenant.
THEOREM NamespacesNeverLeak == Spec => [](~NamespaceLag => FinalizerHeldUntilGone)
<1>1. IInv => (~NamespaceLag => FinalizerHeldUntilGone)
  BY DEF IInv
<1> QED
  BY <1>1, Invariance, PTL

-----------------------------------------------------------------------------
(***************************************************************************)
(* Other people's namespaces.  The cluster serves admission policies, and  *)
(* either Namespaces are read as they are or no two tenants share the name *)
(* of a control-plane namespace: a tenant's copy of another tenant's       *)
(* namespace may otherwise still show it as its own.                       *)
(***************************************************************************)
OwnNames == \A t, u \in Tenants : ControlPlaneNs[t] = ControlPlaneNs[u] => t = u
Guarded == Admission /\ (~NamespaceLag \/ OwnNames)

\* The scope policies are in place before there is a namespace to protect others
\* from, and while the worker acts on what it read of a namespace, that namespace
\* can become a stranger's but not another tenant's.
ScopeInv ==
  /\ \A c \in CpNames :
       /\ cpns[c].owner \in Tenants => scoped /\ c = ControlPlaneNs[cpns[c].owner]
       /\ nsSeen[c].owner \in Tenants => scoped
  /\ pc \in {"namespace", "control-plane", "delete-namespace"} => scoped
  /\ pc \in {"control-plane", "delete-namespace"} => cpns[CP].owner \in {cur, Nobody, Stranger}

\* The scope policies, once in place, stay.
LEMMA ScopedStays ==
  ASSUME Admission, [Next]_vars
  PROVE  scoped => scoped'
<1> USE DEF vars, apiVars
<1>1. CASE Worker
  BY <1>1 DEF Worker, AddFinalizer, ApplyIsolation, ApplyNamespaceLabels, ReconcileBinding,
       EnsureControllerScopePolicies, EnsureControlPlaneNamespace, ReconcileControlPlane,
       EnsureKubeconfigSecret, RunSync, DeleteRuntimeClassBinding, Teardown,
       DeleteControlPlaneNamespace, ReleaseFinalizer
<1>2. CASE (\E t \in Tenants : Begin(t)) \/ Failures
  BY <1>2 DEF Begin, Failures, CallFails, Restart, ControlPlaneFails
<1>3. CASE Kubernetes
  BY <1>3 DEF Kubernetes, SeeTenant, CollectGarbage, SeeNamespace, NamespaceRemoved,
       ControlPlaneReady
<1>4. CASE Users
  BY <1>4 DEF Users, CreateTenant, DeleteTenant, DeleteNamespace, StrangerNamespace, Outside
<1> QED
  BY <1>1, <1>2, <1>3, <1>4 DEF Next

\* The informer's copy of a namespace is one the namespace has or had.
LEMMA NamespaceCopies ==
  ASSUME TypeOK, [Next]_vars, NEW c \in CpNames
  PROVE  nsSeen'[c] = nsSeen[c] \/ (nsSeen'[c] = cpns[c] /\ UNCHANGED cpns)
<1> USE DEF vars, apiVars, cacheVars
<1>0. nsSeen \in [CpNames -> NamespaceObject]
  BY DEF TypeOK, HostTypes
<1>1. CASE Worker
  BY <1>1 DEF Worker, AddFinalizer, ApplyIsolation, ApplyNamespaceLabels, ReconcileBinding,
       EnsureControllerScopePolicies, EnsureControlPlaneNamespace, ReconcileControlPlane,
       EnsureKubeconfigSecret, RunSync, DeleteRuntimeClassBinding, Teardown,
       DeleteControlPlaneNamespace, ReleaseFinalizer
<1>2. CASE (\E t \in Tenants : Begin(t)) \/ Failures
  BY <1>2 DEF Begin, Failures, CallFails, Restart, ControlPlaneFails
<1>3. CASE Kubernetes
  BY <1>0, <1>3 DEF Kubernetes, SeeTenant, CollectGarbage, SeeNamespace, NamespaceRemoved,
       ControlPlaneReady
<1>4. CASE Users
  BY <1>4 DEF Users, CreateTenant, DeleteTenant, DeleteNamespace, StrangerNamespace, Outside
<1> QED
  BY <1>1, <1>2, <1>3, <1>4 DEF Next

\* How the worker comes to the calls that need the scope policies.
LEMMA ScopedCalls ==
  ASSUME [Next]_vars, pc' \in {"namespace", "control-plane", "delete-namespace"}
  PROVE  \/ UNCHANGED <<pc, cur>>
         \/ EnsureControllerScopePolicies /\ pc' = "namespace" /\ UNCHANGED cur
         \/ EnsureControlPlaneNamespace /\ pc' = "control-plane" /\ UNCHANGED cur
         \/ Teardown /\ pc' = "delete-namespace" /\ UNCHANGED cur
<1> USE DEF vars, Go, Return
<1>1. CASE Worker
  <2>1. ASSUME NEW p, NEW s, ReportStatus(p, s) PROVE FALSE
    BY <2>1 DEF ReportStatus
  <2> QED
    BY <1>1, <2>1 DEF Worker, AddFinalizer, ApplyIsolation, ApplyNamespaceLabels, ReconcileBinding,
       EnsureControllerScopePolicies, EnsureControlPlaneNamespace, ReconcileControlPlane,
       EnsureKubeconfigSecret, RunSync, DeleteRuntimeClassBinding, Teardown,
       DeleteControlPlaneNamespace, ReleaseFinalizer, degrade
<1>2. CASE \E t \in Tenants : Begin(t)
  BY <1>2 DEF Begin, FirstStep
<1>3. CASE Failures
  BY <1>3 DEF Failures, CallFails, Restart, ControlPlaneFails, degrade, ReportStatus
<1>4. CASE Kubernetes
  BY <1>4 DEF Kubernetes, SeeTenant, CollectGarbage, SeeNamespace, NamespaceRemoved,
       ControlPlaneReady
<1>5. CASE Users
  BY <1>5 DEF Users, CreateTenant, DeleteTenant, DeleteNamespace, StrangerNamespace, Outside
<1> QED
  BY <1>1, <1>2, <1>3, <1>4, <1>5 DEF Next

\* Every step keeps ScopeInv.
LEMMA ScopeStep ==
  ASSUME TypeOK, Guarded, ScopeInv, [Next]_vars
  PROVE  ScopeInv'
<1>0. /\ cpns \in [CpNames -> NamespaceObject] /\ cpns' \in [CpNames -> NamespaceObject]
      /\ nsSeen \in [CpNames -> NamespaceObject]
      /\ (pc # "idle" => cur \in Tenants) /\ (pc' # "idle" => cur' \in Tenants)
      /\ Nobody \notin Tenants /\ Stranger \notin Tenants /\ Admission
      /\ scoped => scoped'
  BY TypeStep, ScopedStays DEF TypeOK, HostTypes, WorkerTypes, Guarded
<1>1. ASSUME NEW c \in CpNames, cpns'[c].owner \in Tenants
      PROVE  scoped' /\ c = ControlPlaneNs[cpns'[c].owner]
  BY <1>0, <1>1, OwnerStep DEF ScopeInv, EnsureControlPlaneNamespace
<1>2. ASSUME NEW c \in CpNames, nsSeen'[c].owner \in Tenants PROVE scoped'
  BY <1>0, <1>2, NamespaceCopies DEF ScopeInv
<1>3. ASSUME pc' \in {"namespace", "control-plane", "delete-namespace"} PROVE scoped'
  <2>1. CASE UNCHANGED <<pc, cur>>
    BY <1>0, <1>3, <2>1 DEF ScopeInv
  <2>2. CASE EnsureControllerScopePolicies
    BY <1>0, <2>2 DEF EnsureControllerScopePolicies
  <2>3. CASE EnsureControlPlaneNamespace
    BY <1>0, <2>3 DEF EnsureControlPlaneNamespace, ScopeInv
  <2>4. CASE Teardown /\ pc' = "delete-namespace"
    <3>1. cur \in Tenants /\ CP \in CpNames /\ Read(CP).owner = cur
      BY <1>0, <2>4, NamesOK DEF Teardown, TornDown, ownedByTenant, Go, Return, CP
    <3> QED
      BY <1>0, <3>1 DEF Read, ScopeInv
  <2> QED
    BY <1>3, <2>1, <2>2, <2>3, <2>4, ScopedCalls
<1>4. ASSUME pc' \in {"control-plane", "delete-namespace"}
      PROVE  cpns'[ControlPlaneNs[cur']].owner \in {cur', Nobody, Stranger}
  <2>1. /\ cur' \in Tenants /\ ControlPlaneNs[cur'] \in CpNames
        /\ cpns'[ControlPlaneNs[cur']].owner \in Tenants \union {Nobody, Stranger}
    BY <1>0, <1>4, NamesOK
  <2>2. CASE OwnNames
    BY <1>1, <2>1, <2>2 DEF OwnNames
  <2>3. CASE ~NamespaceLag /\ UNCHANGED <<pc, cur>>
    <3>1. ~EnsureControlPlaneNamespace
      BY <1>4, <2>3 DEF EnsureControlPlaneNamespace
    <3>2. cpns[ControlPlaneNs[cur]].owner \in {cur, Nobody, Stranger}
      BY <1>4, <2>3 DEF ScopeInv, CP
    <3> QED
      BY <2>1, <2>3, <3>1, <3>2, OwnerStep
  <2>4. CASE ~NamespaceLag /\ EnsureControlPlaneNamespace /\ UNCHANGED cur /\ pc' = "control-plane"
    <3>1. cur \in Tenants /\ CP \in CpNames /\ CP = ControlPlaneNs[cur]
      BY <1>0, <2>4, NamesOK DEF EnsureControlPlaneNamespace, CP
    <3>2. ~degrade
      BY <2>4 DEF degrade, ReportStatus, Return
    <3>3. cpns'[CP].owner = cur
      BY <1>0, <2>4, <3>1, <3>2 DEF EnsureControlPlaneNamespace, Read, ownedByTenant
    <3> QED
      BY <2>4, <3>1, <3>3
  <2>5. CASE ~NamespaceLag /\ Teardown /\ UNCHANGED cur /\ pc' = "delete-namespace"
    BY <2>1, <2>5 DEF Teardown, TornDown, ownedByTenant, Read, CP, Go, Return, apiVars
  <2>6. pc' # "namespace"
    BY <1>4
  <2> QED
    BY <1>4, <2>2, <2>3, <2>4, <2>5, <2>6, ScopedCalls DEF Guarded
<1> QED
  BY <1>1, <1>2, <1>3, <1>4 DEF ScopeInv, CP

\* Where admission policies are served, the controller neither deletes nor builds
\* in a namespace that is not the current tenant's, whatever happened to it since
\* the controller read it (ownedByTenant, and the scope policies of rbac_scope.go).
THEOREM ForeignNamespacesAreSafe == Guarded => (Spec => ForeignNamespaceSafe)
<1> SUFFICES ASSUME Guarded PROVE Spec => ForeignNamespaceSafe
  OBVIOUS
<1> DEFINE Inv == TypeOK /\ ScopeInv
<1>1. Init => Inv
  <2> SUFFICES ASSUME Init PROVE ScopeInv
    BY InitIInv DEF IInv
  <2> QED
    BY DEF Init, ScopeInv
<1>2. Inv /\ [Next]_vars => Inv'
  BY TypeStep, ScopeStep
<1>3. ASSUME Inv, [Next]_vars, ControllerStep, NEW c \in CpNames, cpns[c].owner \notin {Nobody, cur}
      PROVE  cpns'[c] = cpns[c] /\ sts'[c] = sts[c]
  <2>0. /\ cpns \in [CpNames -> NamespaceObject] /\ sts \in [CpNames -> {"none", "starting", "ready"}]
        /\ pc # "idle" /\ cur \in Tenants /\ CP \in CpNames
    BY <1>3, NamesOK DEF ControllerStep, TypeOK, HostTypes, WorkerTypes, CP
  <2>1. CASE EnsureControlPlaneNamespace
    BY <1>3, <2>0, <2>1 DEF EnsureControlPlaneNamespace
  <2>2. CASE ReconcileControlPlane
    BY <1>3, <2>0, <2>2 DEF ReconcileControlPlane, TakesObjects, ScopeInv
  <2>3. CASE DeleteControlPlaneNamespace
    BY <1>3, <2>0, <2>3 DEF DeleteControlPlaneNamespace, DeleteAllowed, ScopeInv
  <2>4. CASE UNCHANGED <<cpns, sts>>
    BY <2>4
  <2>5. CASE Worker
    BY <2>1, <2>2, <2>3, <2>4, <2>5 DEF Worker, AddFinalizer, ApplyIsolation, ApplyNamespaceLabels,
       ReconcileBinding, EnsureControllerScopePolicies, EnsureKubeconfigSecret, RunSync,
       DeleteRuntimeClassBinding, Teardown, ReleaseFinalizer, apiVars
  <2>6. CASE CallFails \/ Restart
    BY <2>4, <2>6 DEF CallFails, Restart, apiVars
  <2>7. ~ \E t \in Tenants : Begin(t)
    BY <2>0 DEF Begin
  <2>8. ~UNCHANGED <<pc, cur>>
    BY <1>3 DEF ControllerStep
  <2>9. ~Kubernetes /\ ~ \E d \in CpNames : ControlPlaneFails(d)
    BY <2>8 DEF Kubernetes, SeeTenant, CollectGarbage, SeeNamespace, NamespaceRemoved,
       ControlPlaneReady, ControlPlaneFails
  <2>10. ~Users /\ ~UNCHANGED vars
    BY <2>8 DEF Users, CreateTenant, DeleteTenant, DeleteNamespace, StrangerNamespace, Outside, vars
  <2> QED
    BY <1>3, <2>5, <2>6, <2>7, <2>9, <2>10 DEF Next, Failures
<1>4. Inv /\ [Next]_vars =>
        (ControllerStep =>
           \A c \in CpNames : cpns[c].owner \notin {Nobody, cur}
                              => cpns'[c] = cpns[c] /\ sts'[c] = sts[c])
  BY <1>3
<1> QED
  BY <1>1, <1>2, <1>4, PTL DEF Spec, ForeignNamespaceSafe
=============================================================================
