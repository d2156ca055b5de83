--------------------------- MODULE TenantLifecycle ---------------------------
(***************************************************************************)
(* The life of TenantClusters: Reconcile and teardown of                   *)
(* internal/controller (tenantcluster_controller.go, namespace.go,         *)
(* isolation_apply.go, admission.go, rbac_scope.go).                       *)
(*                                                                         *)
(* One worker reconciles one TenantCluster at a time, one API call per     *)
(* step.  TenantClusters and Namespaces are read from informer caches,     *)
(* which may lag; their other objects are read as they are.  A write made  *)
(* from a stale copy of a TenantCluster is refused.                        *)
(*                                                                         *)
(* Simplifications.  IsolationProfile and SyncPolicy exist and ask for     *)
(* isolation objects; the Services of a control plane come and go with its *)
(* StatefulSet; a sync pass (SyncEngine) leaves mirrors in the workload    *)
(* namespace and is otherwise the question whether the tenant's API server *)
(* accepts the stored kubeconfig.                                          *)
(***************************************************************************)
EXTENDS Integers

CONSTANTS
  Tenants,          \* TenantClusters, by name
  WorkloadNs,       \* the namespace each TenantCluster lives in
  ControlPlaneNs,   \* the name of its control-plane namespace (HostNaming)
  Admission,        \* the cluster serves ValidatingAdmissionPolicy v1
  NamespaceLag,     \* the Namespace informer may lag behind
  Nobody,           \* no owner
  Stranger,         \* owner of a namespace tenantplane did not create
  EnvOps,           \* what users do in this instance
  MaxOps, MaxFaults \* bounds on what users do, and on API failures and restarts

VARIABLES
  tc, tcSeen,       \* TenantClusters, and the informer's copy
  labelled,         \* workload namespaces with the managed-by label
  isolation,        \* owner of the isolation objects of a workload namespace
  scoped,           \* the write- and delete-scope policies are in place
  bindings,         \* tenants with a runtime class policy binding
  cpns, nsSeen,     \* control-plane namespaces, and the informer's copy
  sts,              \* the control plane running in each: none, starting, ready
  incarnation,      \* counts control planes that started from an empty volume
  secret,           \* incarnation whose kubeconfig the tenant's Secret holds
  mirrors,          \* tenants whose synced objects are on the host
  phase, synced,    \* status.phase, and the Synced condition
  pc, cur, copy,    \* the worker: next call of Reconcile, the tenant, its copy of it
  ops, faults

apiVars == <<labelled, isolation, scoped, bindings, cpns, sts, incarnation, secret, mirrors>>
cacheVars == <<tcSeen, nsSeen>>
statusVars == <<phase, synced>>
vars == <<tc, apiVars, cacheVars, statusVars, pc, cur, copy, ops, faults>>

CpNames == {ControlPlaneNs[t] : t \in Tenants}
WorkloadNames == {WorkloadNs[t] : t \in Tenants}
Cluster(s, f) == [state |-> s, finalizer |-> f]
Absent == Cluster("absent", FALSE)
Gone == Cluster("gone", FALSE)          \* deleted: a name is used once
Namespace(o, dying) == [owner |-> o, terminating |-> dying]
NoNamespace == Namespace(Nobody, FALSE)

ASSUME LifecycleAssumption ==
  /\ DOMAIN WorkloadNs = Tenants /\ DOMAIN ControlPlaneNs = Tenants
  /\ Admission \in BOOLEAN /\ NamespaceLag \in BOOLEAN
  /\ Nobody \notin Tenants /\ Stranger \notin Tenants /\ Nobody # Stranger
  /\ MaxOps \in Nat /\ MaxFaults \in Nat

Init ==
  /\ tc = [t \in Tenants |-> Absent] /\ tcSeen = tc
  /\ labelled = {} /\ isolation = [n \in WorkloadNames |-> Nobody]
  /\ scoped = FALSE /\ bindings = {}
  /\ cpns = [c \in CpNames |-> NoNamespace] /\ nsSeen = cpns
  /\ sts = [c \in CpNames |-> "none"] /\ incarnation = [c \in CpNames |-> 0]
  /\ secret = [t \in Tenants |-> 0]
  /\ mirrors = {}
  /\ phase = [t \in Tenants |-> ""] /\ synced = [t \in Tenants |-> FALSE]
  /\ pc = "idle" /\ cur = Nobody /\ copy = Absent
  /\ ops = MaxOps /\ faults = MaxFaults
-----------------------------------------------------------------------------
CP == ControlPlaneNs[cur]
WNS == WorkloadNs[cur]

Go(step) == pc' = step /\ UNCHANGED <<cur, copy>>
Return == pc' = "idle" /\ cur' = Nobody /\ copy' = Absent
Fault == faults > 0 /\ faults' = faults - 1

\* A namespace as the reconciler reads it.
Read(c) == IF NamespaceLag THEN nsSeen[c] ELSE cpns[c]

\* Every write to the TenantCluster, status included, is refused when the copy
\* it was made from is not current.
Current == copy = tc[cur]

\* The status is written if the copy is current; either way the reconcile ends
\* and comes back later.
ReportStatus(p, s) ==
  /\ IF Current
     THEN phase' = [phase EXCEPT ![cur] = p] /\ synced' = [synced EXCEPT ![cur] = s]
     ELSE UNCHANGED statusVars
  /\ Return

degrade == ReportStatus("Degraded", synced[cur])

\* Mutant: provisioning starts without the finalizer.
FirstStep_NoFinalizer(x) == IF x.state = "deleting" THEN "unbind" ELSE "isolate"

FirstStep(x) ==
  IF x.state = "deleting" THEN "unbind" ELSE IF x.finalizer THEN "isolate" ELSE "finalizer"

\* Get(TenantCluster): deletion, or provisioning.
Begin(t) ==
  /\ pc = "idle"
  /\ tcSeen[t].state \in {"active", "deleting"}     \* NotFound: nothing to do
  /\ pc' = FirstStep(tcSeen[t])
  /\ cur' = t /\ copy' = tcSeen[t]
  /\ UNCHANGED <<tc, apiVars, cacheVars, statusVars, ops, faults>>

\* The answer replaces the copy this reconcile works on.
AddFinalizer ==
  /\ pc = "finalizer"
  /\ IF Current
     THEN /\ copy' = Cluster(copy.state, TRUE)
          /\ tc' = [tc EXCEPT ![cur] = copy']
          /\ pc' = "isolate" /\ UNCHANGED cur
     ELSE Return /\ UNCHANGED tc
  /\ UNCHANGED <<apiVars, cacheVars, statusVars, ops, faults>>

\* The write-scope policy refuses the controller's writes in a namespace that
\* does not carry the managed-by label.
WriteAllowed(n) == scoped => n \in labelled

\* Mutant: the objects are created, never updated.
Controllable_New(n) == isolation[n] = Nobody

\* SetControllerReference refuses an object another owner controls.
Controllable(n) == isolation[n] \in {Nobody, cur}

\* applyIsolation: the NetworkPolicy, ResourceQuota and LimitRange, which have
\* fixed names and one controlling owner, then the labels of the namespace.
ApplyIsolation ==
  /\ pc = "isolate"
  /\ IF WriteAllowed(WNS) /\ Controllable(WNS)
     THEN /\ isolation' = [isolation EXCEPT ![WNS] = cur]
          /\ Go("label") /\ UNCHANGED statusVars
     ELSE degrade /\ UNCHANGED isolation
  /\ UNCHANGED <<tc, labelled, scoped, bindings, cpns, sts, incarnation, secret, mirrors,
                 cacheVars, ops, faults>>

ApplyNamespaceLabels ==
  /\ pc = "label"
  /\ labelled' = labelled \union {WNS}
  /\ Go("bind")
  /\ UNCHANGED <<tc, isolation, scoped, bindings, cpns, sts, incarnation, secret, mirrors,
                 cacheVars, statusVars, ops, faults>>

\* ensureRuntimeClassPolicy, reconcileRuntimeClassBinding
ReconcileBinding ==
  /\ pc = "bind"
  /\ bindings' = IF Admission THEN bindings \union {cur} ELSE bindings
  /\ Go("scope")
  /\ UNCHANGED <<tc, labelled, isolation, scoped, cpns, sts, incarnation, secret, mirrors,
                 cacheVars, statusVars, ops, faults>>

EnsureControllerScopePolicies ==
  /\ pc = "scope"
  /\ scoped' = Admission
  /\ Go("namespace")
  /\ UNCHANGED <<tc, labelled, isolation, bindings, cpns, sts, incarnation, secret, mirrors,
                 cacheVars, statusVars, ops, faults>>

\* Mutant: any existing namespace is adopted.
OwnedByTenant_Any(ns) == ns.owner # Nobody

ownedByTenant(ns) == ns.owner = cur

\* A new namespace is active; an existing one is only adopted if it carries
\* this tenant's labels, even when it is on its way out.
EnsureControlPlaneNamespace ==
  LET seen == Read(CP)
      create == seen.owner = Nobody /\ cpns[CP].owner = Nobody
  IN  /\ pc = "namespace"
      /\ cpns' = IF create THEN [cpns EXCEPT ![CP] = Namespace(cur, FALSE)] ELSE cpns
      /\ IF create \/ ownedByTenant(seen)
         THEN Go("control-plane") /\ UNCHANGED statusVars
         ELSE degrade
      /\ UNCHANGED <<tc, labelled, isolation, scoped, bindings, sts, incarnation, secret,
                     mirrors, cacheVars, ops, faults>>

\* A missing or terminating namespace takes no new objects, and the write-scope
\* policy lets the controller write only in one of tenantplane's.
TakesObjects(ns) ==
  /\ ns.owner # Nobody /\ ~ns.terminating
  /\ scoped => ns.owner # Stranger

\* reconcileService and reconcileStatefulSet
ReconcileControlPlane ==
  LET creates == sts[CP] = "none" /\ TakesObjects(cpns[CP])
  IN  /\ pc = "control-plane"
      /\ sts' = IF creates THEN [sts EXCEPT ![CP] = "starting"] ELSE sts
      /\ incarnation' = IF creates THEN [incarnation EXCEPT ![CP] = @ + 1] ELSE incarnation
      /\ \/ sts[CP] = "ready" /\ Go("kubeconfig") /\ UNCHANGED statusVars
         \/ (sts[CP] = "starting" \/ creates) /\ ReportStatus("Provisioning", synced[cur])
         \/ sts[CP] = "none" /\ ~creates /\ degrade
      /\ UNCHANGED <<tc, labelled, isolation, scoped, bindings, cpns, secret, mirrors,
                     cacheVars, ops, faults>>

\* A Secret that already names the control plane's address is kept as it is.
NeedsKubeconfig == secret[cur] = 0

EnsureKubeconfigSecret ==
  /\ pc = "kubeconfig"
  /\ \/ ~NeedsKubeconfig /\ Go("sync") /\ UNCHANGED <<secret, statusVars>>
     \/ /\ NeedsKubeconfig /\ sts[CP] = "ready"
        /\ secret' = [secret EXCEPT ![cur] = incarnation[CP]]
        /\ Go("sync") /\ UNCHANGED statusVars
     \/ /\ NeedsKubeconfig /\ sts[CP] # "ready"     \* exec fails
        /\ degrade /\ UNCHANGED secret
  /\ UNCHANGED <<tc, labelled, isolation, scoped, bindings, cpns, sts, incarnation, mirrors,
                 cacheVars, ops, faults>>

\* runSync, then the Ready phase and the Synced condition in one status update.
\* The tenant's API server only accepts its own kubeconfig.
RunSync ==
  LET works == sts[CP] = "ready" /\ secret[cur] = incarnation[CP]
  IN  /\ pc = "sync"
      /\ mirrors' = IF works THEN mirrors \union {cur} ELSE mirrors
      /\ ReportStatus("Ready", works)
      /\ UNCHANGED <<tc, labelled, isolation, scoped, bindings, cpns, sts, incarnation,
                     secret, cacheVars, ops, faults>>
-----------------------------------------------------------------------------
(***************************************************************************)
(* teardown, and the release of the finalizer                              *)
(***************************************************************************)

\* Mutant: the binding is left behind.
DeleteRuntimeClassBinding_Skipped ==
  /\ pc = "unbind"
  /\ Go("teardown")
  /\ UNCHANGED <<tc, apiVars, cacheVars, statusVars, ops, faults>>

DeleteRuntimeClassBinding ==
  /\ pc = "unbind"
  /\ bindings' = bindings \ {cur}
  /\ Go("teardown")
  /\ UNCHANGED <<tc, labelled, isolation, scoped, cpns, sts, incarnation, secret, mirrors,
                 cacheVars, statusVars, ops, faults>>

\* Mutant: a foreign namespace is waited for.
TornDown_Missing(ns) == ns.owner = Nobody

\* Mutant: a namespace that is on its way out counts as gone.
TornDown_Terminating(ns) == ~ownedByTenant(ns) \/ ns.terminating

\* Nothing of this tenant's is left: no namespace, or a foreign one.
TornDown(ns) == ~ownedByTenant(ns)

\* Get(namespace); a terminating one is waited for.
Teardown ==
  LET seen == Read(CP)
  IN  /\ pc = "teardown"
      /\ \/ TornDown(seen) /\ Go("release")
         \/ ~TornDown(seen) /\ ~seen.terminating /\ Go("delete-namespace")
         \/ ~TornDown(seen) /\ seen.terminating /\ Return
      /\ UNCHANGED <<tc, apiVars, cacheVars, statusVars, ops, faults>>

\* The delete-scope policy lets the controller delete only namespaces with the
\* managed-by label.
DeleteAllowed(ns) == scoped => ns.owner # Stranger

\* Delete goes by name; a missing namespace is fine.  Refused or not, the
\* reconcile ends.
DeleteControlPlaneNamespace ==
  LET ns == cpns[CP]
  IN  /\ pc = "delete-namespace"
      /\ cpns' = IF ns.owner = Nobody \/ ~DeleteAllowed(ns) THEN cpns
                 ELSE [cpns EXCEPT ![CP] = Namespace(ns.owner, TRUE)]
      /\ Return
      /\ UNCHANGED <<tc, labelled, isolation, scoped, bindings, sts, incarnation, secret,
                     mirrors, cacheVars, statusVars, ops, faults>>

\* With its only finalizer gone, so is the TenantCluster, its status with it.
ReleaseFinalizer ==
  /\ pc = "release"
  /\ IF Current
     THEN /\ tc' = [tc EXCEPT ![cur] = Gone]
          /\ phase' = [phase EXCEPT ![cur] = ""] /\ synced' = [synced EXCEPT ![cur] = FALSE]
     ELSE UNCHANGED <<tc, statusVars>>
  /\ Return
  /\ UNCHANGED <<apiVars, cacheVars, ops, faults>>
-----------------------------------------------------------------------------
(***************************************************************************)
(* What fails: an API call, the manager, a control plane.                  *)
(***************************************************************************)
Degrading == {"isolate", "label", "bind", "scope", "namespace", "control-plane", "kubeconfig"}

\* The call the worker is about to make fails.
CallFails ==
  /\ pc # "idle" /\ Fault
  /\ \/ pc \in Degrading /\ degrade
     \/ pc = "sync" /\ ReportStatus("Ready", FALSE)
     \/ pc \notin Degrading \union {"sync"} /\ Return /\ UNCHANGED statusVars
  /\ UNCHANGED <<tc, apiVars, cacheVars, ops>>

\* The manager stops, perhaps before it hears the answer to its last call, and
\* starts again with fresh caches.
Restart ==
  /\ pc # "idle" /\ Fault
  /\ Return
  /\ tcSeen' = tc /\ nsSeen' = IF NamespaceLag THEN cpns ELSE nsSeen
  /\ UNCHANGED <<tc, apiVars, statusVars, ops>>

\* A control-plane pod dies; its volume survives.
ControlPlaneFails(c) ==
  /\ sts[c] = "ready" /\ Fault
  /\ sts' = [sts EXCEPT ![c] = "starting"]
  /\ UNCHANGED <<tc, labelled, isolation, scoped, bindings, cpns, incarnation, secret,
                 mirrors, cacheVars, statusVars, pc, cur, copy, ops>>
-----------------------------------------------------------------------------
(***************************************************************************)
(* Kubernetes: informers, the namespace controller, the garbage collector  *)
(* and the StatefulSet controller.                                         *)
(***************************************************************************)
SeeTenant(t) ==
  /\ tcSeen[t] # tc[t]
  /\ tcSeen' = [tcSeen EXCEPT ![t] = tc[t]]
  /\ UNCHANGED <<tc, apiVars, nsSeen, statusVars, pc, cur, copy, ops, faults>>

SeeNamespace(c) ==
  /\ NamespaceLag /\ nsSeen[c] # cpns[c]
  /\ nsSeen' = [nsSeen EXCEPT ![c] = cpns[c]]
  /\ UNCHANGED <<tc, apiVars, tcSeen, statusVars, pc, cur, copy, ops, faults>>

NamespaceRemoved(c) ==
  /\ cpns[c].terminating
  /\ cpns' = [cpns EXCEPT ![c] = NoNamespace]
  /\ sts' = [sts EXCEPT ![c] = "none"]
  /\ UNCHANGED <<tc, labelled, isolation, scoped, bindings, incarnation, secret, mirrors,
                 cacheVars, statusVars, pc, cur, copy, ops, faults>>

\* Objects whose owner is gone are deleted; mirrors have no owner reference.
CollectGarbage(t) ==
  /\ tc[t].state = "gone"
  /\ secret[t] # 0 \/ isolation[WorkloadNs[t]] = t
  /\ secret' = [secret EXCEPT ![t] = 0]
  /\ isolation' = [n \in WorkloadNames |-> IF isolation[n] = t THEN Nobody ELSE isolation[n]]
  /\ UNCHANGED <<tc, labelled, scoped, bindings, cpns, sts, incarnation, mirrors,
                 cacheVars, statusVars, pc, cur, copy, ops, faults>>

ControlPlaneReady(c) ==
  /\ sts[c] = "starting" /\ ~cpns[c].terminating
  /\ sts' = [sts EXCEPT ![c] = "ready"]
  /\ UNCHANGED <<tc, labelled, isolation, scoped, bindings, cpns, incarnation, secret,
                 mirrors, cacheVars, statusVars, pc, cur, copy, ops, faults>>
-----------------------------------------------------------------------------
(***************************************************************************)
(* Users                                                                   *)
(***************************************************************************)
Outside(op) ==
  /\ op \in EnvOps /\ ops > 0
  /\ ops' = ops - 1
  /\ UNCHANGED <<labelled, isolation, scoped, bindings, sts, incarnation, secret, mirrors,
                 cacheVars, pc, cur, copy, faults>>

CreateTenant(t) ==
  /\ Outside("create")
  /\ tc[t] = Absent
  /\ tc' = [tc EXCEPT ![t] = Cluster("active", FALSE)]
  /\ UNCHANGED <<cpns, statusVars>>

DeleteTenant(t) ==
  /\ Outside("delete")
  /\ tc[t].state = "active"
  /\ IF tc[t].finalizer
     THEN tc' = [tc EXCEPT ![t] = Cluster("deleting", TRUE)] /\ UNCHANGED statusVars
     ELSE /\ tc' = [tc EXCEPT ![t] = Gone]
          /\ phase' = [phase EXCEPT ![t] = ""] /\ synced' = [synced EXCEPT ![t] = FALSE]
  /\ UNCHANGED cpns

\* An administrator deletes a namespace, a tenant's control plane with it.
DeleteNamespace(c) ==
  /\ Outside("deleteNamespace")
  /\ cpns[c].owner # Nobody /\ ~cpns[c].terminating
  /\ cpns' = [cpns EXCEPT ![c] = Namespace(cpns[c].owner, TRUE)]
  /\ UNCHANGED <<tc, statusVars>>

\* Somebody creates a namespace of that name.
StrangerNamespace(c) ==
  /\ Outside("strangerNamespace")
  /\ cpns[c] = NoNamespace
  /\ cpns' = [cpns EXCEPT ![c] = Namespace(Stranger, FALSE)]
  /\ UNCHANGED <<tc, statusVars>>

Users ==
  \/ \E t \in Tenants : CreateTenant(t) \/ DeleteTenant(t)
  \/ \E c \in CpNames : DeleteNamespace(c) \/ StrangerNamespace(c)
-----------------------------------------------------------------------------
Worker ==
  \/ AddFinalizer \/ ApplyIsolation \/ ApplyNamespaceLabels \/ ReconcileBinding
  \/ EnsureControllerScopePolicies \/ EnsureControlPlaneNamespace \/ ReconcileControlPlane
  \/ EnsureKubeconfigSecret \/ RunSync
  \/ DeleteRuntimeClassBinding \/ Teardown \/ DeleteControlPlaneNamespace \/ ReleaseFinalizer

Kubernetes ==
  \/ \E t \in Tenants : SeeTenant(t) \/ CollectGarbage(t)
  \/ \E c \in CpNames : SeeNamespace(c) \/ NamespaceRemoved(c) \/ ControlPlaneReady(c)

Failures == CallFails \/ Restart \/ \E c \in CpNames : ControlPlaneFails(c)

Next == Worker \/ (\E t \in Tenants : Begin(t)) \/ Kubernetes \/ Failures \/ Users

\* The work queue is first in, first out, and every outcome of a reconcile puts
\* the tenant back on it; Kubernetes' own controllers make progress.
Fairness ==
  /\ WF_vars(Worker)
  /\ \A t \in Tenants :
       SF_vars(Begin(t)) /\ WF_vars(SeeTenant(t)) /\ WF_vars(CollectGarbage(t))
  /\ \A c \in CpNames :
       WF_vars(SeeNamespace(c)) /\ WF_vars(NamespaceRemoved(c)) /\ WF_vars(ControlPlaneReady(c))

Spec == Init /\ [][Next]_vars
FairSpec == Spec /\ Fairness
-----------------------------------------------------------------------------
(***************************************************************************)
(* Properties                                                              *)
(***************************************************************************)
Steps == Degrading \union
  {"idle", "finalizer", "sync", "unbind", "teardown", "delete-namespace", "release"}
TenantObject == [state : {"absent", "active", "deleting", "gone"}, finalizer : BOOLEAN]
NamespaceObject == [owner : Tenants \union {Nobody, Stranger}, terminating : BOOLEAN]

Provisioning == Degrading \union {"sync"}

ClusterTypes ==
  /\ tc \in [Tenants -> TenantObject] /\ tcSeen \in [Tenants -> TenantObject]
  /\ phase \in [Tenants -> {"", "Degraded", "Provisioning", "Ready"}]
  /\ synced \in [Tenants -> BOOLEAN]

HostTypes ==
  /\ labelled \subseteq WorkloadNames /\ isolation \in [WorkloadNames -> Tenants \union {Nobody}]
  /\ scoped \in BOOLEAN /\ bindings \subseteq Tenants
  /\ cpns \in [CpNames -> NamespaceObject] /\ nsSeen \in [CpNames -> NamespaceObject]
  /\ sts \in [CpNames -> {"none", "starting", "ready"}]
  /\ incarnation \in [CpNames -> Nat] /\ secret \in [Tenants -> Nat]
  /\ mirrors \subseteq Tenants

WorkerTypes ==
  /\ pc \in Steps /\ cur \in Tenants \union {Nobody} /\ copy \in TenantObject
  /\ pc # "idle" => cur \in Tenants
  /\ pc \in Provisioning \union {"finalizer"} => copy.state = "active"
  /\ pc \in Provisioning => copy.finalizer
  /\ ops \in Nat /\ faults \in Nat

\* Every variable holds a value of its type, and Reconcile provisions only from a
\* copy of a live TenantCluster that has the finalizer.
TypeOK == ClusterTypes /\ HostTypes /\ WorkerTypes

\* teardownFinalizer "holds TenantCluster deletion until the control-plane
\* namespace has been removed" (namespace.go): a tenant's control-plane namespace
\* exists, terminating or not, only while the TenantCluster has the finalizer.
FinalizerHeldUntilGone ==
  \A t \in Tenants : (\E c \in CpNames : cpns[c].owner = t) => tc[t].finalizer

\* The same of the admission binding: whatever is interrupted or retried, it is
\* not left behind (reconcileRuntimeClassBinding, deleteRuntimeClassBinding).
BindingsCleared == \A t \in bindings : tc[t].finalizer

ControllerStep == pc # "idle" /\ <<pc, cur>>' # <<pc, cur>>

\* The controller neither deletes nor builds in a namespace that is not the
\* current tenant's, even when its copy of the namespace is out of date
\* (ownedByTenant, and the scope policies in rbac_scope.go).
ForeignNamespaceSafe ==
  [][ControllerStep =>
       \A c \in CpNames : cpns[c].owner \notin {Nobody, cur}
                          => cpns'[c] = cpns[c] /\ sts'[c] = sts[c]]_vars

\* A deletion request is honoured in the end (Reconcile requeues until teardown
\* is done).
DeletionCompletes == \A t \in Tenants : tc[t].state = "deleting" ~> tc[t].state = "gone"

\* A TenantCluster that stays becomes Ready and Synced and remains so, unless
\* somebody else has the name of its control-plane namespace (Reconcile).
TenantsBecomeReady ==
  <>[](\A t \in Tenants :
         tc[t].state = "active" /\ cpns[ControlPlaneNs[t]].owner \in {Nobody, t}
         => phase[t] = "Ready" /\ synced[t])

\* "Everything in the workload namespace is owner-referenced and
\* garbage-collected by Kubernetes itself" (teardown): in the end a deleted
\* TenantCluster has left nothing in its workload namespace.
WorkloadNamespaceCleared ==
  <>[](\A t \in Tenants :
         tc[t].state = "gone" =>
           t \notin mirrors /\ secret[t] = 0 /\ isolation[WorkloadNs[t]] # t)
=============================================================================
