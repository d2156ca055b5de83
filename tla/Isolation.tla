------------------------------ MODULE Isolation ------------------------------
(***************************************************************************)
(* From an IsolationProfile to what holds in a tenant's workload           *)
(* namespace: the first half of Reconcile (tenantcluster_controller.go),   *)
(* applyIsolation, the builders of internal/isolation, the runtime class   *)
(* policy of admission.go, the conditions of support.go, and the Pods the  *)
(* sync engine creates at the end of a reconcile, which the host's API     *)
(* server admits or refuses by what is in place at that moment.            *)
(*                                                                         *)
(* Administrators edit profiles and the TenantCluster while a reconcile is *)
(* under way; it works from the copies it read at its start.  One step of  *)
(* the controller is one object written (a Get and a Create or Update).    *)
(* A lagging informer is a read that happened earlier, or a write that is  *)
(* refused, which is a fault.                                              *)
(*                                                                         *)
(* Simplifications.  One TenantCluster, which has its namespace to itself, *)
(* whose control plane runs and which nobody deletes (TenantLifecycle).    *)
(* Of the sync engine only the creation and removal of Pods is here        *)
(* (SyncEngine); apiFairness is its rate limiter.                          *)
(***************************************************************************)
EXTENDS Integers

CONSTANTS
  ProfileNames,   \* names an IsolationProfile may have
  ProfileValues,  \* specifications an administrator gives a profile
  Quantities,     \* values of spec.resources
  Pods,           \* the tenant's Pods
  PodLevel,       \* the strictest Pod Security level each Pod satisfies
  OwnClass,       \* the runtime class each Pod's own specification names, or ""
  Supported,      \* the host serves ValidatingAdmissionPolicy v1
  EnvOps, MaxOps, MaxFaults

VARIABLES
  profile,        \* IsolationProfiles, by name
  spec,           \* the TenantCluster: its profile's name, its quantity
  ns,             \* the namespace: its isolation objects and its labels
  policy, binding,\* the runtime class policy, and the profile its binding names
  wanted, pods,   \* the tenant's Pods, and the runtime class of each one's mirror
  status,         \* what the TenantCluster reports
  pc, copy,       \* next call of Reconcile, the specification it works from
  moved,          \* the TenantCluster changed since it was read
  mem, todo,      \* conditions set in memory, Pods the sync pass has to create
  ops, faults

clusterVars == <<profile, spec, wanted>>
hostVars == <<ns, policy, binding, pods>>
workVars == <<copy, moved, mem, todo>>
vars == <<clusterVars, hostVars, status, pc, workVars, ops, faults>>
-----------------------------------------------------------------------------
(* internal/isolation *)

Absent == "absent"
Omitted == "omitted"     \* a profile without the optional runtimeClassName
NoQuantity == ""
BadQuantity == "bad"     \* does not parse; stored before the CRD had a pattern

\* ProfileForLevel: the profile the command line tool renders for a level.
ProfileForLevel(level) ==
  [level |-> level,
   podSecurity |-> IF level = "baseline" THEN "baseline" ELSE "restricted",
   deny |-> level # "baseline",
   requests |-> TRUE,
   class |-> IF level = "sandboxed" THEN "kata-qemu" ELSE ""]

Missing == [level |-> Absent, podSecurity |-> "", deny |-> FALSE, requests |-> FALSE, class |-> ""]

\* profileFromCR: an omitted string is an empty one in Go.
profileFromCR(p) == IF p.class = Omitted THEN [p EXCEPT !.class = ""] ELSE p

\* BuildNetworkPolicy: whether there is one.
NetworkPolicyFor(p, old) == old \/ p.deny

\* BuildResourceQuota, when the quantity parses.  A quota nobody asks for any
\* more stays as it is, and so do the other objects: applyIsolation only writes.
ResourceQuotaFor(p, q, old) == IF p.requests /\ q # NoQuantity THEN q ELSE old

\* Mutant: the error of ParseQuantity is dropped.
QuotaFails_Unchecked(p, q) == FALSE

QuotaFails(p, q) == p.requests /\ q = BadQuantity

\* BuildLimitRange: the defaults of a container.
LimitRangeFor(p, old) ==
  IF p.requests THEN IF p.level = "sandboxed" THEN "half" ELSE "full" ELSE old

\* The level the enforce, audit and warn labels name.
PodSecurityLabels(p) == p.podSecurity
-----------------------------------------------------------------------------
NoObjects == [np |-> FALSE, quota |-> Absent, limits |-> Absent, psa |-> Absent]
NoCopy == [ref |-> Absent, quantity |-> NoQuantity, profile |-> Missing, pods |-> {}]
Conditions == [enforced : BOOLEAN, hardened : BOOLEAN, synced : BOOLEAN]
NoConditions == [enforced |-> FALSE, hardened |-> FALSE, synced |-> FALSE]

\* What the CRD accepts as a profile.
ProfileSpecs ==
  [level : {"baseline", "restricted", "sandboxed"}, podSecurity : {"baseline", "restricted"},
   deny : BOOLEAN, requests : BOOLEAN, class : STRING]

ASSUME IsolationAssumption ==
  /\ Absent \notin ProfileNames
  /\ ProfileValues \subseteq ProfileSpecs
  /\ OwnClass \in [Pods -> STRING]
  /\ Supported \in BOOLEAN /\ MaxOps \in Nat /\ MaxFaults \in Nat

Init ==
  /\ \E v \in ProfileValues : profile = [n \in ProfileNames |-> v]
  /\ spec \in [ref : ProfileNames, quantity : Quantities]
  /\ ns = NoObjects /\ policy = FALSE /\ binding = Absent
  /\ wanted = Pods /\ pods = [p \in Pods |-> Absent]
  /\ status = [phase |-> "", conds |-> NoConditions]
  /\ pc = "idle" /\ copy = NoCopy /\ moved = FALSE
  /\ mem = NoConditions /\ todo = {}
  /\ ops = MaxOps /\ faults = MaxFaults
-----------------------------------------------------------------------------
(***************************************************************************)
(* Reconcile                                                               *)
(***************************************************************************)
Fault == faults > 0 /\ faults' = faults - 1

\* Get(TenantCluster) and Get(IsolationProfile), then setSupportConditions,
\* which reports the isolation as enforced before any of it is applied.
Begin ==
  LET p == profile[spec.ref]
  IN  /\ pc = "idle"
      /\ moved' = FALSE
      /\ copy' = [ref |-> spec.ref, quantity |-> spec.quantity,
                  profile |-> profileFromCR(p), pods |-> {}]
      /\ IF p = Missing
         THEN pc' = "degrade" /\ mem' = status.conds
         ELSE pc' = "networkPolicy" /\ mem' = [status.conds EXCEPT !.enforced = TRUE]
      /\ UNCHANGED <<clusterVars, hostVars, status, todo, ops, faults>>

\* One CreateOrUpdate: it works, or the reconcile degrades the tenant.
Apply(step, next, new) ==
  /\ pc = step
  /\ \/ ns' = new /\ pc' = next /\ UNCHANGED faults
     \/ Fault /\ pc' = "degrade" /\ UNCHANGED ns
  /\ UNCHANGED <<clusterVars, policy, binding, pods, status, workVars, ops>>

ApplyNetworkPolicy ==
  Apply("networkPolicy", "quota", [ns EXCEPT !.np = NetworkPolicyFor(copy.profile, @)])

ApplyResourceQuota ==
  \/ /\ ~QuotaFails(copy.profile, copy.quantity)
     /\ Apply("quota", "limits",
              [ns EXCEPT !.quota = ResourceQuotaFor(copy.profile, copy.quantity, @)])
  \/ /\ pc = "quota" /\ QuotaFails(copy.profile, copy.quantity)
     /\ pc' = "degrade"
     /\ UNCHANGED <<clusterVars, hostVars, status, workVars, ops, faults>>

ApplyLimitRange ==
  Apply("limits", "labels", [ns EXCEPT !.limits = LimitRangeFor(copy.profile, @)])

\* applyNamespacePodSecurityLabels
ApplyLabels ==
  Apply("labels", "policy", [ns EXCEPT !.psa = PodSecurityLabels(copy.profile)])

\* Mutant: an existing binding is left as it is.
BoundTo_CreateOnly == IF binding = Absent THEN copy.ref ELSE binding

\* buildRuntimeClassBinding: the binding names the profile the copy refers to.
BoundTo == copy.ref

\* ensureRuntimeClassPolicy: one policy for all tenants, if the host has the API.
EnsurePolicy ==
  /\ pc = "policy"
  /\ \/ /\ policy' = Supported
        /\ pc' = IF Supported THEN "binding" ELSE "list"
        /\ mem' = [mem EXCEPT !.hardened = @ /\ Supported]
        /\ UNCHANGED faults
     \/ Fault /\ pc' = "degrade" /\ UNCHANGED <<policy, mem>>
  /\ UNCHANGED <<clusterVars, ns, binding, pods, status, copy, moved, todo, ops>>

\* reconcileRuntimeClassBinding, then setAdmissionHardeningCondition.
ReconcileBinding ==
  /\ pc = "binding"
  /\ \/ /\ binding' = BoundTo
        /\ mem' = [mem EXCEPT !.hardened = TRUE]
        /\ pc' = "list"
        /\ UNCHANGED faults
     \/ Fault /\ pc' = "degrade" /\ UNCHANGED <<binding, mem>>
  /\ UNCHANGED <<clusterVars, ns, policy, pods, status, copy, moved, todo, ops>>
-----------------------------------------------------------------------------
(***************************************************************************)
(* runSync, with the runtime class of the profile this reconcile read      *)
(***************************************************************************)
ListPods ==
  /\ pc = "list"
  /\ \/ /\ copy' = [copy EXCEPT !.pods = wanted] /\ todo' = wanted
        /\ mem' = [mem EXCEPT !.synced = TRUE]
        /\ pc' = "sync"
        /\ UNCHANGED faults
     \/ /\ Fault                     \* the pass ends before garbage collection
        /\ mem' = [mem EXCEPT !.synced = FALSE]
        /\ pc' = "report" /\ UNCHANGED <<copy, todo>>
  /\ UNCHANGED <<clusterVars, hostVars, status, moved, ops>>

\* The runtime class policy as the host evaluates it, with the profile the
\* binding names as it is now: a missing profile denies, and so does a profile
\* without the field, which the expression cannot read (external).
ClassAdmitted(c) ==
  LET required == profile[binding].class
  IN  profile[binding] # Missing /\ required # Omitted /\ (required = "" \/ c = required)

\* The host admits Pod p with class c: Pod Security by the namespace's label, a
\* quota only with the defaults of a LimitRange, the runtime class policy
\* (external).
Admitted(p, c) ==
  /\ ns.psa = "restricted" => PodLevel[p] = "restricted"
  /\ ns.quota # Absent => ns.limits # Absent
  /\ policy /\ binding # Absent => ClassAdmitted(c)

\* Mutant: the class is left to the tenant.
StampedClass_TenantsOwn(p) == OwnClass[p]

\* The class the host object of a Pod gets from syncPass: the required one, or the
\* tenant's own where the profile names none.
StampedClass(p) == IF copy.profile.class = "" THEN OwnClass[p] ELSE copy.profile.class

\* reconcilePair for the Pods of the list: a missing mirror is created with the
\* class syncPass stamps on it, an existing one keeps its class.
SyncPod ==
  /\ pc = "sync"
  /\ \E p \in todo :
       /\ todo' = todo \ {p}
       /\ \/ pods[p] # Absent /\ UNCHANGED <<pods, mem, faults>>
          \/ /\ pods[p] = Absent /\ Admitted(p, StampedClass(p))
             /\ pods' = [pods EXCEPT ![p] = StampedClass(p)]
             /\ UNCHANGED <<mem, faults>>
          \/ /\ pods[p] = Absent
             /\ \/ ~Admitted(p, StampedClass(p)) /\ UNCHANGED faults
                \/ Fault
             /\ mem' = [mem EXCEPT !.synced = FALSE]
             /\ UNCHANGED pods
  /\ UNCHANGED <<clusterVars, ns, policy, binding, status, pc, copy, moved, ops>>

\* collectOrphans
FinishSync ==
  /\ pc = "sync" /\ todo = {}
  /\ pods' = [p \in Pods |-> IF p \in copy.pods THEN pods[p] ELSE Absent]
  /\ pc' = "report"
  /\ UNCHANGED <<clusterVars, ns, policy, binding, status, workVars, ops, faults>>

\* Status().Update, refused when the TenantCluster changed since it was read.
Report(phase) ==
  /\ \/ ~moved /\ status' = [phase |-> phase, conds |-> mem] /\ UNCHANGED faults
     \/ moved /\ UNCHANGED <<status, faults>>
     \/ Fault /\ UNCHANGED status
  /\ pc' = "idle"
  /\ copy' = NoCopy /\ moved' = FALSE /\ mem' = NoConditions /\ todo' = {}
  /\ UNCHANGED <<clusterVars, hostVars, ops>>

ReportReady == pc = "report" /\ Report("Ready")

\* Mutant: the error is returned, the status left as it was.
degrade_Silent ==
  /\ pc = "degrade"
  /\ pc' = "idle" /\ copy' = NoCopy /\ moved' = FALSE /\ mem' = NoConditions /\ todo' = {}
  /\ UNCHANGED <<clusterVars, hostVars, status, ops, faults>>

degrade == pc = "degrade" /\ Report("Degraded")

\* The manager stops and starts again.
Restart ==
  /\ pc # "idle" /\ Fault
  /\ pc' = "idle"
  /\ copy' = NoCopy /\ moved' = FALSE /\ mem' = NoConditions /\ todo' = {}
  /\ UNCHANGED <<clusterVars, hostVars, status, ops>>
-----------------------------------------------------------------------------
(***************************************************************************)
(* Administrators and the tenant                                           *)
(***************************************************************************)
Outside(op) ==
  /\ op \in EnvOps /\ ops > 0
  /\ ops' = ops - 1
  /\ UNCHANGED <<policy, status, pc, copy, mem, todo, faults>>

\* A profile is created, edited or, with Missing, deleted.
PutProfile(n, v) ==
  /\ Outside("profile")
  /\ profile[n] # v /\ profile' = [profile EXCEPT ![n] = v]
  /\ UNCHANGED <<spec, wanted, ns, binding, pods, moved>>

EditTenantCluster(r, q) ==
  /\ Outside("spec")
  /\ spec' = [ref |-> r, quantity |-> q] /\ spec' # spec
  /\ moved' = (pc # "idle")
  /\ UNCHANGED <<profile, wanted, ns, binding, pods>>

\* Somebody removes what the controller put into the namespace, or its binding.
Drift ==
  /\ Outside("drift")
  /\ \/ ns' = [ns EXCEPT !.np = FALSE] /\ UNCHANGED binding
     \/ ns' = [ns EXCEPT !.quota = Absent] /\ UNCHANGED binding
     \/ ns' = [ns EXCEPT !.limits = Absent] /\ UNCHANGED binding
     \/ ns' = [ns EXCEPT !.psa = Absent] /\ UNCHANGED binding
     \/ binding' = Absent /\ UNCHANGED ns
  /\ <<ns, binding>>' # <<ns, binding>>
  /\ UNCHANGED <<clusterVars, pods, moved>>

TenantPod(p) ==
  /\ Outside("pod")
  /\ wanted' = IF p \in wanted THEN wanted \ {p} ELSE wanted \union {p}
  /\ UNCHANGED <<profile, spec, ns, binding, pods, moved>>

Environment ==
  \/ \E n \in ProfileNames, v \in ProfileValues \union {Missing} : PutProfile(n, v)
  \/ \E r \in ProfileNames, q \in Quantities \ {BadQuantity} : EditTenantCluster(r, q)
  \/ Drift
  \/ \E p \in Pods : TenantPod(p)

Controller ==
  \/ Begin \/ ApplyNetworkPolicy \/ ApplyResourceQuota \/ ApplyLimitRange \/ ApplyLabels
  \/ EnsurePolicy \/ ReconcileBinding
  \/ ListPods \/ SyncPod \/ FinishSync \/ ReportReady \/ degrade

Next == Controller \/ Restart \/ Environment

\* Every outcome of Reconcile asks for another one.
Spec == Init /\ [][Next]_vars /\ WF_vars(Controller)
-----------------------------------------------------------------------------
TypeOK ==
  /\ profile \in [ProfileNames -> ProfileValues \union {Missing}]
  /\ spec \in [ref : ProfileNames, quantity : Quantities]
  /\ ns.np \in BOOLEAN /\ ns.psa \in {Absent, "baseline", "restricted"}
  /\ ns.quota \in (Quantities \ {NoQuantity, BadQuantity}) \union {Absent}
  /\ ns.limits \in {Absent, "full", "half"}
  /\ policy \in BOOLEAN /\ binding \in ProfileNames \union {Absent}
  /\ wanted \subseteq Pods
  /\ \A p \in Pods :
       pods[p] \in {Absent, OwnClass[p]} \union ({profileFromCR(v).class : v \in ProfileValues} \ {""})
  /\ status.conds \in Conditions /\ mem \in Conditions
  /\ todo \subseteq copy.pods

InForce == profile[spec.ref]

\* Nothing in the specification keeps a reconcile from succeeding.
Sound == InForce # Missing /\ ~QuotaFails(InForce, spec.quantity)

\* Everything the profile asks for is in place as it asks for it.
InPlace(p, q) ==
  /\ p.deny => ns.np
  /\ p.requests => /\ ns.limits = LimitRangeFor(p, Absent)
                   /\ q # NoQuantity => ns.quota = q
  /\ ns.psa = p.podSecurity
  /\ Supported => policy /\ binding = spec.ref

\* "Isolation objects are reconciled idempotently on every pass, so drift is
\* corrected automatically" (isolationprofile.md): in the end the namespace has
\* everything the profile its TenantCluster refers to asks for, however profiles,
\* references and quantities changed during reconciles that worked from old copies
\* (applyIsolation, reconcileRuntimeClassBinding).
IsolationConverges == <>[](Sound => InPlace(InForce, spec.quantity))

\* In the end the phase tells whether the specification can be satisfied
\* (degrade, and the status update that a change of the TenantCluster refuses).
PhaseSettles == <>[](status.phase = IF Sound THEN "Ready" ELSE "Degraded")

\* Pods the profile in force has no objection to.
Acceptable == {p \in wanted : InForce.podSecurity = "restricted" => PodLevel[p] = "restricted"}

\* In the end every acceptable Pod of the tenant has a mirror, and the class the
\* engine stamps on it is the one admission asks for: the two may read different
\* versions of the profile at first (RequiredRuntimeClassName in syncPass,
\* buildRuntimeClassPolicy).
PodsAreMirrored == <>[](Sound => \A p \in Acceptable : pods[p] # Absent)

\* "status must state exactly what is and is not real" (setSupportConditions): in
\* the end a tenant that reports its isolation as enforced has it.
EnforcedIsApplied ==
  <>[](status.conds.enforced => Sound /\ InPlace(InForce, spec.quantity))
=============================================================================
