-------------------------- MODULE IsolationProofs --------------------------
(***************************************************************************)
(* Type correctness of Isolation, for any profiles, Pods and quantities.   *)
(* TypeOK says what may get into a namespace, and is not inductive: a      *)
(* reconcile writes from a copy, so the invariant says which copies it may *)
(* hold at each of its calls.                                              *)
(***************************************************************************)
EXTENDS Isolation, TLAPS

Read == {profileFromCR(v) : v \in ProfileValues}
Required == {profileFromCR(v).class : v \in ProfileValues}
\* What the mirror of a Pod may have: its own class, or one a profile names.
ClassesOf(p) == {Absent, OwnClass[p]} \union (Required \ {""})
Classes == {Absent} \union Required \union {OwnClass[p] : p \in Pods}
Mirrors == {f \in [Pods -> Classes] : \A p \in Pods : f[p] \in ClassesOf(p)}
Sizes == (Quantities \ {NoQuantity, BadQuantity}) \union {Absent}
Objects == [np : BOOLEAN, quota : Sizes, limits : {Absent, "full", "half"},
            psa : {Absent, "baseline", "restricted"}]
Copies == [ref : ProfileNames \union {Absent}, quantity : Quantities \union {NoQuantity},
           profile : Read \union {profileFromCR(Missing), Missing}, pods : SUBSET Pods]
Working == {"networkPolicy", "quota", "limits", "labels", "policy", "binding", "list", "sync"}

\* What is written is of its type.
Stored ==
  /\ profile \in [ProfileNames -> ProfileValues \union {Missing}]
  /\ spec \in [ref : ProfileNames, quantity : Quantities]
  /\ ns \in Objects
  /\ policy \in BOOLEAN /\ binding \in ProfileNames \union {Absent}
  /\ wanted \subseteq Pods /\ pods \in Mirrors
  /\ status \in [phase : {"", "Ready", "Degraded"}, conds : Conditions]

\* A reconcile applies only a profile that existed when it was read, of the name the
\* TenantCluster had then.
Held ==
  /\ copy \in Copies /\ mem \in Conditions /\ todo \subseteq copy.pods
  /\ pc = "idle" => todo = {}
  /\ pc \in Working => copy.profile \in Read /\ copy.ref \in ProfileNames /\ copy.quantity \in Quantities

IsolationInv == Stored /\ Held
-----------------------------------------------------------------------------
\* What a profile is to the controller.
LEMMA ReadTypes ==
  \A p \in Read :
    /\ p.podSecurity \in {"baseline", "restricted"} /\ p.deny \in BOOLEAN /\ p.requests \in BOOLEAN
    /\ p.class \in Required
<1>1. SUFFICES ASSUME NEW v \in ProfileValues
               PROVE  LET p == profileFromCR(v) IN
                      /\ p.podSecurity \in {"baseline", "restricted"} /\ p.deny \in BOOLEAN
                      /\ p.requests \in BOOLEAN /\ p.class \in Required
  BY DEF Read
<1>2. v \in ProfileSpecs
  BY IsolationAssumption
<1>3. profileFromCR(v).class \in Required
  BY DEF Required
<1> QED
  BY <1>2, <1>3 DEF ProfileSpecs, profileFromCR

\* The invariant contains TypeOK.
LEMMA InvImpliesTypeOK == IsolationInv => TypeOK
  BY DEF IsolationInv, Stored, Held, TypeOK, Objects, Sizes, Mirrors, ClassesOf, Required

\* Nothing has been read or applied at the start.
LEMMA InvInit == Init => IsolationInv
<1> SUFFICES ASSUME Init PROVE IsolationInv
  OBVIOUS
<1>1. Stored
  <2>1. ns \in Objects
    BY DEF Init, NoObjects, Objects, Sizes
  <2>2. pods \in Mirrors
    BY DEF Init, Mirrors, Classes, ClassesOf
  <2>3. status \in [phase : {"", "Ready", "Degraded"}, conds : Conditions]
    BY DEF Init, NoConditions, Conditions
  <2> QED
    BY <2>1, <2>2, <2>3 DEF Init, Stored
<1>2. Held
  BY DEF Init, Held, NoCopy, Copies, NoConditions, Conditions, Working
<1> QED
  BY <1>1, <1>2 DEF IsolationInv

\* The end of a reconcile, reported or not, leaves nothing in the worker's hands.
LEMMA NothingHeld ==
  ASSUME copy' = NoCopy, mem' = NoConditions, todo' = {}, pc' = "idle"
  PROVE  Held'
  BY DEF Held, NoCopy, Copies, NoConditions, Conditions, Working

\* One write of a reconcile: the new objects are of their type, the copy stays.
LEMMA ApplyStep ==
  ASSUME IsolationInv, NEW step, NEW next, NEW new \in Objects, step \in Working, next \in Working,
         Apply(step, next, new)
  PROVE  IsolationInv'
<1>1. Stored'
  BY DEF Apply, IsolationInv, Stored, clusterVars
<1>2. Held'
  BY DEF Apply, IsolationInv, Held, workVars, Working
<1> QED
  BY <1>1, <1>2 DEF IsolationInv

\* What a step of the controller does to the invariant.
LEMMA ControllerStep == ASSUME IsolationInv, Controller PROVE IsolationInv'
<1>0. Stored /\ Held
  BY DEF IsolationInv
<1>1. CASE Begin
  <2>1. Stored'
    BY <1>0, <1>1 DEF Begin, Stored, clusterVars, hostVars
  <2> DEFINE p == profile[spec.ref]
  <2>2. spec.ref \in ProfileNames /\ spec.quantity \in Quantities /\ p \in ProfileValues \union {Missing}
    BY <1>0 DEF Stored
  <2>3. status.conds \in Conditions
    BY <1>0 DEF Stored
  <2>4. mem' \in Conditions
    BY <1>1, <2>3 DEF Begin, Conditions
  <2>5. profileFromCR(p) \in Read \union {profileFromCR(Missing)}
    BY <2>2 DEF Read
  <2>6. p # Missing => profileFromCR(p) \in Read
    BY <2>2 DEF Read
  <2> HIDE DEF p
  <2>7. copy' = [ref |-> spec.ref, quantity |-> spec.quantity, profile |-> profileFromCR(p), pods |-> {}]
    BY <1>1 DEF Begin, p
  <2>8. copy' \in Copies
    BY <2>2, <2>5, <2>7 DEF Copies
  <2>9. todo' = {}
    BY <1>0, <1>1 DEF Begin, Held
  <2>10. pc' # "idle" /\ (pc' \in Working => p # Missing)
    BY <1>1 DEF Begin, p, Working
  <2>11. Held'
    BY <2>2, <2>4, <2>6, <2>7, <2>8, <2>9, <2>10 DEF Held
  <2> QED
    BY <2>1, <2>11 DEF IsolationInv
<1>2. CASE ApplyNetworkPolicy
  <2>1. pc = "networkPolicy"
    BY <1>2 DEF ApplyNetworkPolicy, Apply
  <2>2. copy.profile \in Read
    BY <1>0, <2>1 DEF Held, Working
  <2>3. [ns EXCEPT !.np = NetworkPolicyFor(copy.profile, @)] \in Objects
    BY <1>0, <2>2, ReadTypes DEF Stored, Objects, NetworkPolicyFor
  <2> QED
    BY <1>2, <2>3, ApplyStep DEF ApplyNetworkPolicy, Working
<1>3. CASE ApplyResourceQuota
  <2>1. CASE pc = "quota" /\ pc' = "degrade" /\ UNCHANGED <<clusterVars, hostVars, status, workVars>>
    BY <1>0, <2>1 DEF IsolationInv, Stored, Held, Working, clusterVars, hostVars, workVars
  <2> DEFINE new == [ns EXCEPT !.quota = ResourceQuotaFor(copy.profile, copy.quantity, @)]
  <2>2. CASE ~QuotaFails(copy.profile, copy.quantity) /\ Apply("quota", "limits", new)
    <3>1. pc = "quota"
      BY <2>2 DEF Apply
    <3>2. copy.profile \in Read /\ copy.quantity \in Quantities
      BY <1>0, <3>1 DEF Held, Working
    <3>3. new \in Objects
      <4>1. ResourceQuotaFor(copy.profile, copy.quantity, ns.quota) \in Sizes
        BY <1>0, <2>2, <3>2 DEF Stored, Objects, ResourceQuotaFor, QuotaFails, Sizes
      <4> QED
        BY <1>0, <4>1 DEF Stored, Objects
    <3> QED
      BY <2>2, <3>3, ApplyStep DEF Working
  <2> QED
    BY <1>3, <2>1, <2>2 DEF ApplyResourceQuota
<1>4. CASE ApplyLimitRange
  <2>1. [ns EXCEPT !.limits = LimitRangeFor(copy.profile, @)] \in Objects
    BY <1>0 DEF Stored, Objects, LimitRangeFor
  <2> QED
    BY <1>4, <2>1, ApplyStep DEF ApplyLimitRange, Working
<1>5. CASE ApplyLabels
  <2>1. pc = "labels"
    BY <1>5 DEF ApplyLabels, Apply
  <2>2. copy.profile \in Read
    BY <1>0, <2>1 DEF Held, Working
  <2>3. [ns EXCEPT !.psa = PodSecurityLabels(copy.profile)] \in Objects
    BY <1>0, <2>2, ReadTypes DEF Stored, Objects, PodSecurityLabels
  <2> QED
    BY <1>5, <2>3, ApplyStep DEF ApplyLabels, Working
<1>6. CASE EnsurePolicy
  <2>1. mem' \in Conditions /\ policy' \in BOOLEAN
    BY <1>0, <1>6, IsolationAssumption DEF EnsurePolicy, Held, Stored, Conditions
  <2>2. pc \in Working /\ pc' # "idle" /\ UNCHANGED <<clusterVars, ns, binding, pods, status, copy, todo>>
    BY <1>6 DEF EnsurePolicy, Working
  <2> QED
    BY <1>0, <2>1, <2>2 DEF IsolationInv, Stored, Held, clusterVars
<1>7. CASE ReconcileBinding
  <2>1. pc \in Working /\ pc' # "idle" /\ UNCHANGED <<clusterVars, ns, policy, pods, status, copy, todo>>
    BY <1>7 DEF ReconcileBinding, Working
  <2>2. mem' \in Conditions
    BY <1>0, <1>7 DEF ReconcileBinding, Held, Conditions
  <2>3. binding' \in ProfileNames \union {Absent}
    BY <1>0, <1>7, <2>1 DEF ReconcileBinding, Held, Stored, BoundTo
  <2> QED
    BY <1>0, <2>1, <2>2, <2>3 DEF IsolationInv, Stored, Held, clusterVars
<1>8. CASE ListPods
  <2>1. pc \in Working /\ pc' # "idle" /\ UNCHANGED <<clusterVars, hostVars, status>>
    BY <1>8 DEF ListPods, Working
  <2>2. Stored'
    BY <1>0, <2>1 DEF Stored, clusterVars, hostVars
  <2>3. mem' \in Conditions
    BY <1>0, <1>8 DEF ListPods, Held, Conditions
  <2>4. copy' \in Copies /\ todo' \subseteq copy'.pods
    BY <1>0, <1>8 DEF ListPods, Held, Stored, Copies
  <2>5. copy'.profile = copy.profile /\ copy'.ref = copy.ref /\ copy'.quantity = copy.quantity
    BY <1>0, <1>8 DEF ListPods, Held, Copies
  <2>6. Held'
    BY <1>0, <2>1, <2>3, <2>4, <2>5 DEF Held
  <2> QED
    BY <2>2, <2>6 DEF IsolationInv
<1>9. CASE SyncPod
  <2>1. pc = "sync" /\ UNCHANGED <<clusterVars, ns, policy, binding, status, pc, copy>>
    BY <1>9 DEF SyncPod
  <2>2. \A p \in Pods : StampedClass(p) \in ClassesOf(p)
    <3>1. copy.profile.class \in Required
      BY <1>0, <2>1, ReadTypes DEF Held, Working
    <3> QED
      BY <3>1 DEF StampedClass, ClassesOf
  <2>3. PICK p \in todo :
          /\ todo' = todo \ {p}
          /\ pods' \in {pods, [pods EXCEPT ![p] = StampedClass(p)]}
          /\ mem' \in {mem, [mem EXCEPT !.synced = FALSE]}
    <3> HIDE DEF StampedClass
    <3> QED
      BY <1>9 DEF SyncPod
  <2>4. pods' \in Mirrors
    <3>1. p \in Pods /\ pods \in Mirrors
      BY <1>0, <2>3 DEF Held, Copies, Stored
    <3>2. StampedClass(p) \in ClassesOf(p)
      BY <2>2, <3>1
    <3> HIDE DEF StampedClass
    <3>3. \A c \in ClassesOf(p) : [pods EXCEPT ![p] = c] \in Mirrors
      BY <3>1 DEF Mirrors, Classes, ClassesOf
    <3> QED
      BY <2>3, <3>1, <3>2, <3>3
  <2>5. mem' \in Conditions
    BY <1>0, <2>3 DEF Held, Conditions
  <2> QED
    BY <1>0, <2>1, <2>3, <2>4, <2>5 DEF IsolationInv, Stored, Held, clusterVars
<1>10. CASE FinishSync
  <2>1. pods' \in Mirrors
    BY <1>0, <1>10 DEF FinishSync, Stored, Mirrors, Classes, ClassesOf
  <2>2. pc' \notin Working /\ pc' # "idle" /\ UNCHANGED <<clusterVars, ns, policy, binding, status, workVars>>
    BY <1>10 DEF FinishSync, Working
  <2> QED
    BY <1>0, <2>1, <2>2 DEF IsolationInv, Stored, Held, clusterVars, workVars
<1>11. CASE ReportReady \/ degrade
  <2>1. PICK ph \in {"Ready", "Degraded"} : Report(ph)
    BY <1>11 DEF ReportReady, degrade
  <2>2. Held'
    BY <2>1, NothingHeld DEF Report
  <2>3. status' \in [phase : {"", "Ready", "Degraded"}, conds : Conditions]
    <3>1. status' = status \/ status' = [phase |-> ph, conds |-> mem]
      BY <2>1 DEF Report
    <3>2. mem \in Conditions /\ status \in [phase : {"", "Ready", "Degraded"}, conds : Conditions]
      BY <1>0 DEF Stored, Held
    <3>3. \A c \in Conditions : [phase |-> ph, conds |-> c] \in [phase : {"", "Ready", "Degraded"}, conds : Conditions]
      <4> HIDE DEF Conditions
      <4> QED
        BY <2>1
    <3> QED
      BY <3>1, <3>2, <3>3, Zenon
  <2>4. Stored'
    BY <1>0, <2>1, <2>3 DEF Report, Stored, clusterVars, hostVars
  <2> QED
    BY <2>2, <2>4 DEF IsolationInv
<1> QED
  BY <1>1, <1>2, <1>3, <1>4, <1>5, <1>6, <1>7, <1>8, <1>9, <1>10, <1>11 DEF Controller

\* Administrators, the tenant and whoever removes objects from the namespace.
LEMMA EnvironmentStep == ASSUME IsolationInv, Environment PROVE IsolationInv'
<1>0. Stored /\ Held
  BY DEF IsolationInv
<1>1. UNCHANGED <<policy, status, pc, copy, mem, todo, pods>>
  BY DEF Environment, PutProfile, EditTenantCluster, Drift, TenantPod, Outside
<1>2. Held'
  BY <1>0, <1>1 DEF Held
<1>3. profile' \in [ProfileNames -> ProfileValues \union {Missing}]
  BY <1>0 DEF Environment, PutProfile, EditTenantCluster, Drift, TenantPod, Stored, clusterVars
<1>4. spec' \in [ref : ProfileNames, quantity : Quantities]
  <2>1. CASE UNCHANGED spec
    BY <1>0, <2>1 DEF Stored
  <2>2. CASE \E x \in ProfileNames, q \in Quantities : spec' = [ref |-> x, quantity |-> q]
    BY <2>2
  <2> QED
    BY <2>1, <2>2 DEF Environment, PutProfile, EditTenantCluster, Drift, TenantPod, clusterVars
<1>5. wanted' \subseteq Pods
  BY <1>0 DEF Environment, PutProfile, EditTenantCluster, Drift, TenantPod, Stored, clusterVars
<1>6. binding' \in ProfileNames \union {Absent}
  BY <1>0 DEF Environment, PutProfile, EditTenantCluster, Drift, TenantPod, Stored
<1>7. ns' \in Objects
  <2>1. CASE Drift
    BY <1>0, <2>1 DEF Drift, Stored, Objects, Sizes
  <2>2. CASE UNCHANGED ns
    BY <1>0, <2>2 DEF Stored
  <2> QED
    BY <2>1, <2>2 DEF Environment, PutProfile, EditTenantCluster, TenantPod
<1> QED
  BY <1>0, <1>1, <1>2, <1>3, <1>4, <1>5, <1>6, <1>7 DEF IsolationInv, Stored

\* Nothing gets into a namespace but what somebody asked for: never the empty Pod Security
\* level of a profile that is gone, nor a quota that does not parse; and a mirror has the
\* class its Pod names itself or one a profile names, and no mirror of a Pod that names
\* a class goes without one, however profiles and references change while a reconcile
\* applies its copy (applyIsolation, syncPass).
THEOREM IsolationTypeCorrect == Spec => []TypeOK
<1>1. IsolationInv /\ [Next]_vars => IsolationInv'
  <2>1. SUFFICES ASSUME IsolationInv, [Next]_vars PROVE IsolationInv'
    OBVIOUS
  <2>2. CASE Restart
    <3>1. Held'
      BY <2>2, NothingHeld DEF Restart
    <3>2. Stored'
      BY <2>1, <2>2 DEF Restart, IsolationInv, Stored, clusterVars, hostVars
    <3> QED
      BY <3>1, <3>2 DEF IsolationInv
  <2>3. CASE UNCHANGED vars
    BY <2>1, <2>3 DEF vars, IsolationInv, Stored, Held, clusterVars, hostVars, workVars
  <2> QED
    BY <2>1, <2>2, <2>3, ControllerStep, EnvironmentStep DEF Next
<1> QED
  BY <1>1, InvInit, InvImpliesTypeOK, PTL DEF Spec
=============================================================================
