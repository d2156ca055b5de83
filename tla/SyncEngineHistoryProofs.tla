----------------------- MODULE SyncEngineHistoryProofs -----------------------
(***************************************************************************)
(* The convergence history of SyncEngine tells the truth, conflict policy  *)
(* "manual" loses no edit, and with it the engine implements SyncedPairs:  *)
(* for any objects, kinds (Pods excepted), host names, shared or not, rate *)
(* limits, faults and cache lag.                                           *)
(*                                                                         *)
(* The two exceptions are real: adoptPodImmutableFields makes a baseline of *)
(* a push that left part of a Pod as it was, and a control plane rebuilt on *)
(* an empty volume hands out resourceVersions a second time.               *)
(***************************************************************************)
EXTENDS SyncEngineRefinement, SyncEngineProofs

NoPods == "Pod" \notin Kinds
NoReset == "reset" \notin EnvOps

\* Every resource of the policy is bidirectional, with conflictPolicy "manual".
ManualPolicy ==
  /\ ConflictPolicy = "manual"
  /\ \A i \in 1..Len(Resources) : Resources[i].dir = "bidirectional"
-----------------------------------------------------------------------------
(***************************************************************************)
(* The inductive invariant.  A resourceVersion is given out once, so it    *)
(* identifies an object and its content, among the objects of a cluster    *)
(* and the engine's copies of them; the history holds versions given out   *)
(* already.  That makes a baseline true when it is recorded, and vacuously *)
(* so from the next write to either object on.                             *)
(***************************************************************************)
TenantVersions ==
  /\ \A o \in Obj : tenant[o].rv <= trev /\ snap[o].rv <= trev
  /\ \A o, p \in Obj : Exists(tenant[o]) /\ tenant[o].rv = tenant[p].rv => o = p
  /\ \A o, p \in Obj :
       Exists(snap[o]) /\ snap[o].rv = tenant[p].rv => o = p /\ snap[o].val = tenant[p].val

HostVersions ==
  \A r, s \in Slots : Exists(host[r]) /\ host[r].rv = host[s].rv => r = s

\* The objects still to do are listed ones of the resource's kind.
TodoListed ==
  pc \in {"pair", "write", "gc"} => \A o \in todo : KindOf[o] = Kind /\ Exists(snap[o])

\* The engine holds a host object only between its read and its write, and its
\* version still identifies it.
SeenIdentified ==
  /\ pc # "write" => seen = NoHostObject
  /\ pc = "write" /\ plan = "create" => ~Exists(seen)
  /\ pc = "write" /\ plan \in {"push", "pull"} =>
       /\ Exists(seen) /\ seen.rv <= hrev /\ seen.src = cur
       /\ \A s \in Slots : host[s].rv = seen.rv => s = Slot(cur) /\ host[s] = seen

\* The history holds versions the API servers gave out, and the current version
\* of an object in it says that no user's edit of the object is unseen.
GivenOut(m) == \A n \in Names : m[n].t <= trev /\ m[n].h <= hrev

Clean(m) ==
  /\ \A o \in Obj : Exists(tenant[o]) /\ tenant[o].rv = m[HostName[o]].t => o \notin dirtyT
  /\ \A s \in Slots : Exists(host[s]) /\ host[s].rv = m[s[2]].h => s \notin dirtyH

Sound(m) == GivenOut(m) /\ Truthful(m) /\ Clean(m)

EditsPlaced == \A s \in dirtyH : Exists(host[s])

HistoryInv ==
  /\ ProvenanceInv
  /\ TenantVersions /\ HostVersions /\ TodoListed /\ SeenIdentified /\ EditsPlaced
  /\ Sound(hist) /\ Sound(saved.hist) /\ Sound(cached.hist)

\* A write decided by the manual policy replaces what the history says is known.
PlannedByHistory ==
  pc = "write" =>
    /\ plan = "push" => seen.rv = hist[HostName[cur]].h
    /\ plan = "pull" => snap[cur].rv = hist[HostName[cur]].t
-----------------------------------------------------------------------------
(***************************************************************************)
(* What transform.go does to kinds other than Pods                         *)
(***************************************************************************)

\* A mirror created or updated from c, and a tenant object updated from a mirror
\* with content d, differ from it only in what each cluster allocates.
LEMMA WritesAgree ==
  ASSUME NEW k, k # "Pod", NEW c \in Content, NEW d \in Content, NEW a
  PROVE  /\ ComparableHost(k, c, Required) = c
         /\ UpdateAllowed(k, c, d)
         /\ ContentEqual(k, c, Defaulted(k, BuildHostObject(k, c, Required), a))
         /\ ContentEqual(k, c, AdoptHostAllocatedFields(k, d, BuildHostObject(k, c, Required)))
         /\ ContentEqual(k, Defaulted(k, MergeHostContentIntoTenant(k, d), a), d)
<1>1. ComparableHost(k, c, Required) = c /\ UpdateAllowed(k, c, d)
  BY DEF ComparableHost, UpdateAllowed
<1>2. BuildHostObject(k, c, Required) = stripHostAllocatedSpecFields(k, c)
  BY DEF BuildHostObject
<1>3. CASE k = "Service"
  BY <1>1, <1>2, <1>3 DEF ContentEqual, Defaulted, AdoptHostAllocatedFields,
     MergeHostContentIntoTenant, stripHostAllocatedSpecFields, Content
<1>4. CASE k # "Service"
  BY <1>1, <1>2, <1>4 DEF ContentEqual, Defaulted, AdoptHostAllocatedFields,
     MergeHostContentIntoTenant, stripHostAllocatedSpecFields
<1> QED
  BY <1>3, <1>4
-----------------------------------------------------------------------------
(***************************************************************************)
(* The two API servers give out every version once                         *)
(***************************************************************************)

\* What a step may do to the objects of the tenant and to those of the host.
TenantMove ==
  \/ UNCHANGED <<tenant, trev>>
  \/ \E o \in Obj : tenant' = [tenant EXCEPT ![o] = NoTenantObject] /\ trev' = trev
  \/ \E o \in Obj, v \in Content :
       tenant' = [tenant EXCEPT ![o] = [rv |-> trev + 1, val |-> v]] /\ trev' = trev + 1

SlotMove ==
  \/ UNCHANGED <<host, hrev>>
  \/ \E s \in Slots : host' = [host EXCEPT ![s] = NoHostObject] /\ hrev' = hrev
  \/ \E s \in Slots, v \in Content, o \in Obj \union {Foreign} :
       host' = [host EXCEPT ![s] = [rv |-> hrev + 1, val |-> v, src |-> o]] /\ hrev' = hrev + 1

\* A write is for a listed object, with contents transform.go made.
LEMMA WriteContents ==
  ASSUME TypeOK, pc = "write"
  PROVE  /\ cur \in Obj /\ Slot(cur) \in Slots /\ HostName[cur] \in Names
         /\ snap[cur] \in TenantObject /\ snap[cur].val \in Content /\ seen.val \in Content
         /\ CreatedContent \in Content /\ PushedContent \in Content /\ PulledContent \in Content
<1>1. cur \in Obj /\ Slot(cur) \in Slots /\ HostName[cur] \in Names
  BY SlotOK DEF TypeOK, PairTypes
<1>2. /\ snap[cur] \in TenantObject /\ snap[cur].val \in Content /\ seen.val \in Content
      /\ tenant[cur].val.fixed \in Fixeds \union {HostAddress, TenantAddress, Unset}
  BY <1>1 DEF TypeOK, StoreTypes, PassTypes, PairTypes, TenantObject, HostObject, Content
<1>3. DesiredContent \in Content /\ ComparableHost(Kind, seen.val, Required) \in Content
  BY <1>2, TransformTypes DEF DesiredContent
<1>4. HostAddress \in Fixeds \union {HostAddress, TenantAddress, Unset}
  OBVIOUS
<1>5. MergeHostContentIntoTenant(Kind, ComparableHost(Kind, seen.val, Required)) \in Content
  BY <1>3, TransformTypes DEF MergeHostContentIntoTenant
<1> QED
  BY <1>1, <1>2, <1>3, <1>4, <1>5, TransformTypes DEF CreatedContent, PushedContent, PulledContent

\* Every step treats the tenant's objects that way, as long as the tenant's
\* control plane is not rebuilt.
LEMMA TenantMoves ==
  ASSUME TypeOK, NoReset, [Next]_vars
  PROVE  TenantMove
<1>1. ASSUME NEW o \in Obj, NEW v \in Content, PutTenant(o, v) PROVE TenantMove
  BY <1>1 DEF PutTenant, TenantMove
<1>2. CASE UNCHANGED <<tenant, trev>>
  BY <1>2 DEF TenantMove
<1>3. CASE StartRun \/ ListVirtual \/ ReconcilePair \/ ListHost \/ DeleteOrphan \/ FinishPass
           \/ Restart \/ CacheSync \/ Refill \/ UNCHANGED vars
  BY <1>2, <1>3 DEF StartRun, ListVirtual, ReconcilePair, ListHost, DeleteOrphan, FinishPass,
     Restart, CacheSync, Refill, vars, storeVars
<1>4. CASE Write
  <2>1. CASE PullToTenant
    BY <1>1, <1>4, <2>1, WriteContents DEF Write, PullToTenant
  <2> QED
    BY <1>2, <1>4, <2>1 DEF Write, CreateHost, PushToHost, WriteFails, storeVars
<1>5. ASSUME NEW o \in Obj PROVE tenant[o].val \in Content
  BY DEF TypeOK, StoreTypes, TenantObject
<1>6. ASSUME NEW o \in Obj, NEW c \in TenantContents(KindOf[o]), TenantCreate(o, c)
      PROVE  TenantMove
  <2>1. c \in Content
    BY DEF TenantContents, Content
  <2> QED
    BY <1>1, <1>6, <2>1 DEF TenantCreate
<1>7. ASSUME NEW o \in Obj, NEW f \in Frees, TenantEdit(o, f) PROVE TenantMove
  <2>1. [tenant[o].val EXCEPT !.free = f] \in Content
    BY <1>5 DEF Content
  <2> QED
    BY <1>1, <1>7, <2>1 DEF TenantEdit
<1>8. ASSUME NEW o \in Obj, TenantDelete(o) \/ TenantTouch(o) PROVE TenantMove
  BY <1>5, <1>8 DEF TenantDelete, TenantTouch, TenantMove
<1>9. ~TenantReset
  BY DEF TenantReset, Outside, NoReset
<1>10. ASSUME NEW s \in Slots,
              \/ \E f \in Frees : HostEdit(s, f)
              \/ HostDelete(s) \/ ForeignCreate(s) \/ HostTouch(s) \/ HostSchedule(s)
       PROVE  TenantMove
  BY <1>2, <1>10 DEF HostEdit, HostDelete, ForeignCreate, HostTouch, HostSchedule
<1> QED
  BY <1>3, <1>4, <1>6, <1>7, <1>8, <1>9, <1>10 DEF Next, Worker, Environment

\* And the host's.
LEMMA SlotMoves ==
  ASSUME TypeOK, [Next]_vars
  PROVE  SlotMove
<1>1. ASSUME NEW s \in Slots, NEW v \in Content, NEW o \in Obj \union {Foreign},
             PutHost(s, v, o)
      PROVE  SlotMove
  BY <1>1 DEF PutHost, SlotMove
<1>2. CASE UNCHANGED <<host, hrev>>
  BY <1>2 DEF SlotMove
<1>3. CASE StartRun \/ ListVirtual \/ ReconcilePair \/ ListHost \/ FinishPass
           \/ Restart \/ CacheSync \/ Refill \/ UNCHANGED vars
  BY <1>2, <1>3 DEF StartRun, ListVirtual, ReconcilePair, ListHost, FinishPass,
     Restart, CacheSync, Refill, vars, storeVars
<1>4. CASE Write
  <2>1. CASE CreateHost \/ PushToHost
    BY <1>1, <1>4, <2>1, WriteContents DEF Write, CreateHost, PushToHost
  <2> QED
    BY <1>2, <1>4, <2>1 DEF Write, PullToTenant, WriteFails, storeVars
<1>5. CASE DeleteOrphan
  BY <1>2, <1>5 DEF DeleteOrphan, DeleteHost, SlotMove, TypeOK, PassTypes
<1>6. ASSUME NEW s \in Slots PROVE host[s].val \in Content /\ host[s].src \in Obj \union {Foreign}
  BY DEF TypeOK, StoreTypes, HostObject
<1>7. ASSUME NEW s \in Slots, NEW f \in Frees, HostEdit(s, f) PROVE SlotMove
  <2>1. [host[s].val EXCEPT !.free = f] \in Content
    BY <1>6 DEF Content
  <2> QED
    BY <1>1, <1>6, <1>7, <2>1 DEF HostEdit
<1>8. ASSUME NEW s \in Slots, HostSchedule(s) PROVE SlotMove
  <2>1. [host[s].val EXCEPT !.fixed = HostAddress] \in Content
    BY <1>6 DEF Content
  <2> QED
    BY <1>1, <1>6, <1>8, <2>1 DEF HostSchedule
<1>9. ASSUME NEW s \in Slots, HostDelete(s) \/ ForeignCreate(s) \/ HostTouch(s) PROVE SlotMove
  BY <1>1, <1>6, <1>9, NothingTypes DEF HostDelete, ForeignCreate, HostTouch, SlotMove
<1>10. ASSUME NEW o \in Obj,
              \/ \E c \in TenantContents(KindOf[o]) : TenantCreate(o, c)
              \/ \E f \in Frees : TenantEdit(o, f)
              \/ TenantDelete(o) \/ TenantTouch(o)
       PROVE  SlotMove
  BY <1>2, <1>10 DEF TenantCreate, TenantEdit, TenantDelete, TenantTouch
<1>11. CASE TenantReset
  BY <1>2, <1>11 DEF TenantReset
<1> QED
  BY <1>3, <1>4, <1>5, <1>7, <1>8, <1>9, <1>10, <1>11 DEF Next, Worker, Environment

\* An object whose version was given out before the step is as it was.
LEMMA OldVersions ==
  ASSUME TypeOK, TenantMove, SlotMove
  PROVE  /\ trev <= trev' /\ hrev <= hrev'
         /\ \A o \in Obj : Exists(tenant'[o]) /\ tenant'[o].rv <= trev => tenant'[o] = tenant[o]
         /\ \A s \in Slots : Exists(host'[s]) /\ host'[s].rv <= hrev => host'[s] = host[s]
<1>1. /\ tenant \in [Obj -> TenantObject] /\ host \in [Slots -> HostObject]
      /\ trev \in Nat /\ hrev \in Nat
  BY DEF TypeOK, StoreTypes
<1>2. trev <= trev' /\ hrev <= hrev'
  BY <1>1 DEF TenantMove, SlotMove
<1>3. ASSUME NEW o \in Obj, Exists(tenant'[o]), tenant'[o].rv <= trev PROVE tenant'[o] = tenant[o]
  BY <1>1, <1>3 DEF TenantMove, NoTenantObject, Exists
<1>4. ASSUME NEW s \in Slots, Exists(host'[s]), host'[s].rv <= hrev PROVE host'[s] = host[s]
  BY <1>1, <1>4 DEF SlotMove, NoHostObject, Exists
<1> QED
  BY <1>2, <1>3, <1>4

\* What a step may do to the list the engine works from.
LEMMA SnapMoves ==
  ASSUME [Next]_vars
  PROVE  \/ snap' = snap
         \/ snap' = NothingListed
         \/ snap' = tenant /\ UNCHANGED <<tenant, trev>>
<1>1. ASSUME NEW op, Outside(op) PROVE snap' = snap
  BY <1>1 DEF Outside, passVars
<1>2. CASE Environment
  BY <1>1, <1>2 DEF Environment, TenantCreate, TenantEdit, TenantDelete, TenantTouch,
     HostEdit, HostDelete, ForeignCreate, HostTouch, HostSchedule, TenantReset
<1> QED
  BY <1>2 DEF Next, Worker, StartRun, ListVirtual, ReconcilePair, Write, ListHost, DeleteOrphan,
     FinishPass, EndPass, Restart, CacheSync, Refill, vars, storeVars, passVars

\* Versions stay unique among the tenant's objects and the listed ones.
LEMMA TenantVersionsStep ==
  ASSUME TypeOK, TypeOK', TenantVersions, TenantMove, [Next]_vars
  PROVE  TenantVersions'
<1>1. /\ tenant \in [Obj -> TenantObject] /\ tenant' \in [Obj -> TenantObject]
      /\ snap \in [Obj -> TenantObject] /\ snap' \in [Obj -> TenantObject]
      /\ trev \in Nat /\ trev' \in Nat
  BY DEF TypeOK, StoreTypes, PassTypes
<1>2. ASSUME NEW o \in Obj
      PROVE  /\ tenant[o].rv \in Nat /\ tenant'[o].rv \in Nat /\ snap[o].rv \in Nat
             /\ tenant[o].rv <= trev /\ snap[o].rv <= trev
  BY <1>1 DEF TenantObject, TenantVersions
<1>3. ASSUME NEW o \in Obj PROVE tenant'[o].rv <= trev'
  BY <1>1, <1>2 DEF TenantMove, NoTenantObject
<1>4. ASSUME NEW o \in Obj, NEW p \in Obj, Exists(tenant'[o]), tenant'[o].rv = tenant'[p].rv
      PROVE  o = p
  <2>1. CASE UNCHANGED <<tenant, trev>>
    BY <1>4, <2>1 DEF TenantVersions
  <2>2. ASSUME NEW q \in Obj, tenant' = [tenant EXCEPT ![q] = NoTenantObject]
        PROVE  o = p
    BY <1>1, <1>4, <2>2 DEF TenantVersions, NoTenantObject, Exists
  <2>3. ASSUME NEW q \in Obj, NEW v \in Content,
               tenant' = [tenant EXCEPT ![q] = [rv |-> trev + 1, val |-> v]]
        PROVE  o = p
    BY <1>1, <1>2, <1>4, <2>3 DEF TenantVersions, Exists
  <2> QED
    BY <2>1, <2>2, <2>3 DEF TenantMove
<1>5. ASSUME NEW o \in Obj, NEW p \in Obj, Exists(snap'[o]), snap'[o].rv = tenant'[p].rv
      PROVE  o = p /\ snap'[o].val = tenant'[p].val
  <2>1. CASE snap' = snap
    <3>1. snap[o].rv = tenant'[p].rv /\ Exists(snap[o])
      BY <1>5, <2>1
    <3>2. CASE UNCHANGED <<tenant, trev>>
      BY <2>1, <3>1, <3>2 DEF TenantVersions
    <3>3. ASSUME NEW q \in Obj, tenant' = [tenant EXCEPT ![q] = NoTenantObject]
          PROVE  o = p /\ snap[o].val = tenant'[p].val
      BY <1>1, <3>1, <3>3 DEF TenantVersions, NoTenantObject, Exists
    <3>4. ASSUME NEW q \in Obj, NEW v \in Content,
                 tenant' = [tenant EXCEPT ![q] = [rv |-> trev + 1, val |-> v]]
          PROVE  o = p /\ snap[o].val = tenant'[p].val
      BY <1>1, <1>2, <3>1, <3>4 DEF TenantVersions, Exists
    <3> QED
      BY <2>1, <3>2, <3>3, <3>4 DEF TenantMove
  <2>2. CASE snap' = NothingListed
    BY <1>5, <2>2 DEF NothingListed, NoTenantObject, Exists
  <2>3. CASE snap' = tenant /\ UNCHANGED <<tenant, trev>>
    BY <1>5, <2>3 DEF TenantVersions
  <2> QED
    BY <2>1, <2>2, <2>3, SnapMoves
<1>6. ASSUME NEW o \in Obj PROVE snap'[o].rv <= trev'
  <2>1. trev <= trev'
    BY <1>1 DEF TenantMove
  <2> QED
    BY <1>1, <1>2, <1>3, <2>1, SnapMoves DEF NothingListed, NoTenantObject
<1> QED
  BY <1>3, <1>4, <1>5, <1>6 DEF TenantVersions

\* And among the host's objects.
LEMMA HostVersionsStep ==
  ASSUME TypeOK, VersionsBounded, HostVersions, SlotMove
  PROVE  HostVersions'
<1>1. host \in [Slots -> HostObject] /\ hrev \in Nat
  BY DEF TypeOK, StoreTypes
<1>2. ASSUME NEW s \in Slots PROVE host[s].rv \in Nat /\ host[s].rv <= hrev
  BY <1>1 DEF HostObject, VersionsBounded
<1>3. ASSUME NEW r \in Slots, NEW s \in Slots, Exists(host'[r]), host'[r].rv = host'[s].rv
      PROVE  r = s
  <2>1. CASE UNCHANGED <<host, hrev>>
    BY <1>3, <2>1 DEF HostVersions
  <2>2. ASSUME NEW q \in Slots, host' = [host EXCEPT ![q] = NoHostObject]
        PROVE  r = s
    BY <1>1, <1>3, <2>2 DEF HostVersions, NoHostObject, Exists
  <2>3. ASSUME NEW q \in Slots, NEW v \in Content, NEW o \in Obj \union {Foreign},
               host' = [host EXCEPT ![q] = [rv |-> hrev + 1, val |-> v, src |-> o]]
        PROVE  r = s
    BY <1>1, <1>2, <1>3, <2>3 DEF HostVersions, Exists
  <2> QED
    BY <2>1, <2>2, <2>3 DEF SlotMove
<1> QED
  BY <1>3 DEF HostVersions
-----------------------------------------------------------------------------
(***************************************************************************)
(* What the worker holds during a pass                                     *)
(***************************************************************************)

\* The objects still to do.
LEMMA TodoStep ==
  ASSUME TypeOK, TodoListed, [Next]_vars
  PROVE  TodoListed'
<1>1. CASE UNCHANGED <<idx, snap>> /\ todo' \subseteq todo /\ pc \in {"pair", "write", "gc"}
  BY <1>1 DEF TodoListed, Kind
<1>2. CASE UNCHANGED <<idx, snap, todo, pc>>
  BY <1>2 DEF TodoListed, Kind
<1>3. CASE pc' \in {"idle", "list"}
  BY <1>3 DEF TodoListed
<1>4. CASE StartRun \/ FinishPass \/ Restart
  BY <1>3, <1>4 DEF StartRun, FinishPass, Restart, EndPass
<1>5. CASE ListVirtual
  <2>1. CASE EndPass
    BY <1>3, <2>1 DEF EndPass
  <2>2. CASE ~EndPass
    BY <1>5, <2>2 DEF ListVirtual, TodoListed, Eligible, Kind
  <2> QED
    BY <2>1, <2>2
<1>6. CASE ReconcilePair
  BY <1>1, <1>6 DEF ReconcilePair, LeaveAlone, Throttled, PlanWrite, GetFails, PairDone
<1>7. CASE Write
  BY <1>1, <1>7 DEF Write, CreateHost, PushToHost, PullToTenant, WriteFails, HostWriteAnswered,
     PairDone, passVars
<1>8. CASE ListHost
  BY <1>1, <1>8 DEF ListHost, pairVars
<1>9. CASE DeleteOrphan \/ CacheSync \/ Refill \/ UNCHANGED vars
  BY <1>2, <1>9 DEF DeleteOrphan, CacheSync, Refill, vars, passVars, pairVars
<1>10. ASSUME NEW op, Outside(op) PROVE TodoListed'
  BY <1>2, <1>10 DEF Outside, passVars, pairVars
<1>11. CASE Environment
  BY <1>10, <1>11 DEF Environment, TenantCreate, TenantEdit, TenantDelete, TenantTouch,
     HostEdit, HostDelete, ForeignCreate, HostTouch, HostSchedule, TenantReset
<1> QED
  BY <1>4, <1>5, <1>6, <1>7, <1>8, <1>9, <1>11 DEF Next, Worker

\* The host object of the pair at hand: only a decision to write keeps it, and
\* no step changes it in place.
LEMMA SeenMoves ==
  ASSUME SeenIdentified, [Next]_vars
  PROVE  \/ pc' # "write" /\ seen' = NoHostObject
         \/ pc = "write" /\ pc' = "write" /\ UNCHANGED <<plan, seen, cur>>
         \/ UNCHANGED <<host, hrev>> /\ \E o \in todo : PlanWrite(o)
<1>1. CASE ReconcilePair
  BY <1>1 DEF ReconcilePair, LeaveAlone, Throttled, GetFails, PairDone, storeVars
<1>2. CASE Write
  BY <1>2 DEF Write, CreateHost, PushToHost, PullToTenant, WriteFails, HostWriteAnswered, PairDone
<1>3. ASSUME pc # "write", pc' # "write", seen' = seen
      PROVE  pc' # "write" /\ seen' = NoHostObject
  BY <1>3 DEF SeenIdentified
<1>4. CASE StartRun \/ ListHost
  BY <1>3, <1>4 DEF StartRun, ListHost, pairVars
<1>5. CASE ListVirtual \/ FinishPass \/ Restart
  BY <1>3, <1>5 DEF ListVirtual, FinishPass, Restart, EndPass
<1>6. CASE DeleteOrphan
  BY <1>3, <1>6 DEF DeleteOrphan, pairVars
<1>7. ASSUME UNCHANGED <<pc, plan, seen, cur>>
      PROVE  \/ pc' # "write" /\ seen' = NoHostObject
             \/ pc = "write" /\ pc' = "write" /\ UNCHANGED <<plan, seen, cur>>
  BY <1>7 DEF SeenIdentified
<1>8. CASE CacheSync \/ Refill \/ UNCHANGED vars
  BY <1>7, <1>8 DEF CacheSync, Refill, vars, pairVars
<1>9. ASSUME NEW op, Outside(op) PROVE UNCHANGED <<pc, plan, seen, cur>>
  BY <1>9 DEF Outside, pairVars
<1>10. CASE Environment
  BY <1>7, <1>9, <1>10 DEF Environment, TenantCreate, TenantEdit, TenantDelete, TenantTouch,
     HostEdit, HostDelete, ForeignCreate, HostTouch, HostSchedule, TenantReset
<1> QED
  BY <1>1, <1>2, <1>4, <1>5, <1>6, <1>8, <1>10 DEF Next, Worker

\* The copies the engine holds stay copies: a step reads a current object, drops
\* one, or leaves them.
LEMMA SeenStep ==
  ASSUME TypeOK, TypeOK', VersionsBounded, HostVersions, SeenIdentified, TenantMove, SlotMove,
         [Next]_vars
  PROVE  SeenIdentified'
<1>1. /\ host \in [Slots -> HostObject] /\ host' \in [Slots -> HostObject]
      /\ hrev \in Nat /\ hrev' \in Nat /\ seen \in HostObject /\ hrev <= hrev'
  BY OldVersions DEF TypeOK, StoreTypes, PairTypes
<1>2. CASE pc' # "write" /\ seen' = NoHostObject
  BY <1>2 DEF SeenIdentified, NoHostObject
<1>3. CASE pc = "write" /\ pc' = "write" /\ UNCHANGED <<plan, seen, cur>>
  <2>1. CASE plan = "create"
    BY <1>3, <2>1 DEF SeenIdentified
  <2>2. CASE plan \in {"push", "pull"}
    <3>1. /\ Exists(seen) /\ seen.rv <= hrev /\ seen.src = cur
          /\ \A s \in Slots : host[s].rv = seen.rv => s = Slot(cur) /\ host[s] = seen
      BY <1>3, <2>2 DEF SeenIdentified
    <3>2. ASSUME NEW s \in Slots, host'[s].rv = seen.rv PROVE s = Slot(cur) /\ host'[s] = seen
      BY <1>1, <3>1, <3>2, OldVersions DEF Exists, HostObject
    <3>3. seen.rv <= hrev'
      BY <1>1, <3>1 DEF HostObject
    <3> QED
      BY <1>3, <2>2, <3>1, <3>2, <3>3 DEF SeenIdentified, Slot
  <2>3. CASE plan = "none"
    BY <1>3, <2>3 DEF SeenIdentified
  <2> QED
    BY <2>1, <2>2, <2>3 DEF TypeOK, PairTypes
<1>4. ASSUME NEW o \in todo, PlanWrite(o), UNCHANGED <<host, hrev>> PROVE SeenIdentified'
  <2>1. o \in Obj /\ Slot(o) \in Slots
    BY SlotOK DEF TypeOK, PairTypes
  <2>2. seen' = host[Slot(o)] /\ cur' = o /\ pc' = "write"
    BY <1>4 DEF PlanWrite
  <2>3. CASE plan' = "create"
    BY <1>4, <2>2, <2>3 DEF PlanWrite, NeedsCreate, SeenIdentified
  <2>4. CASE plan' \in {"push", "pull"}
    <3>1. MirrorOf(o, host[Slot(o)])
      BY <1>4, <2>4 DEF PlanWrite, NeedsPush, NeedsPull
    <3>2. Exists(seen') /\ seen'.src = cur' /\ seen'.rv <= hrev'
      BY <1>4, <2>1, <2>2, <3>1 DEF MirrorOf, MadeFrom, VersionsBounded
    <3>3. ASSUME NEW s \in Slots, host'[s].rv = seen'.rv PROVE s = Slot(cur') /\ host'[s] = seen'
      BY <1>4, <2>1, <2>2, <3>2, <3>3 DEF HostVersions, Exists
    <3> QED
      BY <2>2, <2>4, <3>2, <3>3 DEF SeenIdentified, Slot
  <2> QED
    BY <1>4, <2>3, <2>4 DEF PlanWrite
<1> QED
  BY <1>2, <1>3, <1>4, SeenMoves

-----------------------------------------------------------------------------
(***************************************************************************)
(* The history                                                             *)
(***************************************************************************)

\* A user's edit gives the object a new version.
LEMMA EditsAreNew ==
  ASSUME TypeOK, [Next]_vars
  PROVE  /\ \A o \in dirtyT' \ dirtyT : tenant'[o].rv = trev + 1
         /\ \A s \in dirtyH' \ dirtyH : host'[s].rv = hrev + 1 /\ hrev' = hrev + 1
<1>1. /\ tenant \in [Obj -> TenantObject] /\ host \in [Slots -> HostObject]
      /\ trev \in Nat /\ hrev \in Nat
  BY DEF TypeOK, StoreTypes
<1>2. CASE dirtyT' \subseteq dirtyT /\ dirtyH' \subseteq dirtyH
  BY <1>2
<1>3. CASE StartRun \/ ListVirtual \/ ListHost \/ DeleteOrphan \/ FinishPass
           \/ Restart \/ CacheSync \/ Refill \/ UNCHANGED vars
  BY <1>2, <1>3 DEF StartRun, ListVirtual, ListHost, DeleteOrphan, DeleteHost, FinishPass,
     Restart, CacheSync, Refill, vars, ghostVars
<1>4. CASE ReconcilePair
  BY <1>2, <1>4 DEF ReconcilePair, LeaveAlone, Throttled, PlanWrite, GetFails, ghostVars
<1>5. CASE Write
  BY <1>2, <1>5 DEF Write, CreateHost, PushToHost, PullToTenant, WriteFails, HostWriteAnswered,
     ghostVars
<1>6. ASSUME NEW o \in Obj, NEW c, TenantCreate(o, c)
      PROVE  tenant'[o].rv = trev + 1
  BY <1>1, <1>6 DEF TenantCreate, PutTenant
<1>7. ASSUME NEW o \in Obj, NEW f, TenantEdit(o, f)
      PROVE  tenant'[o].rv = trev + 1
  <2>1. [tenant[o].val EXCEPT !.free = f] # tenant[o].val
    BY <1>1, <1>7 DEF TenantEdit, TenantObject, Content
  <2> QED
    BY <1>1, <1>7, <2>1 DEF TenantEdit, PutTenant
<1>8. ASSUME NEW s \in Slots, NEW f, HostEdit(s, f)
      PROVE  host'[s].rv = hrev + 1 /\ hrev' = hrev + 1
  <2>1. [host[s].val EXCEPT !.free = f] # host[s].val
    BY <1>1, <1>8 DEF HostEdit, HostObject, Content
  <2> QED
    BY <1>1, <1>8, <2>1 DEF HostEdit, PutHost
<1>9. ASSUME NEW o \in Obj,
             \/ \E c \in TenantContents(KindOf[o]) : TenantCreate(o, c)
             \/ \E f \in Frees : TenantEdit(o, f)
             \/ TenantDelete(o) \/ TenantTouch(o)
      PROVE  /\ \A p \in dirtyT' \ dirtyT : tenant'[p].rv = trev + 1
             /\ dirtyH' = dirtyH
  BY <1>6, <1>7, <1>9 DEF TenantCreate, TenantEdit, TenantDelete, TenantTouch, ghostVars
<1>10. ASSUME NEW s \in Slots,
              \/ \E f \in Frees : HostEdit(s, f)
              \/ HostDelete(s) \/ ForeignCreate(s) \/ HostTouch(s) \/ HostSchedule(s)
       PROVE  /\ \A r \in dirtyH' \ dirtyH : host'[r].rv = hrev + 1 /\ hrev' = hrev + 1
              /\ dirtyT' = dirtyT
  BY <1>8, <1>10 DEF HostEdit, HostDelete, ForeignCreate, HostTouch, HostSchedule, ghostVars
<1>11. CASE TenantReset
  BY <1>2, <1>11 DEF TenantReset
<1> QED
  BY <1>3, <1>4, <1>5, <1>9, <1>10, <1>11 DEF Next, Worker, Environment

\* An unseen edit is an edit of an object that is there.
LEMMA EditsPlacedStep ==
  ASSUME TypeOK, EditsPlaced, [Next]_vars
  PROVE  EditsPlaced'
<1>1. host \in [Slots -> HostObject] /\ hrev \in Nat /\ dirtyH \subseteq Slots
  BY DEF TypeOK, StoreTypes, BookkeepingTypes
<1>2. ASSUME NEW s \in dirtyH' \ dirtyH PROVE Exists(host'[s])
  BY <1>1, <1>2, EditsAreNew DEF Exists
<1>3. ASSUME NEW s \in dirtyH, s \in dirtyH' PROVE Exists(host'[s])
  <2>1. Exists(host[s]) /\ s \in Slots
    BY <1>1, <1>3 DEF EditsPlaced
  <2>2. CASE UNCHANGED host
    BY <2>1, <2>2
  <2>3. ASSUME NEW r \in Slots, NEW v, NEW o, PutHost(r, v, o) PROVE Exists(host'[s])
    BY <1>1, <2>1, <2>3 DEF PutHost, Exists
  <2>4. ASSUME NEW r \in Slots, host' = [host EXCEPT ![r] = NoHostObject], dirtyH' = dirtyH \ {r}
        PROVE  Exists(host'[s])
    BY <1>1, <1>3, <2>1, <2>4
  <2>5. CASE StartRun \/ ListVirtual \/ ReconcilePair \/ ListHost \/ FinishPass
             \/ Restart \/ CacheSync \/ Refill \/ UNCHANGED vars
    BY <2>2, <2>5 DEF StartRun, ListVirtual, ReconcilePair, ListHost, FinishPass,
       Restart, CacheSync, Refill, vars, storeVars
  <2>6. CASE Write
    <3>1. cur \in Obj /\ Slot(cur) \in Slots
      BY <2>6, WriteContents DEF Write
    <3> QED
      BY <2>2, <2>3, <2>6, <3>1
      DEF Write, CreateHost, PushToHost, PullToTenant, WriteFails, storeVars
  <2>7. CASE DeleteOrphan
    BY <2>2, <2>4, <2>7 DEF DeleteOrphan, DeleteHost, TypeOK, PassTypes
  <2>8. ASSUME NEW r \in Slots,
               \/ \E f \in Frees : HostEdit(r, f)
               \/ HostDelete(r) \/ ForeignCreate(r) \/ HostSchedule(r)
        PROVE  Exists(host'[s])
    BY <2>3, <2>4, <2>8 DEF HostEdit, HostDelete, ForeignCreate, HostSchedule
  <2>9. ASSUME NEW r \in Slots, HostTouch(r) PROVE Exists(host'[s])
    BY <1>1, <2>1, <2>9 DEF HostTouch, Exists
  <2>10. ASSUME NEW o \in Obj,
                \/ \E c \in TenantContents(KindOf[o]) : TenantCreate(o, c)
                \/ \E f \in Frees : TenantEdit(o, f)
                \/ TenantDelete(o) \/ TenantTouch(o)
         PROVE  Exists(host'[s])
    BY <2>2, <2>10 DEF TenantCreate, TenantEdit, TenantDelete, TenantTouch
  <2>11. CASE TenantReset
    BY <2>2, <2>11 DEF TenantReset
  <2> QED
    BY <2>5, <2>6, <2>7, <2>8, <2>9, <2>10, <2>11 DEF Next, Worker, Environment
<1> QED
  BY <1>2, <1>3 DEF EditsPlaced

\* m is sound after the step.
SoundAfter(m) ==
  /\ \A n \in Names : m[n].t <= trev' /\ m[n].h <= hrev'
  /\ \A o \in Obj :
       /\ Exists(tenant'[o]) /\ tenant'[o].rv = m[HostName[o]].t
       /\ Exists(host'[Slot(o)]) /\ host'[Slot(o)].rv = m[HostName[o]].h
       => PairAgrees(o)'
  /\ \A o \in Obj : Exists(tenant'[o]) /\ tenant'[o].rv = m[HostName[o]].t => o \notin dirtyT'
  /\ \A s \in Slots : Exists(host'[s]) /\ host'[s].rv = m[s[2]].h => s \notin dirtyH'

\* The second component of a slot is a name.
LEMMA SlotName == \A s \in Slots : s[2] \in Names
  BY DEF Slots, Slot, Names

\* A history that is sound stays so: a write to either object of a pair gives it
\* a version that is not in the history.
LEMMA SoundKept ==
  ASSUME TypeOK, TypeOK', TenantMove, SlotMove, [Next]_vars, NEW m \in History, Sound(m)
  PROVE  SoundAfter(m)
<1>1. /\ trev \in Nat /\ hrev \in Nat /\ trev' \in Nat /\ hrev' \in Nat
      /\ trev <= trev' /\ hrev <= hrev'
      /\ \A n \in Names : m[n].t \in Nat /\ m[n].h \in Nat /\ m[n].t <= trev /\ m[n].h <= hrev
  BY OldVersions DEF TypeOK, StoreTypes, History, Entry, Sound, GivenOut
<1>2. ASSUME NEW n \in Names PROVE m[n].t <= trev' /\ m[n].h <= hrev'
  BY <1>1
<1>3. ASSUME NEW o \in Obj, Exists(tenant'[o]), tenant'[o].rv = m[HostName[o]].t
      PROVE  tenant'[o] = tenant[o] /\ o \notin dirtyT'
  <2>1. tenant'[o] = tenant[o] /\ tenant'[o].rv <= trev
    BY <1>1, <1>3, SlotOK, OldVersions
  <2>2. o \notin dirtyT
    BY <1>3, <2>1 DEF Sound, Clean
  <2> QED
    BY <1>1, <2>1, <2>2, EditsAreNew
<1>4. ASSUME NEW s \in Slots, Exists(host'[s]), host'[s].rv = m[s[2]].h
      PROVE  host'[s] = host[s] /\ s \notin dirtyH'
  <2>1. host'[s] = host[s] /\ host'[s].rv <= hrev
    BY <1>1, <1>4, SlotName, OldVersions
  <2>2. s \notin dirtyH
    BY <1>4, <2>1 DEF Sound, Clean
  <2> QED
    BY <1>1, <2>1, <2>2, EditsAreNew
<1>5. ASSUME NEW o \in Obj,
             Exists(tenant'[o]), tenant'[o].rv = m[HostName[o]].t,
             Exists(host'[Slot(o)]), host'[Slot(o)].rv = m[HostName[o]].h
      PROVE  PairAgrees(o)'
  <2>1. Slot(o) \in Slots /\ Slot(o)[2] = HostName[o]
    BY SlotOK DEF Slot
  <2>2. tenant'[o] = tenant[o] /\ host'[Slot(o)] = host[Slot(o)]
    BY <1>3, <1>4, <1>5, <2>1
  <2>3. PairAgrees(o)
    BY <1>5, <2>2 DEF Sound, Truthful
  <2> QED
    BY <2>2, <2>3 DEF PairAgrees, MirrorOf, MadeFrom, Exists, Slot
<1> QED
  BY <1>2, <1>3, <1>4, <1>5 DEF SoundAfter

\* After the step, version t is one o had or has, h one its mirror had or has;
\* if they still have them, no edit of theirs is unseen and they agree.
Earned(o, t, h) ==
  /\ t <= trev' /\ h <= hrev'
  /\ \A p \in Obj : Exists(tenant'[p]) /\ tenant'[p].rv = t => p = o /\ o \notin dirtyT'
  /\ \A s \in Slots : Exists(host'[s]) /\ host'[s].rv = h => s = Slot(o) /\ s \notin dirtyH'
  /\ Exists(tenant'[o]) /\ tenant'[o].rv = t /\ Exists(host'[Slot(o)]) /\ host'[Slot(o)].rv = h
     => PairAgrees(o)'

\* setConverged with such a pair of versions leaves a sound history, even where
\* objects of several kinds share the entry.
LEMMA ConvergedSound ==
  ASSUME hist \in History, SoundAfter(hist), NEW o \in Obj, NEW t \in Nat, NEW h \in Nat,
         Earned(o, t, h)
  PROVE  SoundAfter(Converged(HostName[o], t, h))
<1> DEFINE m == Converged(HostName[o], t, h)
<1>1. /\ HostName[o] \in Names
      /\ m[HostName[o]] = [t |-> t, h |-> h]
      /\ \A n \in Names : n # HostName[o] => m[n] = hist[n]
  BY SlotOK DEF Converged, History
<1> HIDE DEF m
<1>2. ASSUME NEW n \in Names PROVE m[n].t <= trev' /\ m[n].h <= hrev'
  BY <1>1, <1>2 DEF SoundAfter, Earned
<1>3. ASSUME NEW p \in Obj, Exists(tenant'[p]), tenant'[p].rv = m[HostName[p]].t
      PROVE  p \notin dirtyT' /\ (HostName[p] = HostName[o] => p = o)
  BY <1>1, <1>3, SlotOK DEF SoundAfter, Earned
<1>4. ASSUME NEW s \in Slots, Exists(host'[s]), host'[s].rv = m[s[2]].h PROVE s \notin dirtyH'
  BY <1>1, <1>4, SlotName DEF SoundAfter, Earned
<1>5. ASSUME NEW p \in Obj,
             Exists(tenant'[p]), tenant'[p].rv = m[HostName[p]].t,
             Exists(host'[Slot(p)]), host'[Slot(p)].rv = m[HostName[p]].h
      PROVE  PairAgrees(p)'
  <2>1. CASE HostName[p] = HostName[o]
    <3>1. p = o /\ tenant'[o].rv = t /\ host'[Slot(o)].rv = h
      BY <1>1, <1>3, <1>5, <2>1
    <3>2. PairAgrees(o)'
      BY <1>5, <3>1 DEF Earned
    <3> QED
      BY <3>1, <3>2
  <2>2. CASE HostName[p] # HostName[o]
    BY <1>1, <1>5, <2>2, SlotOK DEF SoundAfter
  <2> QED
    BY <2>1, <2>2
<1> QED
  BY <1>2, <1>3, <1>4, <1>5 DEF SoundAfter, m

\* A pair reconcilePair finds in agreement.
LEMMA AgreementEarned ==
  ASSUME HistoryInv, NoPods, NEW o \in todo, pc = "pair", LeaveAlone(o),
         UNCHANGED storeVars, NewBaseline(o, host[Slot(o)])
  PROVE  Earned(o, snap[o].rv, host[Slot(o)].rv)
<1>1. /\ TypeOK /\ TenantVersions /\ HostVersions /\ VersionsBounded
      /\ o \in Obj /\ Slot(o) \in Slots /\ KindOf[o] = Kind /\ Exists(snap[o])
      /\ UNCHANGED <<tenant, trev, host, hrev>>
  BY SlotOK DEF HistoryInv, ProvenanceInv, TodoListed, TypeOK, PairTypes, storeVars
<1>2. MirrorOf(o, host[Slot(o)]) /\ Agrees(o, host[Slot(o)]) /\ Direction # "toHost"
  BY DEF NewBaseline
<1>3. snap[o].rv <= trev' /\ host[Slot(o)].rv <= hrev'
  BY <1>1 DEF TenantVersions, VersionsBounded
<1>4. dirtyH' = dirtyH \ {Slot(o)} /\ (tenant[o].rv = snap[o].rv => dirtyT' = dirtyT \ {o})
  BY <1>2 DEF LeaveAlone
<1>5. ASSUME NEW p \in Obj, Exists(tenant'[p]), tenant'[p].rv = snap[o].rv
      PROVE  p = o /\ o \notin dirtyT' /\ tenant'[o].val = snap[o].val
  BY <1>1, <1>4, <1>5 DEF TenantVersions
<1>6. ASSUME NEW s \in Slots, Exists(host'[s]), host'[s].rv = host[Slot(o)].rv
      PROVE  s = Slot(o) /\ s \notin dirtyH'
  BY <1>1, <1>4, <1>6 DEF HostVersions
<1>7. ASSUME Exists(tenant'[o]), tenant'[o].rv = snap[o].rv PROVE PairAgrees(o)'
  <2>1. tenant'[o].val = snap[o].val /\ host'[Slot(o)] = host[Slot(o)]
    BY <1>1, <1>5, <1>7
  <2>2. ContentEqual(KindOf[o], tenant'[o].val,
                     ComparableHost(KindOf[o], host'[Slot(o)].val, Required))
    BY <1>1, <1>2, <2>1 DEF Agrees
  <2> QED
    BY <1>2, <2>1, <2>2 DEF PairAgrees, MirrorOf, MadeFrom, Exists, Slot
<1> QED
  BY <1>3, <1>5, <1>6, <1>7 DEF Earned

\* A Pod is never at hand.
LEMMA NoPodAtHand ==
  ASSUME TypeOK, TodoListed, NoPods, pc = "write"
  PROVE  KindOf[cur] = Kind /\ Kind # "Pod" /\ Exists(snap[cur])
  BY WriteContents DEF TypeOK, PairTypes, TodoListed, NoPods, Kinds

\* After the create of reconcilePair or pushToHost the mirror has the content
\* that was listed.
LEMMA HostWriteEffect ==
  ASSUME HistoryInv, NoPods, pc = "write", CreateHost \/ PushToHost
  PROVE  /\ UNCHANGED <<tenant, trev>>
         /\ Exists(host'[Slot(cur)]) /\ host'[Slot(cur)].src = cur
         /\ ContentEqual(KindOf[cur], snap[cur].val,
                         ComparableHost(KindOf[cur], host'[Slot(cur)].val, Required))
         /\ Slot(cur) \notin dirtyH'
<1>1. /\ TypeOK /\ cur \in Obj /\ Slot(cur) \in Slots /\ KindOf[cur] = Kind /\ Kind # "Pod"
      /\ snap[cur].val \in Content /\ seen.val \in Content
      /\ CreatedContent \in Content /\ PushedContent \in Content
      /\ host \in [Slots -> HostObject] /\ hrev \in Nat
  BY WriteContents, NoPodAtHand DEF HistoryInv, ProvenanceInv, TypeOK, StoreTypes
<1>2. ASSUME NEW v, PutHost(Slot(cur), v, cur)
      PROVE  Exists(host'[Slot(cur)]) /\ host'[Slot(cur)].src = cur /\ host'[Slot(cur)].val = v
  BY <1>1, <1>2 DEF PutHost, Exists
<1>3. CASE CreateHost
  <2>1. PutHost(Slot(cur), CreatedContent, cur) /\ UNCHANGED <<tenant, trev, dirtyH>>
        /\ ~Exists(host[Slot(cur)])
    BY <1>3 DEF CreateHost, CreateAccepted
  <2>2. Slot(cur) \notin dirtyH
    BY <2>1 DEF HistoryInv, EditsPlaced
  <2>3. ContentEqual(Kind, snap[cur].val, CreatedContent)
    BY <1>1, WritesAgree DEF CreatedContent, DesiredContent
  <2>4. ComparableHost(Kind, CreatedContent, Required) = CreatedContent
    BY <1>1, WritesAgree
  <2> QED
    BY <1>1, <1>2, <2>1, <2>2, <2>3, <2>4
<1>4. CASE PushToHost
  <2>1. PutHost(Slot(cur), PushedContent, cur) /\ UNCHANGED <<tenant, trev>>
        /\ dirtyH' = dirtyH \ {Slot(cur)}
    BY <1>4 DEF PushToHost
  <2>3. ContentEqual(Kind, snap[cur].val, PushedContent)
    BY <1>1, WritesAgree DEF PushedContent, DesiredContent
  <2>4. ComparableHost(Kind, PushedContent, Required) = PushedContent
    BY <1>1, WritesAgree
  <2> QED
    BY <1>1, <1>2, <2>1, <2>3, <2>4
<1> QED
  BY <1>3, <1>4

\* So the versions listed and answered are a baseline.
LEMMA HostWriteEarned ==
  ASSUME HistoryInv, VersionsBounded', HostVersions', NoPods, pc = "write",
         CreateHost \/ PushToHost, hist' # hist, NEW o \in Obj, o = cur
  PROVE  Earned(o, snap[o].rv, host'[Slot(o)].rv)
<1>1. /\ TypeOK /\ TenantVersions /\ VersionsBounded'
      /\ Slot(o) \in Slots /\ KindOf[o] = Kind /\ Exists(snap[o])
  BY WriteContents, NoPodAtHand DEF HistoryInv, ProvenanceInv
<1>2. /\ UNCHANGED <<tenant, trev>>
      /\ Exists(host'[Slot(o)]) /\ host'[Slot(o)].src = o
      /\ ContentEqual(KindOf[o], snap[o].val,
                      ComparableHost(KindOf[o], host'[Slot(o)].val, Required))
      /\ Slot(o) \notin dirtyH'
  BY HostWriteEffect
<1>3. snap[o].rv <= trev' /\ host'[Slot(o)].rv <= hrev'
  BY <1>1, <1>2 DEF TenantVersions, VersionsBounded
<1>4. tenant[o].rv = snap[o].rv => dirtyT' = dirtyT \ {o}
  BY <1>1, <1>2 DEF CreateHost, PushToHost, HostWriteAnswered, TenantSettled
<1>5. ASSUME NEW p \in Obj, Exists(tenant'[p]), tenant'[p].rv = snap[o].rv
      PROVE  p = o /\ o \notin dirtyT' /\ tenant'[o].val = snap[o].val
  BY <1>1, <1>2, <1>4, <1>5 DEF TenantVersions
<1>6. ASSUME NEW s \in Slots, Exists(host'[s]), host'[s].rv = host'[Slot(o)].rv
      PROVE  s = Slot(o) /\ s \notin dirtyH'
  BY <1>1, <1>2, <1>6 DEF HostVersions
<1>7. ASSUME Exists(tenant'[o]), tenant'[o].rv = snap[o].rv PROVE PairAgrees(o)'
  BY <1>2, <1>5, <1>7 DEF PairAgrees, MirrorOf, MadeFrom, Exists, Slot
<1> QED
  BY <1>3, <1>5, <1>6, <1>7 DEF Earned

\* After pullToTenant the tenant object has the content that was read, and the
\* version it got and the version that was read are a baseline.
LEMMA PullEarned ==
  ASSUME HistoryInv, TenantVersions', NoPods, pc = "write", PullToTenant,
         NEW o \in Obj, o = cur
  PROVE  Earned(o, tenant'[o].rv, seen.rv)
<1>1. /\ TypeOK /\ TenantVersions /\ VersionsBounded
      /\ Slot(o) \in Slots /\ KindOf[o] = Kind /\ Kind # "Pod" /\ seen.val \in Content
      /\ tenant \in [Obj -> TenantObject] /\ trev \in Nat
  BY WriteContents, NoPodAtHand DEF HistoryInv, ProvenanceInv, TypeOK, StoreTypes
<1>2. /\ UNCHANGED <<host, hrev>> /\ dirtyT' = dirtyT \ {o} /\ PutTenant(o, PulledContent)
      /\ host[Slot(o)].rv = seen.rv => dirtyH' = dirtyH \ {Slot(o)}
  BY DEF PullToTenant
<1>3. /\ Exists(seen) /\ seen.rv <= hrev /\ seen.src = o
      /\ \A s \in Slots : host[s].rv = seen.rv => s = Slot(o) /\ host[s] = seen
  BY DEF HistoryInv, SeenIdentified, PullToTenant
<1>4. Exists(tenant'[o]) /\ tenant'[o].val = PulledContent
  BY <1>1, <1>2 DEF PutTenant, Exists
<1>5. ComparableHost(Kind, seen.val, Required) = seen.val
      /\ ContentEqual(Kind, PulledContent, seen.val)
  BY <1>1, WritesAgree DEF PulledContent
<1>6. tenant'[o].rv <= trev' /\ seen.rv <= hrev'
  BY <1>2, <1>3 DEF TenantVersions
<1>7. ASSUME NEW p \in Obj, Exists(tenant'[p]), tenant'[p].rv = tenant'[o].rv
      PROVE  p = o /\ o \notin dirtyT'
  BY <1>2, <1>7 DEF TenantVersions
<1>8. ASSUME NEW s \in Slots, Exists(host'[s]), host'[s].rv = seen.rv
      PROVE  s = Slot(o) /\ s \notin dirtyH' /\ host'[s] = seen
  BY <1>2, <1>3, <1>8
<1>9. ASSUME Exists(host'[Slot(o)]), host'[Slot(o)].rv = seen.rv PROVE PairAgrees(o)'
  BY <1>1, <1>3, <1>4, <1>5, <1>8, <1>9 DEF PairAgrees, MirrorOf, MadeFrom, Exists, Slot
<1> QED
  BY <1>6, <1>7, <1>8, <1>9 DEF Earned

\* The history of the engine is sound after every step: it is kept, dropped,
\* loaded from the informer's copy, or has a new baseline.
LEMMA HistoryStep ==
  ASSUME HistoryInv, TypeOK', VersionsBounded', HostVersions', TenantVersions',
         SoundAfter(hist), SoundAfter(cached.hist), SoundAfter(NoHistory), NoPods, [Next]_vars
  PROVE  SoundAfter(hist')
<1>1. TypeOK /\ hist \in History
  BY DEF HistoryInv, ProvenanceInv, TypeOK, HistoryTypes
<1>2. CASE hist' \in {hist, NoHistory, cached.hist}
  BY <1>2
<1>3. CASE ReconcilePair
  <2>1. PICK o \in todo : LeaveAlone(o) \/ Throttled(o) \/ PlanWrite(o) \/ GetFails(o)
    BY <1>3 DEF ReconcilePair
  <2>2. pc = "pair" /\ UNCHANGED storeVars /\ o \in Obj
    BY <1>1, <1>3 DEF ReconcilePair, TypeOK, PairTypes
  <2>3. CASE LeaveAlone(o) /\ NewBaseline(o, host[Slot(o)])
    <3>1. hist' = Converged(HostName[o], snap[o].rv, host[Slot(o)].rv)
      BY <2>3 DEF LeaveAlone
    <3>2. snap[o].rv \in Nat /\ host[Slot(o)].rv \in Nat
      BY <1>1, <2>2, SlotOK DEF TypeOK, StoreTypes, PassTypes, TenantObject, HostObject
    <3> QED
      BY <1>1, <2>2, <2>3, <3>1, <3>2, AgreementEarned, ConvergedSound
  <2>4. CASE LeaveAlone(o) /\ ~NewBaseline(o, host[Slot(o)])
    BY <1>2, <2>4 DEF LeaveAlone
  <2> QED
    BY <1>2, <2>1, <2>3, <2>4 DEF Throttled, PlanWrite, GetFails
<1>4. CASE Write
  <2>1. PICK o \in Obj : o = cur
    BY <1>1, <1>4, WriteContents DEF Write
  <2>2. /\ pc = "write" /\ snap[o].rv \in Nat /\ host'[Slot(o)].rv \in Nat
        /\ tenant'[o].rv \in Nat /\ seen.rv \in Nat
    BY <1>1, <1>4, SlotOK
    DEF Write, TypeOK, StoreTypes, PassTypes, PairTypes, TenantObject, HostObject
  <2>3. CASE (CreateHost \/ PushToHost) /\ hist' # hist
    <3>1. hist' = Converged(HostName[o], snap[o].rv, host'[Slot(o)].rv)
      BY <2>1, <2>3 DEF CreateHost, PushToHost, HostWriteAnswered
    <3> QED
      BY <1>1, <2>1, <2>2, <2>3, <3>1, HostWriteEarned, ConvergedSound
  <2>4. CASE PullToTenant /\ hist' # hist
    <3>1. hist' = Converged(HostName[o], tenant'[o].rv, seen.rv)
      BY <2>1, <2>4 DEF PullToTenant
    <3> QED
      BY <1>1, <2>1, <2>2, <2>4, <3>1, PullEarned, ConvergedSound
  <2> QED
    BY <1>2, <1>4, <2>3, <2>4 DEF Write, WriteFails
<1>5. CASE StartRun \/ ListVirtual \/ ListHost \/ DeleteOrphan \/ FinishPass
           \/ Restart \/ CacheSync \/ Refill \/ UNCHANGED vars
  BY <1>2, <1>5 DEF StartRun, ListVirtual, ListHost, DeleteOrphan, FinishPass, EndPass,
     Restart, CacheSync, Refill, vars
<1>6. ASSUME NEW op, Outside(op) PROVE hist' = hist
  BY <1>6 DEF Outside
<1>7. CASE Environment
  BY <1>2, <1>6, <1>7 DEF Environment, TenantCreate, TenantEdit, TenantDelete, TenantTouch,
     HostEdit, HostDelete, ForeignCreate, HostTouch, HostSchedule, TenantReset
<1> QED
  BY <1>3, <1>4, <1>5, <1>7 DEF Next, Worker

\* The SyncDecision object and the informer's copy get their history from the
\* engine's, from each other, or have none.
LEMMA StoredHistories ==
  ASSUME [Next]_vars
  PROVE  /\ saved'.hist \in {hist, saved.hist, NoHistory}
         /\ cached'.hist \in {cached.hist, hist, saved.hist, NoHistory}
<1>1. CASE UNCHANGED decisionVars
  BY <1>1 DEF decisionVars
<1>2. ASSUME NEW m, PutDecisions([exists |-> TRUE, hist |-> m])
      PROVE  saved'.hist = m /\ cached'.hist \in {cached.hist, m}
  BY <1>2 DEF PutDecisions
<1>3. CASE FinishPass
  BY <1>1, <1>2, <1>3 DEF FinishPass, StoreDecisions
<1>4. CASE CacheSync
  BY <1>4 DEF CacheSync
<1>5. ASSUME NEW op, Outside(op) PROVE UNCHANGED decisionVars
  BY <1>5 DEF Outside
<1>6. CASE Environment
  BY <1>1, <1>5, <1>6 DEF Environment, TenantCreate, TenantEdit, TenantDelete, TenantTouch,
     HostEdit, HostDelete, ForeignCreate, HostTouch, HostSchedule, TenantReset
<1> QED
  BY <1>1, <1>3, <1>4, <1>6 DEF Next, Worker, StartRun, ListVirtual, ReconcilePair, Write, ListHost,
     DeleteOrphan, Restart, Refill, vars

\* No history is a sound one.
LEMMA NoHistorySound == TypeOK => Sound(NoHistory)
<1> SUFFICES ASSUME TypeOK PROVE Sound(NoHistory)
  OBVIOUS
<1>1. \A n \in Names : NoHistory[n].t = 0 /\ NoHistory[n].h = 0
  BY DEF NoHistory, NoEntry
<1>2. trev \in Nat /\ hrev \in Nat
  BY DEF TypeOK, StoreTypes
<1> QED
  BY <1>1, <1>2, SlotOK, SlotName DEF Sound, GivenOut, Truthful, Clean, Exists
-----------------------------------------------------------------------------
\* Nothing is recorded at the start.
LEMMA HistoryInvInit == Init => HistoryInv
<1> SUFFICES ASSUME Init PROVE HistoryInv
  OBVIOUS
<1>1. TypeOK /\ ProvenanceInv
  <2>1. VersionsBounded /\ PendingPush /\ MirrorsPlaced
    BY DEF Init, VersionsBounded, PendingPush, MirrorsPlaced, NoHostObject, Managed, Exists
  <2>2. ListedCovered /\ OrphansListed
    BY DEF Init, ListedCovered, OrphansListed
  <2> QED
    BY <2>1, <2>2, InitTypes DEF ProvenanceInv
<1>2. TenantVersions /\ HostVersions
  BY DEF Init, TenantVersions, HostVersions, NothingListed, NoTenantObject, NoHostObject, Exists
<1>3. TodoListed /\ SeenIdentified /\ EditsPlaced
  BY DEF Init, TodoListed, SeenIdentified, EditsPlaced
<1>4. hist = NoHistory /\ saved.hist = NoHistory /\ cached.hist = NoHistory
  BY DEF Init
<1> QED
  BY <1>1, <1>2, <1>3, <1>4, NoHistorySound DEF HistoryInv

\* Every step keeps the invariant.
LEMMA HistoryInvStep ==
  ASSUME HistoryInv, NoPods, NoReset, [Next]_vars
  PROVE  HistoryInv'
<1>1. /\ TypeOK /\ TypeOK' /\ VersionsBounded /\ VersionsBounded' /\ ProvenanceInv'
  BY StepTypes, HostSideStep, PassStep DEF HistoryInv, ProvenanceInv
<1>2. TenantMove /\ SlotMove
  BY <1>1, TenantMoves, SlotMoves
<1>3. TenantVersions' /\ HostVersions'
  BY <1>1, <1>2, TenantVersionsStep, HostVersionsStep DEF HistoryInv
<1>4. TodoListed' /\ SeenIdentified' /\ EditsPlaced'
  BY <1>1, <1>2, TodoStep, SeenStep, EditsPlacedStep DEF HistoryInv
<1>5. /\ hist \in History /\ saved.hist \in History /\ cached.hist \in History
      /\ NoHistory \in History
  BY <1>1, NothingTypes DEF TypeOK, HistoryTypes, DecisionObject
<1>6. SoundAfter(hist) /\ SoundAfter(saved.hist) /\ SoundAfter(cached.hist) /\ SoundAfter(NoHistory)
  BY <1>1, <1>2, <1>5, SoundKept, NoHistorySound DEF HistoryInv
<1>7. SoundAfter(hist') /\ SoundAfter(saved'.hist) /\ SoundAfter(cached'.hist)
  BY <1>1, <1>3, <1>6, HistoryStep, StoredHistories
<1>8. Sound(hist)' /\ Sound(saved.hist)' /\ Sound(cached.hist)'
  BY <1>7 DEF Sound, SoundAfter, GivenOut, Truthful, Clean, Slot
<1> QED
  BY <1>1, <1>3, <1>4, <1>8 DEF HistoryInv

\* A recorded baseline is a true one, in memory, in the SyncDecision object and
\* in the informer's copy, for every policy: an object that still has the version
\* the history holds for it has the content it had when setConverged recorded it.
THEOREM BaselinesAreTrue == NoPods /\ NoReset => (Spec => []HistoryTruth)
<1> SUFFICES ASSUME NoPods, NoReset PROVE Spec => []HistoryTruth
  OBVIOUS
<1>1. Init => HistoryInv
  BY HistoryInvInit
<1>2. HistoryInv /\ [Next]_vars => HistoryInv'
  BY HistoryInvStep
<1>3. HistoryInv => HistoryTruth
  BY DEF HistoryInv, Sound, HistoryTruth
<1> QED
  BY <1>1, <1>2, <1>3, PTL DEF Spec

-----------------------------------------------------------------------------
(***************************************************************************)
(* conflictPolicy "manual"                                                 *)
(***************************************************************************)

\* While a write is pending nothing touches the history, and the list stays.
LEMMA PlannedStep ==
  ASSUME HistoryInv, ManualPolicy, PlannedByHistory, [Next]_vars
  PROVE  PlannedByHistory'
<1>1. CASE pc' # "write"
  BY <1>1 DEF PlannedByHistory
<1>2. CASE UNCHANGED <<pc, plan, seen, cur, snap, hist>>
  BY <1>2 DEF PlannedByHistory
<1>3. CASE ReconcilePair
  <2>1. PICK o \in todo : LeaveAlone(o) \/ Throttled(o) \/ PlanWrite(o) \/ GetFails(o)
    BY <1>3 DEF ReconcilePair
  <2>2. CASE PlanWrite(o)
    <3>1. Direction = "bidirectional" /\ ConflictPolicy = "manual"
      BY DEF ManualPolicy, Direction, HistoryInv, ProvenanceInv, TypeOK, PassTypes
    <3>2. /\ cur' = o /\ seen' = host[Slot(o)] /\ UNCHANGED <<hist, snap>>
          /\ plan' = "push" => NeedsPush(o, host[Slot(o)])
          /\ plan' = "pull" => NeedsPull(o, host[Slot(o)])
      BY <1>3, <2>2 DEF PlanWrite, ReconcilePair
    <3>3. plan' = "push" => seen'.rv = hist[HostName[o]].h
      BY <3>1, <3>2 DEF NeedsPush, ConflictGoesToHost, HostChanged
    <3>4. plan' = "pull" => snap[o].rv = hist[HostName[o]].t
      BY <3>1, <3>2 DEF NeedsPull, ConflictGoesToTenant, TenantChanged
    <3> QED
      BY <3>2, <3>3, <3>4 DEF PlannedByHistory
  <2> QED
    BY <1>1, <2>1, <2>2 DEF LeaveAlone, Throttled, GetFails, PairDone
<1>4. CASE Write
  BY <1>1, <1>4 DEF Write, CreateHost, PushToHost, PullToTenant, WriteFails, HostWriteAnswered,
     PairDone
<1>5. CASE StartRun \/ ListVirtual \/ ListHost \/ DeleteOrphan \/ FinishPass \/ Restart
  BY <1>1, <1>5 DEF StartRun, ListVirtual, ListHost, DeleteOrphan, FinishPass, EndPass, Restart
<1>6. CASE CacheSync \/ Refill \/ UNCHANGED vars
  BY <1>2, <1>6 DEF CacheSync, Refill, vars, passVars, pairVars
<1>7. ASSUME NEW op, Outside(op) PROVE UNCHANGED <<pc, plan, seen, cur, snap, hist>>
  BY <1>7 DEF Outside, passVars, pairVars
<1>8. CASE Environment
  BY <1>2, <1>7, <1>8 DEF Environment, TenantCreate, TenantEdit, TenantDelete, TenantTouch,
     HostEdit, HostDelete, ForeignCreate, HostTouch, HostSchedule, TenantReset
<1> QED
  BY <1>3, <1>4, <1>5, <1>6, <1>8 DEF Next, Worker

\* The user's steps are not the engine's.
LEMMA UsersAreNotTheEngine == TypeOK /\ Environment => ~EngineStep
<1>1. ASSUME TypeOK, NEW op, Outside(op) PROVE ~EngineStep
  BY <1>1 DEF Outside, EngineStep, TypeOK, BookkeepingTypes
<1> QED
  BY <1>1 DEF Environment, TenantCreate, TenantEdit, TenantDelete, TenantTouch,
     HostEdit, HostDelete, ForeignCreate, HostTouch, HostSchedule, TenantReset

\* What the engine overwrites is what its history knows.
LEMMA NothingUnseenIsOverwritten ==
  ASSUME HistoryInv, PlannedByHistory, [Next]_vars, EngineStep
  PROVE  /\ \A s \in Slots :
              Exists(host[s]) /\ Exists(host'[s]) /\ host'[s].val # host[s].val => s \notin dirtyH
         /\ \A o \in Obj :
              Exists(tenant[o]) /\ Exists(tenant'[o]) /\ tenant'[o].val # tenant[o].val
              => o \notin dirtyT
<1>1. TypeOK /\ host \in [Slots -> HostObject] /\ tenant \in [Obj -> TenantObject]
  BY DEF HistoryInv, ProvenanceInv, TypeOK, StoreTypes
<1>2. CASE UNCHANGED <<host, tenant>>
  BY <1>2
<1>3. CASE Write
  <2>1. pc = "write" /\ cur \in Obj /\ Slot(cur) \in Slots /\ Slot(cur)[2] = HostName[cur]
    BY <1>1, <1>3, WriteContents DEF Write, Slot
  <2>2. CASE CreateHost
    BY <1>1, <2>1, <2>2 DEF CreateHost, CreateAccepted, PutHost
  <2>3. CASE PushToHost
    <3>1. host[Slot(cur)].rv = hist[HostName[cur]].h /\ Exists(host[Slot(cur)])
      BY <2>1, <2>3 DEF PushToHost, PushAccepted, PlannedByHistory
    <3>2. Slot(cur) \notin dirtyH
      BY <2>1, <3>1 DEF HistoryInv, Sound, Clean
    <3> QED
      BY <1>1, <2>1, <2>3, <3>2 DEF PushToHost, PutHost
  <2>4. CASE PullToTenant
    <3>1. tenant[cur].rv = hist[HostName[cur]].t /\ Exists(tenant[cur])
      BY <2>1, <2>4 DEF PullToTenant, PullAccepted, PlannedByHistory
    <3>2. cur \notin dirtyT
      BY <2>1, <3>1 DEF HistoryInv, Sound, Clean
    <3> QED
      BY <1>1, <2>1, <2>4, <3>2 DEF PullToTenant, PutTenant
  <2> QED
    BY <1>2, <1>3, <2>2, <2>3, <2>4 DEF Write, WriteFails, storeVars
<1>4. CASE DeleteOrphan
  BY <1>1, <1>4 DEF DeleteOrphan, DeleteHost, NoHostObject, Exists, TypeOK, PassTypes
<1>5. CASE StartRun \/ ListVirtual \/ ReconcilePair \/ ListHost \/ FinishPass
           \/ Restart \/ CacheSync \/ Refill \/ UNCHANGED vars
  BY <1>2, <1>5 DEF StartRun, ListVirtual, ReconcilePair, ListHost, FinishPass,
     Restart, CacheSync, Refill, vars, storeVars
<1> QED
  BY <1>1, <1>3, <1>4, <1>5, UsersAreNotTheEngine DEF Next, Worker

\* With every resource bidirectional and conflictPolicy "manual" the engine never
\* overwrites content that holds an edit the other side has not seen, however
\* users' writes, lost answers, restarts, a lagging informer and host names shared
\* by several objects fall between its read, its decision and its write
\* (reconcileBidirectionalConflict, pushToHost, pullToTenant).
THEOREM ManualLosesNoEdit == NoPods /\ NoReset /\ ManualPolicy => (Spec => NoLostEdit)
<1> SUFFICES ASSUME NoPods, NoReset, ManualPolicy PROVE Spec => NoLostEdit
  OBVIOUS
<1> DEFINE Inv == HistoryInv /\ PlannedByHistory
<1>1. Init => Inv
  BY HistoryInvInit DEF Init, PlannedByHistory
<1>2. Inv /\ [Next]_vars => Inv'
  BY HistoryInvStep, PlannedStep
<1>3. Inv /\ [Next]_vars =>
        (EngineStep =>
           /\ \A s \in Slots :
                Exists(host[s]) /\ Exists(host'[s]) /\ host'[s].val # host[s].val => s \notin dirtyH
           /\ \A o \in Obj :
                Exists(tenant[o]) /\ Exists(tenant'[o]) /\ tenant'[o].val # tenant[o].val
                => o \notin dirtyT)
  BY NothingUnseenIsOverwritten
<1> QED
  BY <1>1, <1>2, <1>3, PTL DEF Spec, NoLostEdit
-----------------------------------------------------------------------------
(***************************************************************************)
(* The engine implements SyncedPairs: the abstract values of what is       *)
(* written                                                                 *)
(***************************************************************************)

\* What is compared of a content of kind k that is no Pod.
Compared(k, v) == stripHostAllocatedSpecFields(k, v)

\* The tenant's side and the list, of any object.
LEMMA TenantValues ==
  ASSUME TypeOK, NEW o \in Obj
  PROVE  /\ TenantSide[o] = IF Exists(tenant[o]) THEN {Compared(KindOf[o], tenant[o].val)} ELSE {}
         /\ Listed[o] = IF Exists(snap[o]) THEN {Compared(KindOf[o], snap[o].val)} ELSE {}
  BY DEF TenantSide, Listed, TenantValue, Compared

\* A host object of a kind other than Pod.
LEMMA HostValues ==
  ASSUME NoPods, NEW k \in Kinds, NEW x
  PROVE  HostValue(k, x) =
           IF Exists(x) THEN {[src |-> x.src, val |-> Compared(k, x.val)]} ELSE {}
  BY DEF HostValue, Compared, ComparableHost, NoPods

\* The kind of a slot is the kind of an object.
LEMMA SlotKind == \A s \in Slots : s[1] \in Kinds
  BY DEF Slots, Slot, Kinds

\* The objects of the host, and no two slots for one object.
LEMMA HostSideValues ==
  ASSUME NoPods, NEW s \in Slots
  PROVE  HostSide[s] = IF Exists(host[s])
                       THEN {[src |-> host[s].src, val |-> Compared(s[1], host[s].val)]} ELSE {}
  BY HostValues, SlotKind DEF HostSide

\* A write to the tenant's API server.
LEMMA PutTenantValue ==
  ASSUME TypeOK, NEW o \in Obj, NEW v, PutTenant(o, v)
  PROVE  TenantSide' = [TenantSide EXCEPT ![o] = {Compared(KindOf[o], v)}]
<1>1. tenant \in [Obj -> TenantObject] /\ trev \in Nat
  BY DEF TypeOK, StoreTypes
<1>2. ASSUME NEW p \in Obj
      PROVE  TenantValue(p, tenant'[p]) =
               IF p = o THEN {Compared(KindOf[o], v)} ELSE TenantValue(p, tenant[p])
  BY <1>1 DEF PutTenant, TenantValue, Compared, Exists
<1> QED
  BY <1>2 DEF TenantSide

\* A write to the host's.
LEMMA PutHostValue ==
  ASSUME TypeOK, NoPods, NEW s \in Slots, NEW v, NEW o, PutHost(s, v, o)
  PROVE  HostSide' = [HostSide EXCEPT ![s] = {[src |-> o, val |-> Compared(s[1], v)]}]
<1>1. host \in [Slots -> HostObject] /\ hrev \in Nat
  BY DEF TypeOK, StoreTypes
<1>2. ASSUME NEW r \in Slots
      PROVE  HostValue(r[1], host'[r]) =
               IF r = s THEN {[src |-> o, val |-> Compared(s[1], v)]} ELSE HostValue(r[1], host[r])
  <2>1. CASE r # s
    BY <1>1, <2>1 DEF PutHost
  <2>2. CASE r = s
    <3>1. Exists(host'[s]) /\ host'[s].val = v /\ host'[s].src = o
      BY <1>1 DEF PutHost, Exists
    <3> QED
      BY <2>2, <3>1, HostValues, SlotKind
  <2> QED
    BY <2>1, <2>2
<1> QED
  BY <1>2 DEF HostSide

\* A deletion on the host.
LEMMA DeleteHostValue ==
  ASSUME TypeOK, NEW s \in Slots, host' = [host EXCEPT ![s] = NoHostObject]
  PROVE  HostSide' = [HostSide EXCEPT ![s] = {}]
<1>1. host \in [Slots -> HostObject]
  BY DEF TypeOK, StoreTypes
<1>2. ASSUME NEW r \in Slots
      PROVE  HostValue(r[1], host'[r]) = IF r = s THEN {} ELSE HostValue(r[1], host[r])
  BY <1>1 DEF HostValue, NoHostObject, Exists
<1> QED
  BY <1>2 DEF HostSide

\* What does not change, and what is dropped.
LEMMA SameValues ==
  /\ tenant' = tenant => TenantSide' = TenantSide
  /\ host' = host => HostSide' = HostSide
  /\ snap' = snap => Listed' = Listed
  /\ snap' = tenant => Listed' = TenantSide
  /\ snap' = NothingListed => Listed' = Pairs!Nothing
  /\ seen' = seen /\ idx' = idx => AtHand' = AtHand
  /\ seen' = NoHostObject => AtHand' = {}
  /\ seen = NoHostObject => AtHand = {}
<1>1. tenant' = tenant => TenantSide' = TenantSide
  BY DEF TenantSide, TenantValue
<1>2. host' = host => HostSide' = HostSide
  BY DEF HostSide, HostValue
<1>3. snap' = snap => Listed' = Listed
  BY DEF Listed, TenantValue
<1>4. snap' = tenant => Listed' = TenantSide
  BY DEF Listed, TenantSide, TenantValue
<1>5. snap' = NothingListed => Listed' = Pairs!Nothing
  BY DEF Listed, NothingListed, NoTenantObject, TenantValue, Exists, Pairs!Nothing
<1>6. seen' = seen /\ idx' = idx => AtHand' = AtHand
  BY DEF AtHand, Kind, HostValue
<1>7. /\ seen' = NoHostObject => AtHand' = {}
      /\ seen = NoHostObject => AtHand = {}
  BY DEF AtHand, HostValue, NoHostObject, Exists
<1> QED
  BY <1>1, <1>2, <1>3, <1>4, <1>5, <1>6, <1>7

\* The list has the content the tenant still has.
LEMMA StillListed ==
  ASSUME TypeOK, TenantVersions, NEW o \in Obj, Exists(snap[o]), tenant[o].rv = snap[o].rv
  PROVE  TenantSide[o] = Listed[o]
  BY TenantValues DEF TenantVersions, Exists

-----------------------------------------------------------------------------
(***************************************************************************)
(* Every step of the engine is one that SyncedPairs allows, or none        *)
(***************************************************************************)
PairsStep == Pairs!Next \/ UNCHANGED <<TenantSide, HostSide, Listed, AtHand, dirtyT, dirtyH>>

\* Steps that touch neither side, the list, what is at hand nor the edits.
LEMMA InvisibleStep ==
  ASSUME UNCHANGED <<tenant, host, snap, dirtyT, dirtyH>>,
         UNCHANGED <<seen, idx>> \/ (seen = NoHostObject /\ seen' = NoHostObject)
  PROVE  PairsStep
  BY SameValues DEF PairsStep

\* Steps that drop what is at hand and keep or drop the list.
LEMMA ForgetStep ==
  ASSUME UNCHANGED <<tenant, host, dirtyT, dirtyH>>, seen' = NoHostObject,
         snap' = snap \/ snap' = NothingListed
  PROVE  PairsStep
  BY SameValues DEF PairsStep, Pairs!Next, Pairs!Forget

\* The steps of a run between its passes and its pairs.
LEMMA RunImplements ==
  ASSUME HistoryInv,
         StartRun \/ ListVirtual \/ ListHost \/ FinishPass \/ Restart \/ CacheSync \/ Refill
         \/ UNCHANGED vars
  PROVE  PairsStep
<1>1. pc # "write" => seen = NoHostObject
  BY DEF HistoryInv, SeenIdentified
<1>2. CASE StartRun
  BY <1>1, <1>2, InvisibleStep DEF StartRun, storeVars, pairVars, ghostVars
<1>3. CASE ListVirtual
  <2>1. CASE EndPass
    BY <1>3, <2>1, ForgetStep DEF ListVirtual, EndPass, storeVars, ghostVars
  <2>2. CASE ~EndPass
    <3>1. /\ snap' = tenant /\ UNCHANGED <<tenant, host, seen, idx, dirtyT, dirtyH>>
      BY <1>3, <2>2 DEF ListVirtual, storeVars, ghostVars
    <3> QED
      BY <3>1, SameValues DEF PairsStep, Pairs!Next, Pairs!Look
  <2> QED
    BY <2>1, <2>2
<1>4. CASE ListHost
  BY <1>4, InvisibleStep DEF ListHost, storeVars, pairVars, ghostVars
<1>5. CASE FinishPass \/ Restart
  BY <1>5, ForgetStep DEF FinishPass, Restart, EndPass, storeVars, ghostVars
<1>6. CASE CacheSync \/ Refill
  BY <1>6, InvisibleStep DEF CacheSync, Refill, storeVars, passVars, pairVars, ghostVars
<1>7. CASE UNCHANGED vars
  BY <1>7, InvisibleStep DEF vars, storeVars, passVars, pairVars, ghostVars
<1> QED
  BY <1>2, <1>3, <1>4, <1>5, <1>6, <1>7

\* What the engine makes of a listed object.
LEMMA ImageOfListed ==
  ASSUME TypeOK, NEW o \in Obj, Exists(snap[o])
  PROVE  /\ Listed[o] # {}
         /\ Pairs!Image(o) = {[src |-> o, val |-> Compared(KindOf[o], snap[o].val)]}
  BY TenantValues DEF Pairs!Image

\* reconcilePair up to its write.
LEMMA PairImplements ==
  ASSUME HistoryInv, NoPods, ReconcilePair
  PROVE  PairsStep
<1>1. /\ TypeOK /\ TenantVersions /\ seen = NoHostObject /\ pc = "pair" /\ AtHand = {}
      /\ UNCHANGED <<tenant, host, snap, idx>>
  BY SameValues DEF HistoryInv, ProvenanceInv, SeenIdentified, ReconcilePair, storeVars
<1>2. PICK o \in todo : LeaveAlone(o) \/ Throttled(o) \/ PlanWrite(o) \/ GetFails(o)
  BY DEF ReconcilePair
<1>3. /\ o \in Obj /\ Slot(o) \in Slots /\ KindOf[o] = Kind /\ Exists(snap[o]) /\ Kind \in Kinds
      /\ Slot(o)[1] = Kind
  BY <1>1, SlotOK DEF HistoryInv, TodoListed, TypeOK, PairTypes, Kinds, Slot
<1>4. CASE Throttled(o) \/ GetFails(o)
  BY <1>1, <1>4, InvisibleStep DEF Throttled, GetFails, PairDone, ghostVars
<1>5. CASE PlanWrite(o)
  <2>1. seen' = host[Slot(o)] /\ UNCHANGED <<dirtyT, dirtyH>>
    BY <1>5 DEF PlanWrite, ghostVars
  <2>2. AtHand' = HostSide[Slot(o)]
    <3>1. AtHand' = HostValue(Kind, host[Slot(o)])
      BY <1>1, <2>1 DEF AtHand, Kind, HostValue
    <3> QED
      BY <1>3, <3>1 DEF HostSide
  <2> QED
    BY <1>1, <1>3, <2>1, <2>2, SameValues DEF PairsStep, Pairs!Next, Pairs!Peek
<1>6. CASE LeaveAlone(o)
  <2> DEFINE x == host[Slot(o)]
             agree == Direction # "toHost" /\ MirrorOf(o, x) /\ Agrees(o, x)
  <2>1. seen' = NoHostObject /\ AtHand' = {}
    BY <1>6, SameValues DEF LeaveAlone, PairDone
  <2>2. CASE ~agree
    BY <1>1, <1>6, <2>1, <2>2, InvisibleStep DEF LeaveAlone
  <2>3. CASE agree
    <3>1. /\ dirtyH' = dirtyH \ {Slot(o)}
          /\ dirtyT' = IF tenant[o].rv = snap[o].rv THEN dirtyT \ {o} ELSE dirtyT
      BY <1>6, <2>3 DEF LeaveAlone
    <3>2. HostSide[Slot(o)] = Pairs!Image(o) /\ Listed[o] # {}
      <4>1. Compared(Kind, snap[o].val) = Compared(Kind, x.val)
        BY <1>3, <2>3 DEF Agrees, ContentEqual, ComparableHost, Compared, NoPods
      <4>2. Exists(x) /\ x.src = o
        BY <2>3 DEF MirrorOf, MadeFrom
      <4> QED
        BY <1>1, <1>3, <4>1, <4>2, HostSideValues, ImageOfListed
    <3>3. UNCHANGED <<TenantSide, HostSide, Listed, AtHand>>
      BY <1>1, <2>1, SameValues
    <3>4. tenant[o].rv = snap[o].rv => TenantSide[o] = Listed[o]
      BY <1>1, <1>3, StillListed
    <3>5. Pairs!Compare(o)
      BY <1>3, <3>1, <3>2, <3>3, <3>4 DEF Pairs!Compare, Pairs!TenantEditArrives
    <3> QED
      BY <1>3, <3>5 DEF PairsStep, Pairs!Next
  <2> QED
    BY <2>2, <2>3
<1> QED
  BY <1>2, <1>4, <1>5, <1>6

\* The create of reconcilePair and pushToHost put the image of the listed object
\* on the host, and settle the tenant's edit if that is what was listed.
LEMMA HostWriteImplements ==
  ASSUME HistoryInv, PlannedByHistory, NoPods, Write, CreateHost \/ PushToHost
  PROVE  PairsStep
<1>1. PICK o \in Obj : o = cur
  BY WriteContents DEF Write, HistoryInv, ProvenanceInv
<1>2. /\ TypeOK /\ TenantVersions /\ pc = "write" /\ Slot(o) \in Slots /\ KindOf[o] = Kind
      /\ Kind # "Pod" /\ Kind \in Kinds /\ Exists(snap[o]) /\ UNCHANGED <<snap, tenant>>
      /\ snap[o].val \in Content /\ seen.val \in Content /\ Slot(o)[1] = Kind
  BY <1>1, WriteContents, NoPodAtHand
  DEF Write, HistoryInv, ProvenanceInv, passVars, CreateHost, PushToHost, Kinds, Slot
<1>3. Listed[o] # {} /\ Pairs!Image(o) = {[src |-> o, val |-> Compared(Kind, snap[o].val)]}
  BY <1>2, ImageOfListed
<1>4. seen' = NoHostObject /\ AtHand' = {} /\ UNCHANGED <<TenantSide, Listed>>
  BY <1>2, SameValues DEF CreateHost, PushToHost, HostWriteAnswered, PairDone
<1>5. HostSide' = [HostSide EXCEPT ![Slot(o)] = Pairs!Image(o)]
  <2>1. CASE CreateHost
    <3>1. Compared(Kind, CreatedContent) = Compared(Kind, snap[o].val)
      BY <1>1, <1>2, WritesAgree DEF CreatedContent, DesiredContent, ContentEqual, Compared
    <3> QED
      BY <1>1, <1>2, <1>3, <2>1, <3>1, PutHostValue DEF CreateHost
  <2>2. CASE PushToHost
    <3>1. Compared(Kind, PushedContent) = Compared(Kind, snap[o].val)
      BY <1>1, <1>2, WritesAgree DEF PushedContent, DesiredContent, ContentEqual, Compared
    <3> QED
      BY <1>1, <1>2, <1>3, <2>2, <3>1, PutHostValue DEF PushToHost
  <2> QED
    BY <2>1, <2>2
<1>6. HostSide'[Slot(o)] = Pairs!Image(o)
  BY <1>2, <1>5 DEF HostSide
<1>7. Pairs!TenantEditArrives(o)
  <2>1. \/ dirtyT' = dirtyT
        \/ dirtyT' = dirtyT \ {o} /\ tenant[o].rv = snap[o].rv
    BY <1>1 DEF CreateHost, PushToHost, HostWriteAnswered, TenantSettled
  <2> QED
    BY <1>2, <1>6, <2>1, StillListed DEF Pairs!TenantEditArrives
<1>8. CASE CreateHost
  <2>1. HostSide[Slot(o)] = {} /\ UNCHANGED dirtyH
    BY <1>1, <1>2, <1>8, HostSideValues DEF CreateHost, CreateAccepted
  <2>2. Pairs!Project(o)
    BY <1>2, <1>3, <1>4, <1>5, <1>7, <2>1 DEF Pairs!Project
  <2> QED
    BY <2>2 DEF PairsStep, Pairs!Next
<1>9. CASE PushToHost
  <2>1. /\ Exists(host[Slot(o)]) /\ host[Slot(o)] = seen /\ seen.src = o
        /\ dirtyH' = dirtyH \ {Slot(o)} /\ seen.rv = hist[HostName[o]].h
    BY <1>1, <1>2, <1>9
    DEF PushToHost, PushAccepted, HistoryInv, SeenIdentified, PlannedByHistory
  <2>2. Slot(o) \notin dirtyH
    BY <1>2, <2>1 DEF HistoryInv, Sound, Clean, Slot
  <2>3. HostSide[Slot(o)] = AtHand /\ HostSide[Slot(o)] = {[src |-> o, val |-> Compared(Kind, seen.val)]}
    BY <1>2, <2>1, HostSideValues, HostValues DEF AtHand
  <2>4. HostSide[Slot(o)] # {} /\ \A x \in AtHand : x.src = o
    BY <2>3
  <2>5. [p \in Obj |-> Slot(p)][o] = Slot(o) /\ UNCHANGED <<TenantSide, Listed>>
    BY <1>4
  <2>6. Pairs!Push(o)
    BY <1>3, <1>4, <1>5, <1>7, <2>1, <2>2, <2>3, <2>4, <2>5 DEF Pairs!Push
  <2> QED
    BY <2>6 DEF PairsStep, Pairs!Next
<1> QED
  BY <1>8, <1>9

\* pullToTenant carries over the mirror it read, to a tenant object that is as
\* it was listed.
LEMMA PullImplements ==
  ASSUME HistoryInv, PlannedByHistory, NoPods, Write, PullToTenant
  PROVE  PairsStep
<1>1. PICK o \in Obj : o = cur
  BY WriteContents DEF Write, HistoryInv, ProvenanceInv
<1>2. /\ TypeOK /\ TenantVersions /\ pc = "write" /\ Slot(o) \in Slots /\ KindOf[o] = Kind
      /\ Kind # "Pod" /\ Kind \in Kinds /\ Exists(snap[o]) /\ UNCHANGED <<snap, host>>
      /\ seen.val \in Content /\ Slot(o)[1] = Kind
  BY <1>1, WriteContents, NoPodAtHand
  DEF Write, HistoryInv, ProvenanceInv, passVars, PullToTenant, Kinds, Slot
<1>3. /\ Exists(seen) /\ seen.src = o
      /\ host[Slot(o)].rv = seen.rv => host[Slot(o)] = seen
      /\ snap[o].rv = hist[HostName[o]].t
  BY <1>1, <1>2 DEF HistoryInv, SeenIdentified, PlannedByHistory, PullToTenant
<1>4. /\ Exists(tenant[o]) /\ tenant[o].rv = snap[o].rv
      /\ PutTenant(o, PulledContent) /\ dirtyT' = dirtyT \ {o}
      /\ dirtyH' = IF host[Slot(o)].rv = seen.rv THEN dirtyH \ {Slot(o)} ELSE dirtyH
      /\ seen' = NoHostObject
  BY <1>1 DEF PullToTenant, PullAccepted, PairDone
<1>5. o \notin dirtyT
  BY <1>3, <1>4 DEF HistoryInv, Sound, Clean
<1> DEFINE x == [src |-> o, val |-> Compared(Kind, seen.val)]
<1>6. AtHand = {x}
  BY <1>2, <1>3, HostValues DEF AtHand
<1>7. TenantSide' = [TenantSide EXCEPT ![o] = {x.val}]
  <2>1. Compared(Kind, PulledContent) = Compared(Kind, seen.val)
    BY <1>2, WritesAgree DEF PulledContent, ContentEqual, Compared
  <2> QED
    BY <1>2, <1>4, <2>1, PutTenantValue
<1>8. TenantSide[o] # {} /\ TenantSide[o] = Listed[o]
  BY <1>2, <1>4, TenantValues, StillListed
<1>9. UNCHANGED dirtyH \/ (HostSide[Slot(o)] = AtHand /\ dirtyH' = dirtyH \ {Slot(o)})
  <2>1. CASE host[Slot(o)].rv = seen.rv
    BY <1>2, <1>3, <1>4, <1>6, <2>1, HostSideValues
  <2> QED
    BY <1>4, <2>1
<1>10. AtHand' = {} /\ UNCHANGED <<HostSide, Listed>>
  BY <1>2, <1>4, SameValues
<1>11. Pairs!Pull(o)
  <2>1. x \in AtHand /\ x.src = o /\ [p \in Obj |-> Slot(p)][o] = Slot(o)
    BY <1>6
  <2> HIDE DEF x
  <2> QED
    BY <1>4, <1>5, <1>7, <1>8, <1>9, <1>10, <2>1 DEF Pairs!Pull
<1> QED
  BY <1>11 DEF PairsStep, Pairs!Next

\* Every outcome of the pending write.
LEMMA WriteImplements ==
  ASSUME HistoryInv, PlannedByHistory, NoPods, Write
  PROVE  PairsStep
<1>1. CASE WriteFails
  BY <1>1, ForgetStep DEF Write, WriteFails, PairDone, storeVars, passVars, ghostVars
<1> QED
  BY <1>1, HostWriteImplements, PullImplements DEF Write

\* collectOrphans deletes the mirrors whose source was not listed, and whatever
\* nobody's object has taken their place.
LEMMA DeleteImplements ==
  ASSUME HistoryInv, NoPods, DeleteOrphan
  PROVE  PairsStep
<1>1. /\ TypeOK /\ MirrorsPlaced /\ ListedCovered /\ OrphansListed
      /\ UNCHANGED <<tenant, snap, seen, idx, dirtyT>> /\ pc = "gc"
  BY DEF HistoryInv, ProvenanceInv, DeleteOrphan, pairVars
<1>2. PICK s \in gc : DeleteHost(s) \/ UNCHANGED <<host, dirtyH>>
  BY DEF DeleteOrphan
<1>3. CASE UNCHANGED <<host, dirtyH>>
  BY <1>1, <1>3, InvisibleStep
<1>4. CASE DeleteHost(s)
  <2>1. s \in Slots /\ host \in [Slots -> HostObject]
    BY <1>1 DEF TypeOK, StoreTypes, PassTypes
  <2>2. HostSide' = [HostSide EXCEPT ![s] = {}] /\ dirtyH' = dirtyH \ {s}
    BY <1>1, <1>4, <2>1, DeleteHostValue DEF DeleteHost
  <2>3. ASSUME NEW x \in HostSide[s] PROVE x.src = Foreign \/ Listed[x.src] = {}
    <3>1. Exists(host[s]) /\ x.src = host[s].src
      <4>1. CASE Exists(host[s])
        <5>1. HostSide[s] = {[src |-> host[s].src, val |-> Compared(s[1], host[s].val)]}
          BY <2>1, <4>1, HostSideValues
        <5> QED
          BY <2>3, <4>1, <5>1
      <4>2. CASE ~Exists(host[s])
        BY <2>1, <2>3, <4>2, HostSideValues
      <4> QED
        BY <4>1, <4>2
    <3>2. CASE host[s].src # Foreign
      <4>1. /\ host[s].src \in Obj /\ host[s].src \notin System
            /\ KindOf[host[s].src] = s[1] /\ HostName[host[s].src] = s[2]
        BY <1>1, <2>1, <3>1, <3>2 DEF MirrorsPlaced, Slot, Managed, HostObject
      <4>2. ~Exists(snap[host[s].src])
        BY <1>1, <1>2, <4>1 DEF ListedCovered, OrphansListed, Eligible
      <4> QED
        BY <1>1, <3>1, <4>1, <4>2, TenantValues
    <3> QED
      BY <3>1, <3>2
  <2>4. UNCHANGED <<TenantSide, Listed, AtHand>>
    BY <1>1, SameValues
  <2>5. Pairs!Collect(s)
    BY <1>1, <2>2, <2>3, <2>4 DEF Pairs!Collect
  <2> QED
    BY <2>1, <2>5 DEF PairsStep, Pairs!Next
<1> QED
  BY <1>2, <1>3, <1>4

\* The users' writes are those of SyncedPairs.
LEMMA UsersImplement ==
  ASSUME HistoryInv, NoPods, NoReset, Environment
  PROVE  PairsStep
<1>1. /\ TypeOK /\ tenant \in [Obj -> TenantObject] /\ host \in [Slots -> HostObject]
      /\ trev \in Nat /\ hrev \in Nat
  BY DEF HistoryInv, ProvenanceInv, TypeOK, StoreTypes
<1>2. ASSUME NEW op, Outside(op)
      PROVE  UNCHANGED <<seen, idx, snap>> /\ UNCHANGED <<Listed, AtHand>>
  BY <1>2, SameValues DEF Outside, passVars, pairVars
<1>3. ASSUME NEW o \in Obj, NEW v \in Content, NEW op, Outside(op), PutTenant(o, v),
             dirtyT' = dirtyT \union {o}, UNCHANGED <<host, dirtyH>>
      PROVE  PairsStep
  <2>1. Compared(KindOf[o], v) \in Content
    BY TransformTypes DEF Compared
  <2>2. Pairs!TenantWrites(o, Compared(KindOf[o], v))
    BY <1>1, <1>2, <1>3, PutTenantValue, SameValues DEF Pairs!TenantWrites
  <2> QED
    BY <2>1, <2>2 DEF PairsStep, Pairs!Next
<1>4. ASSUME NEW o \in Obj, NEW c \in TenantContents(KindOf[o]), TenantCreate(o, c)
      PROVE  PairsStep
  <2>1. c \in Content
    BY DEF TenantContents, Content
  <2> QED
    BY <1>3, <1>4, <2>1 DEF TenantCreate
<1>5. ASSUME NEW o \in Obj, NEW f \in Frees, TenantEdit(o, f) PROVE PairsStep
  <2>1. [tenant[o].val EXCEPT !.free = f] \in Content
    BY <1>1 DEF TenantObject, Content
  <2> QED
    BY <1>3, <1>5, <2>1 DEF TenantEdit
<1>6. ASSUME NEW o \in Obj, TenantDelete(o) PROVE PairsStep
  <2>1. TenantSide' = [TenantSide EXCEPT ![o] = {}]
    <3>1. ASSUME NEW p \in Obj
          PROVE  TenantValue(p, tenant'[p]) = IF p = o THEN {} ELSE TenantValue(p, tenant[p])
      BY <1>1, <1>6 DEF TenantDelete, TenantValue, NoTenantObject, Exists
    <3> QED
      BY <3>1 DEF TenantSide
  <2>2. Pairs!TenantDeletes(o)
    BY <1>2, <1>6, <2>1, SameValues DEF TenantDelete, Pairs!TenantDeletes
  <2> QED
    BY <2>2 DEF PairsStep, Pairs!Next
<1>7. ASSUME NEW o \in Obj, TenantTouch(o) PROVE PairsStep
  <2>1. TenantSide' = TenantSide
    <3>1. ASSUME NEW p \in Obj PROVE TenantValue(p, tenant'[p]) = TenantValue(p, tenant[p])
      <4>1. tenant'[p].val = tenant[p].val /\ (Exists(tenant'[p]) <=> Exists(tenant[p]))
        BY <1>1, <1>7 DEF TenantTouch, Exists
      <4> QED
        BY <4>1 DEF TenantValue
    <3> QED
      BY <3>1 DEF TenantSide
  <2> QED
    BY <1>2, <1>7, <2>1, SameValues DEF TenantTouch, PairsStep, ghostVars
<1>8. ASSUME NEW s \in Slots, NEW f \in Frees, HostEdit(s, f) PROVE PairsStep
  <2> DEFINE v == [host[s].val EXCEPT !.free = f]
             x == [src |-> host[s].src, val |-> Compared(s[1], host[s].val)]
  <2>1. v \in Content /\ Compared(s[1], v) \in Content
    <3>1. v \in Content
      BY <1>1 DEF HostObject, Content
    <3> QED
      BY <3>1, TransformTypes DEF Compared
  <2>2. x \in HostSide[s] /\ x.src # Foreign
    BY <1>8, HostSideValues DEF HostEdit, Managed
  <2>3. HostSide' = [HostSide EXCEPT ![s] = {[x EXCEPT !.val = Compared(s[1], v)]}]
    BY <1>1, <1>8, PutHostValue DEF HostEdit
  <2>4. dirtyH' = dirtyH \union {s} /\ UNCHANGED <<TenantSide, Listed, AtHand, dirtyT>>
    BY <1>2, <1>8, SameValues DEF HostEdit
  <2> HIDE DEF v, x
  <2>5. Pairs!HostEdits(s, Compared(s[1], v))
    BY <2>2, <2>3, <2>4 DEF Pairs!HostEdits
  <2> QED
    BY <2>1, <2>5 DEF PairsStep, Pairs!Next
<1>9. ASSUME NEW s \in Slots, HostDelete(s) PROVE PairsStep
  <2>1. Pairs!HostDeletes(s)
    BY <1>1, <1>2, <1>9, DeleteHostValue, SameValues DEF HostDelete, Pairs!HostDeletes
  <2> QED
    BY <2>1 DEF PairsStep, Pairs!Next
<1>10. ASSUME NEW s \in Slots, ForeignCreate(s) PROVE PairsStep
  <2>1. Compared(s[1], NoContent) \in Content
    BY NothingTypes, TransformTypes DEF Compared
  <2>2. HostSide[s] = {}
    BY <1>10, HostSideValues DEF ForeignCreate
  <2>3. Pairs!ForeignTakes(s, Compared(s[1], NoContent))
    BY <1>1, <1>2, <1>10, <2>2, PutHostValue, SameValues
    DEF ForeignCreate, Pairs!ForeignTakes, ghostVars
  <2> QED
    BY <2>1, <2>3 DEF PairsStep, Pairs!Next
<1>11. ASSUME NEW s \in Slots, HostTouch(s) PROVE PairsStep
  <2>1. HostSide' = HostSide
    <3>1. ASSUME NEW r \in Slots PROVE HostValue(r[1], host'[r]) = HostValue(r[1], host[r])
      <4>1. host'[r].val = host[r].val /\ host'[r].src = host[r].src
            /\ (Exists(host'[r]) <=> Exists(host[r]))
        BY <1>1, <1>11 DEF HostTouch, Managed, Exists
      <4> QED
        BY <4>1 DEF HostValue
    <3> QED
      BY <3>1 DEF HostSide
  <2> QED
    BY <1>2, <1>11, <2>1, SameValues DEF HostTouch, PairsStep, ghostVars
<1>12. ASSUME NEW s \in Slots PROVE ~HostSchedule(s)
  BY SlotKind DEF HostSchedule, NoPods
<1>13. ~TenantReset
  BY DEF TenantReset, Outside, NoReset
<1> QED
  BY <1>4, <1>5, <1>6, <1>7, <1>8, <1>9, <1>10, <1>11, <1>12, <1>13 DEF Environment

\* The engine and its users keep the promise SyncedPairs makes: with every
\* resource bidirectional and conflictPolicy "manual", resourceVersions and the
\* convergence history decide every write of reconcilePair, pushToHost,
\* pullToTenant and collectOrphans as if the engine knew which side of each pair
\* holds an edit the other has not seen.
THEOREM EngineImplementsPairs == NoPods /\ NoReset /\ ManualPolicy => (Spec => ImplementsPairs)
<1> SUFFICES ASSUME NoPods, NoReset, ManualPolicy PROVE Spec => ImplementsPairs
  OBVIOUS
<1> DEFINE Inv == HistoryInv /\ PlannedByHistory
<1>1. Init => Inv
  BY HistoryInvInit DEF Init, PlannedByHistory
<1>2. Inv /\ [Next]_vars => Inv'
  BY HistoryInvStep, PlannedStep
<1>3. Init => Pairs!Init
  <2> SUFFICES ASSUME Init PROVE Pairs!Init
    OBVIOUS
  <2>1. /\ TenantSide = Pairs!Nothing /\ Listed = Pairs!Nothing /\ AtHand = {}
        /\ HostSide = [s \in Slots |-> {}]
    BY DEF Init, TenantSide, HostSide, Listed, AtHand, TenantValue, HostValue, NothingListed,
       NoTenantObject, NoHostObject, Exists, Pairs!Nothing
  <2> QED
    BY <2>1 DEF Init, Pairs!Init
<1>4. Inv /\ [Next]_vars => [Pairs!Next]_(Pairs!vars)
  <2> SUFFICES ASSUME Inv, [Next]_vars PROVE PairsStep
    BY DEF PairsStep, Pairs!vars
  <2> QED
    BY RunImplements, PairImplements, WriteImplements, DeleteImplements, UsersImplement
    DEF Next, Worker
<1> QED
  BY <1>1, <1>2, <1>3, <1>4, PTL DEF Spec, ImplementsPairs, Pairs!Spec
=============================================================================
