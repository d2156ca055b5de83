--------------------------- MODULE SyncEngineProofs ---------------------------
(***************************************************************************)
(* Proofs about SyncEngine, for any objects, names, policies and bounds.   *)
(***************************************************************************)
EXTENDS SyncEngine, TLAPS

-----------------------------------------------------------------------------
(***************************************************************************)
(* The operators of Transform, and the two API servers                     *)
(***************************************************************************)

\* Every conversion of transform.go yields a content.
LEMMA TransformTypes ==
  ASSUME NEW k, NEW c \in Content, NEW d \in Content,
         NEW a \in Fixeds \union {HostAddress, TenantAddress, Unset}
  PROVE  /\ stripHostAllocatedSpecFields(k, c) \in Content
         /\ BuildHostObject(k, c, Required) \in Content
         /\ AdoptHostAllocatedFields(k, c, d) \in Content
         /\ ComparableHost(k, c, Required) \in Content
         /\ MergeHostContentIntoTenant(k, c) \in Content
         /\ Defaulted(k, c, a) \in Content
<1> USE DEF Content
<1>1. ASSUME NEW x \in Content PROVE stripHostAllocatedSpecFields(k, x) \in Content
  BY DEF stripHostAllocatedSpecFields
<1>2. ASSUME NEW x \in Content PROVE [x EXCEPT !.rc = Required] \in Content
  OBVIOUS
<1>3. BuildHostObject(k, c, Required) \in Content
  BY <1>1, <1>2 DEF BuildHostObject
<1>4. AdoptHostAllocatedFields(k, c, d) \in Content
  BY DEF AdoptHostAllocatedFields
<1>5. ComparableHost(k, c, Required) \in Content
  BY DEF ComparableHost
<1>6. Defaulted(k, c, a) \in Content
  BY DEF Defaulted
<1> QED
  BY <1>1, <1>3, <1>4, <1>5, <1>6 DEF MergeHostContentIntoTenant

\* The names and the slot of an object.
LEMMA SlotOK == \A o \in Obj : Slot(o) \in Slots /\ HostName[o] \in Names
  BY DEF Slots, Names

\* The values that stand for "nothing" have their types.
LEMMA NothingTypes ==
  NoContent \in Content /\ NoTenantObject \in TenantObject /\ NoHostObject \in HostObject
  /\ NoHistory \in History /\ NothingListed \in [Obj -> TenantObject]
<1>1. NoContent \in Content
  BY ConstantsAssumption DEF NoContent, Content
<1>2. NoTenantObject \in TenantObject /\ NoHostObject \in HostObject
  BY <1>1 DEF NoTenantObject, NoHostObject, TenantObject, HostObject
<1>3. NoHistory \in History
  BY DEF NoHistory, NoEntry, History, Entry
<1> QED
  BY <1>1, <1>2, <1>3 DEF NothingListed

\* A write accepted by the host API server keeps its objects well typed.
LEMMA PutHostTypes ==
  ASSUME StoreTypes, NEW s \in Slots, NEW v \in Content, NEW o \in Obj \union {Foreign},
         PutHost(s, v, o), UNCHANGED <<tenant, trev>>
  PROVE  StoreTypes'
  BY DEF PutHost, StoreTypes, HostObject

\* So does one accepted by the tenant's API server.
LEMMA PutTenantTypes ==
  ASSUME StoreTypes, NEW o \in Obj, NEW v \in Content,
         PutTenant(o, v), UNCHANGED <<host, hrev>>
  PROVE  StoreTypes'
  BY DEF PutTenant, StoreTypes, TenantObject
-----------------------------------------------------------------------------
(***************************************************************************)
(* Type correctness                                                        *)
(***************************************************************************)
\* setConverged yields a history.
LEMMA ConvergedTypes ==
  ASSUME hist \in History, NEW n \in Names, NEW t \in Nat, NEW h \in Nat
  PROVE  Converged(n, t, h) \in History
  BY DEF Converged, History, Entry

\* The end of a pair, reconcilePair's return, keeps the state of the pass typed.
LEMMA PairDoneTypes ==
  ASSUME PassTypes, PairTypes, NEW o \in todo, NEW err \in BOOLEAN, PairDone(o, err),
         UNCHANGED <<idx, snap, gc>>, tokens' \in Nat, desired' \subseteq Names
  PROVE  PassTypes' /\ PairTypes'
  BY NothingTypes DEF PassTypes, PairTypes, PairDone

\* The end of a pass in runSync resets it to typed values.
LEMMA EndPassTypes ==
  ASSUME PassTypes, hist \in History, EndPass
  PROVE  PassTypes' /\ PairTypes' /\ hist' \in History
<1>1. idx' \in 1..Len(Resources) /\ pc' \in {"idle", "list"}
  BY ConstantsAssumption DEF EndPass, PassTypes
<1>2. tokens' \in Nat /\ hist' \in History
  BY ConstantsAssumption, NothingTypes DEF EndPass, PassTypes
<1> QED
  BY <1>1, <1>2, NothingTypes DEF EndPass, PassTypes, PairTypes

\* The budget of failures stays a number.
LEMMA FaultTypes == faults \in Nat /\ Fault => faults' \in Nat
  BY DEF Fault

\* The bucket never goes below zero (rateLimited).
LEMMA AllowTypes == tokens \in Nat /\ (Allow \/ RateLimited) => tokens' \in Nat
  BY DEF Allow, RateLimited

\* reconcilePair up to its write, one case per outcome.
LEMMA PairStepTypes ==
  ASSUME TypeOK, ReconcilePair
  PROVE  TypeOK'
<1>1. PICK o \in todo : Desire(o) /\ (LeaveAlone(o) \/ Throttled(o) \/ PlanWrite(o) \/ GetFails(o))
  BY DEF ReconcilePair
<1>2. /\ UNCHANGED <<storeVars, decisionVars, idx, snap, gc, ops>>
      /\ o \in Obj /\ Slot(o) \in Slots /\ HostName[o] \in Names
  BY SlotOK DEF ReconcilePair, TypeOK, PairTypes
<1>3. desired' \subseteq Names
  BY <1>1, <1>2 DEF Desire, TypeOK, PassTypes
<1>4. host[Slot(o)] \in HostObject /\ snap[o] \in TenantObject
  BY <1>2 DEF TypeOK, StoreTypes, PassTypes
<1>5. StoreTypes'
  BY <1>2 DEF TypeOK, StoreTypes, storeVars
<1>6. CASE LeaveAlone(o)
  <2>1. HistoryTypes'
    BY <1>2, <1>4, <1>6, ConvergedTypes
    DEF LeaveAlone, TypeOK, HistoryTypes, decisionVars, HostObject, TenantObject
  <2>2. PassTypes' /\ PairTypes'
    BY <1>2, <1>3, <1>6, PairDoneTypes DEF LeaveAlone, TypeOK, PassTypes
  <2>3. BookkeepingTypes'
    BY <1>2, <1>6 DEF LeaveAlone, TypeOK, BookkeepingTypes
  <2> QED
    BY <1>5, <2>1, <2>2, <2>3 DEF TypeOK
<1>7. CASE Throttled(o)
  <2>1. HistoryTypes'
    BY <1>2, <1>7 DEF Throttled, TypeOK, HistoryTypes, decisionVars
  <2>2. PassTypes' /\ PairTypes'
    BY <1>2, <1>3, <1>7, PairDoneTypes, AllowTypes DEF Throttled, TypeOK, PassTypes
  <2>3. BookkeepingTypes'
    BY <1>2, <1>7 DEF Throttled, TypeOK, BookkeepingTypes, ghostVars
  <2> QED
    BY <1>5, <2>1, <2>2, <2>3 DEF TypeOK
<1>8. CASE PlanWrite(o)
  <2>1. HistoryTypes'
    BY <1>2, <1>8 DEF PlanWrite, TypeOK, HistoryTypes, decisionVars
  <2>2. tokens' \in Nat
    BY <1>8, AllowTypes DEF PlanWrite, TypeOK, PassTypes
  <2>3. PassTypes' /\ PairTypes'
    BY <1>2, <1>3, <1>4, <1>8, <2>2 DEF PlanWrite, TypeOK, PassTypes, PairTypes
  <2>4. BookkeepingTypes'
    BY <1>2, <1>8 DEF PlanWrite, TypeOK, BookkeepingTypes, ghostVars
  <2> QED
    BY <1>5, <2>1, <2>3, <2>4 DEF TypeOK
<1>9. CASE GetFails(o)
  <2>1. HistoryTypes'
    BY <1>2, <1>9 DEF GetFails, TypeOK, HistoryTypes, decisionVars
  <2>2. PassTypes' /\ PairTypes'
    BY <1>2, <1>3, <1>9, PairDoneTypes DEF GetFails, TypeOK, PassTypes
  <2>3. BookkeepingTypes'
    BY <1>2, <1>9, FaultTypes DEF GetFails, TypeOK, BookkeepingTypes, ghostVars
  <2> QED
    BY <1>5, <2>1, <2>2, <2>3 DEF TypeOK
<1> QED
  BY <1>1, <1>6, <1>7, <1>8, <1>9

\* What WriteFails and the three writes do to the worker's own state.
LEMMA WriteWorkerTypes ==
  ASSUME TypeOK, Write
  PROVE  PassTypes' /\ PairTypes'
<1>1. /\ cur \in todo /\ UNCHANGED <<idx, snap, gc, desired, tokens>>
      /\ \E err \in BOOLEAN : PairDone(cur, err)
  BY DEF Write, CreateHost, PushToHost, PullToTenant, WriteFails, HostWriteAnswered,
         TypeOK, PairTypes, passVars
<1> QED
  BY <1>1, PairDoneTypes DEF TypeOK, PassTypes

\* The create of reconcilePair and pushToHost.
LEMMA HostWriteTypes ==
  ASSUME TypeOK, Write, CreateHost \/ PushToHost
  PROVE  StoreTypes' /\ HistoryTypes' /\ BookkeepingTypes'
<1>1. /\ cur \in Obj /\ Slot(cur) \in Slots /\ HostName[cur] \in Names
      /\ UNCHANGED <<tenant, trev>> /\ UNCHANGED <<decisionVars, ops>>
      /\ HostWriteAnswered
  BY SlotOK DEF Write, CreateHost, PushToHost, TypeOK, PairTypes
<1>2. snap[cur].val \in Content /\ snap[cur].rv \in Nat /\ seen.val \in Content
  BY <1>1 DEF TypeOK, PassTypes, PairTypes, TenantObject, HostObject
<1>3. CreatedContent \in Content /\ PushedContent \in Content
  <2>1. DesiredContent \in Content
    BY <1>2, TransformTypes DEF DesiredContent
  <2>2. HostAddress \in Fixeds \union {HostAddress, TenantAddress, Unset}
    OBVIOUS
  <2> QED
    BY <1>2, <2>1, <2>2, TransformTypes DEF CreatedContent, PushedContent
<1>4. StoreTypes'
  BY <1>1, <1>3, PutHostTypes DEF CreateHost, PushToHost, TypeOK
<1>5. host'[Slot(cur)].rv \in Nat
  BY <1>1, <1>4 DEF StoreTypes, HostObject
<1>6. HistoryTypes'
  BY <1>1, <1>2, <1>5, ConvergedTypes DEF HostWriteAnswered, TypeOK, HistoryTypes, decisionVars
<1>7. dirtyH' \subseteq Slots /\ dirtyT' \subseteq Obj
  BY <1>1 DEF CreateHost, PushToHost, HostWriteAnswered, TypeOK, BookkeepingTypes
<1>8. faults' \in Nat /\ ops' \in Nat
  BY <1>1, FaultTypes DEF HostWriteAnswered, TypeOK, BookkeepingTypes
<1> QED
  BY <1>4, <1>6, <1>7, <1>8 DEF BookkeepingTypes

\* pullToTenant.
LEMMA PullTypes ==
  ASSUME TypeOK, Write, PullToTenant
  PROVE  StoreTypes' /\ HistoryTypes' /\ BookkeepingTypes'
<1>1. /\ cur \in Obj /\ Slot(cur) \in Slots /\ HostName[cur] \in Names
      /\ UNCHANGED <<host, hrev>> /\ UNCHANGED <<decisionVars, ops>>
      /\ PutTenant(cur, PulledContent)
  BY SlotOK DEF Write, PullToTenant, TypeOK, PairTypes
<1>2. /\ seen.val \in Content /\ seen.rv \in Nat
      /\ tenant[cur].val.fixed \in Fixeds \union {HostAddress, TenantAddress, Unset}
  BY <1>1 DEF TypeOK, StoreTypes, PairTypes, TenantObject, HostObject, Content
<1>3. PulledContent \in Content
  BY <1>2, TransformTypes DEF PulledContent
<1>4. StoreTypes'
  BY <1>1, <1>3, PutTenantTypes DEF TypeOK
<1>5. tenant'[cur].rv \in Nat
  BY <1>1, <1>4 DEF StoreTypes, TenantObject
<1>6. HistoryTypes'
  BY <1>1, <1>2, <1>5, ConvergedTypes DEF PullToTenant, TypeOK, HistoryTypes, decisionVars
<1>7. BookkeepingTypes'
  BY <1>1, FaultTypes DEF PullToTenant, TypeOK, BookkeepingTypes
<1> QED
  BY <1>4, <1>6, <1>7

\* All outcomes of the pending write.
LEMMA WriteStepTypes ==
  ASSUME TypeOK, Write
  PROVE  TypeOK'
<1>1. CASE WriteFails
  <2>1. /\ UNCHANGED <<storeVars, hist, ghostVars>> /\ UNCHANGED <<decisionVars, ops>>
        /\ (Fault \/ UNCHANGED faults)
    BY <1>1 DEF WriteFails, Write
  <2>2. StoreTypes' /\ HistoryTypes' /\ BookkeepingTypes'
    BY <2>1, FaultTypes
    DEF TypeOK, StoreTypes, HistoryTypes, BookkeepingTypes, storeVars, decisionVars, ghostVars
  <2> QED
    BY <2>2, WriteWorkerTypes DEF TypeOK
<1> QED
  BY <1>1, WriteWorkerTypes, HostWriteTypes, PullTypes DEF Write, TypeOK

\* The steps of the worker other than reconcilePair and its writes.
LEMMA RunStepTypes ==
  ASSUME TypeOK, StartRun \/ ListVirtual \/ ListHost \/ Restart \/ Refill
  PROVE  TypeOK'
<1>1. UNCHANGED <<storeVars, decisionVars, ghostVars, ops>> /\ (Fault \/ UNCHANGED faults)
  BY DEF StartRun, ListVirtual, ListHost, Restart, Refill, EndPass
<1>2. StoreTypes' /\ BookkeepingTypes' /\ UNCHANGED decisionVars
  BY <1>1, FaultTypes DEF TypeOK, StoreTypes, BookkeepingTypes, storeVars, ghostVars
<1>3. SUFFICES PassTypes' /\ PairTypes' /\ hist' \in History
  BY <1>2 DEF TypeOK, HistoryTypes, decisionVars
<1>4. hist \in History /\ cached.hist \in History /\ 1 \in 1..Len(Resources)
  BY ConstantsAssumption DEF TypeOK, HistoryTypes, DecisionObject
<1>5. CASE StartRun
  BY <1>4, <1>5, NothingTypes, ConstantsAssumption DEF StartRun, TypeOK, PassTypes, PairTypes, pairVars
<1>6. CASE ListVirtual
  <2>1. CASE EndPass
    BY <2>1, <1>4, EndPassTypes DEF TypeOK
  <2>2. CASE ~EndPass
    BY <2>2, <1>4, <1>6 DEF ListVirtual, TypeOK, StoreTypes, PassTypes, PairTypes
  <2> QED
    BY <2>1, <2>2
<1>7. CASE ListHost
  BY <1>4, <1>7 DEF ListHost, Orphans, TypeOK, PassTypes, PairTypes, pairVars
<1>8. CASE Restart
  BY <1>4, <1>8, NothingTypes, ConstantsAssumption DEF Restart, TypeOK, PassTypes, PairTypes
<1>9. CASE Refill
  BY <1>4, <1>9 DEF Refill, TypeOK, PassTypes, PairTypes, passVars, pairVars
<1> QED
  BY <1>5, <1>6, <1>7, <1>8, <1>9

\* One delete of collectOrphans.
LEMMA DeleteOrphanTypes ==
  ASSUME TypeOK, DeleteOrphan
  PROVE  TypeOK'
<1>1. PICK s \in gc :
        /\ gc' = gc \ {s}
        /\ (host' = [host EXCEPT ![s] = NoHostObject] /\ dirtyH' = dirtyH \ {s})
           \/ UNCHANGED <<host, dirtyH>>
        /\ Allow \/ RateLimited
        /\ Fault \/ UNCHANGED faults
        /\ made' \in {TRUE, made} /\ failed' \in {TRUE, failed}
  BY DEF DeleteOrphan, DeleteHost
<1>2. UNCHANGED <<tenant, trev, hrev, decisionVars, hist, pc, idx, snap, desired, pairVars,
                  dirtyT, ops>>
  BY DEF DeleteOrphan
<1>3. s \in Slots
  BY DEF TypeOK, PassTypes
<1>4. StoreTypes'
  BY <1>1, <1>2, <1>3, NothingTypes DEF TypeOK, StoreTypes
<1>5. HistoryTypes'
  BY <1>2 DEF TypeOK, HistoryTypes, decisionVars
<1>6. PassTypes'
  BY <1>1, <1>2, AllowTypes DEF TypeOK, PassTypes
<1>7. PairTypes'
  BY <1>2 DEF TypeOK, PairTypes, pairVars
<1>8. BookkeepingTypes'
  BY <1>1, <1>2, FaultTypes DEF TypeOK, BookkeepingTypes
<1> QED
  BY <1>4, <1>5, <1>6, <1>7, <1>8 DEF TypeOK

\* recordSyncDecisions and the end of the pass.
LEMMA FinishPassTypes ==
  ASSUME TypeOK, FinishPass
  PROVE  TypeOK'
<1>1. UNCHANGED <<storeVars, ghostVars, ops>> /\ (Fault \/ UNCHANGED faults) /\ EndPass
  BY DEF FinishPass, StoreDecisions
<1>2. StoreTypes' /\ BookkeepingTypes'
  BY <1>1, FaultTypes DEF TypeOK, StoreTypes, BookkeepingTypes, storeVars, ghostVars
<1>3. PassTypes' /\ PairTypes' /\ hist' \in History
  BY <1>1, EndPassTypes DEF TypeOK, HistoryTypes
<1>4. saved' \in DecisionObject /\ cached' \in DecisionObject /\ stale' \in BOOLEAN
  <2>1. ASSUME NEW h \in History, PutDecisions([exists |-> TRUE, hist |-> h])
        PROVE  saved' \in DecisionObject /\ cached' \in DecisionObject /\ stale' \in BOOLEAN
    BY <2>1, ConstantsAssumption DEF PutDecisions, TypeOK, HistoryTypes, DecisionObject
  <2>2. CASE UNCHANGED decisionVars
    BY <2>2 DEF decisionVars, TypeOK, HistoryTypes
  <2>3. hist \in History /\ saved.hist \in History /\ NoHistory \in History
    BY NothingTypes DEF TypeOK, HistoryTypes, DecisionObject
  <2>4. CASE PutDecisions([exists |-> TRUE,
                           hist |-> IF hist # NoHistory THEN hist ELSE saved.hist])
    BY <2>1, <2>3, <2>4
  <2>5. CASE PutDecisions([exists |-> TRUE, hist |-> NoHistory])
    BY <2>1, <2>3, <2>5
  <2> QED
    BY <2>2, <2>4, <2>5 DEF FinishPass, StoreDecisions
<1> QED
  BY <1>2, <1>3, <1>4 DEF TypeOK, HistoryTypes

\* The informer, and the users of the two clusters.
LEMMA OutsideTypes ==
  ASSUME TypeOK, CacheSync \/ Environment
  PROVE  TypeOK'
<1>1. CASE CacheSync
  BY <1>1 DEF CacheSync, TypeOK, StoreTypes, HistoryTypes, PassTypes, PairTypes, BookkeepingTypes,
              storeVars, passVars, pairVars, ghostVars
<1>2. ASSUME NEW op, Outside(op), StoreTypes', dirtyT' \subseteq Obj, dirtyH' \subseteq Slots
      PROVE  TypeOK'
  <2>1. ops' \in Nat
    BY <1>2 DEF Outside, TypeOK, BookkeepingTypes
  <2>2. HistoryTypes' /\ PassTypes' /\ PairTypes'
    BY <1>2 DEF Outside, TypeOK, HistoryTypes, PassTypes, PairTypes, decisionVars, passVars, pairVars
  <2>3. BookkeepingTypes'
    BY <1>2, <2>1 DEF Outside, TypeOK, BookkeepingTypes
  <2> QED
    BY <1>2, <2>2, <2>3 DEF TypeOK
<1>3. StoreTypes /\ dirtyT \subseteq Obj /\ dirtyH \subseteq Slots
  BY DEF TypeOK, BookkeepingTypes
<1>4. ASSUME NEW o \in Obj PROVE tenant[o].val \in Content
  BY <1>3 DEF StoreTypes, TenantObject
<1>5. ASSUME NEW s \in Slots PROVE host[s].val \in Content /\ host[s].src \in Obj \union {Foreign}
  BY <1>3 DEF StoreTypes, HostObject
<1>6. ASSUME NEW v \in Content, NEW f \in Frees PROVE [v EXCEPT !.free = f] \in Content
  BY DEF Content
<1>7. ASSUME NEW o \in Obj, NEW c \in TenantContents(KindOf[o]), TenantCreate(o, c) PROVE TypeOK'
  <2>1. c \in Content
    BY DEF TenantContents, Content
  <2>2. StoreTypes'
    BY <1>3, <1>7, <2>1, PutTenantTypes DEF TenantCreate
  <2> QED
    BY <1>2, <1>3, <1>7, <2>2 DEF TenantCreate
<1>8. ASSUME NEW o \in Obj, NEW f \in Frees, TenantEdit(o, f) PROVE TypeOK'
  <2>2. StoreTypes'
    BY <1>3, <1>4, <1>6, <1>8, PutTenantTypes DEF TenantEdit
  <2> QED
    BY <1>2, <1>3, <1>8, <2>2 DEF TenantEdit
<1>9. ASSUME NEW o \in Obj, TenantDelete(o) PROVE TypeOK'
  <2>2. StoreTypes'
    BY <1>3, <1>9, NothingTypes DEF TenantDelete, StoreTypes
  <2> QED
    BY <1>2, <1>3, <1>9, <2>2 DEF TenantDelete
<1>10. ASSUME NEW o \in Obj, TenantTouch(o) PROVE TypeOK'
  <2>2. StoreTypes'
    BY <1>3, <1>4, <1>10 DEF TenantTouch, StoreTypes, TenantObject
  <2> QED
    BY <1>2, <1>3, <1>10, <2>2 DEF TenantTouch, ghostVars
<1>11. ASSUME NEW s \in Slots, NEW f \in Frees, HostEdit(s, f) PROVE TypeOK'
  <2>2. StoreTypes'
    BY <1>3, <1>5, <1>6, <1>11, PutHostTypes DEF HostEdit
  <2> QED
    BY <1>2, <1>3, <1>11, <2>2 DEF HostEdit
<1>12. ASSUME NEW s \in Slots, HostDelete(s) PROVE TypeOK'
  <2>2. StoreTypes'
    BY <1>3, <1>12, NothingTypes DEF HostDelete, StoreTypes
  <2> QED
    BY <1>2, <1>3, <1>12, <2>2 DEF HostDelete
<1>13. ASSUME NEW s \in Slots, ForeignCreate(s) PROVE TypeOK'
  <2>2. StoreTypes'
    BY <1>3, <1>13, NothingTypes, PutHostTypes DEF ForeignCreate
  <2> QED
    BY <1>2, <1>3, <1>13, <2>2 DEF ForeignCreate, ghostVars
<1>14. ASSUME NEW s \in Slots, HostTouch(s) PROVE TypeOK'
  <2>2. StoreTypes'
    BY <1>3, <1>5, <1>14 DEF HostTouch, StoreTypes, HostObject
  <2> QED
    BY <1>2, <1>3, <1>14, <2>2 DEF HostTouch, ghostVars
<1>15. ASSUME NEW s \in Slots, HostSchedule(s) PROVE TypeOK'
  <2>1. [host[s].val EXCEPT !.fixed = HostAddress] \in Content
    BY <1>5 DEF Content
  <2>2. StoreTypes'
    BY <1>3, <1>5, <1>15, <2>1, PutHostTypes DEF HostSchedule
  <2> QED
    BY <1>2, <1>3, <1>15, <2>2 DEF HostSchedule, ghostVars
<1>16. ASSUME TenantReset PROVE TypeOK'
  <2>2. StoreTypes'
    BY <1>3, <1>16, NothingTypes DEF TenantReset, StoreTypes
  <2> QED
    BY <1>2, <1>3, <1>16, <2>2 DEF TenantReset
<1> QED
  BY <1>1, <1>7, <1>8, <1>9, <1>10, <1>11, <1>12, <1>13, <1>14, <1>15, <1>16 DEF Environment

\* The initial state is typed.
LEMMA InitTypes == Init => TypeOK
<1> SUFFICES ASSUME Init PROVE TypeOK
  OBVIOUS
<1>1. StoreTypes
  BY NothingTypes DEF Init, StoreTypes
<1>2. HistoryTypes
  BY NothingTypes DEF Init, HistoryTypes, DecisionObject
<1>3. PassTypes /\ PairTypes
  <2>1. 1 \in 1..Len(Resources) /\ Burst \in Nat
    BY ConstantsAssumption
  <2>2. PassTypes
    BY <2>1, NothingTypes DEF Init, PassTypes
  <2> QED
    BY <2>2, NothingTypes DEF Init, PairTypes
<1>4. BookkeepingTypes
  BY ConstantsAssumption DEF Init, BookkeepingTypes
<1> QED
  BY <1>1, <1>2, <1>3, <1>4 DEF TypeOK

\* Every step keeps the types.
LEMMA StepTypes == TypeOK /\ [Next]_vars => TypeOK'
<1>1. CASE UNCHANGED vars
  BY <1>1 DEF vars, storeVars, decisionVars, passVars, pairVars, ghostVars,
     TypeOK, StoreTypes, HistoryTypes, PassTypes, PairTypes, BookkeepingTypes
<1> QED
  BY <1>1, PairStepTypes, WriteStepTypes, RunStepTypes, DeleteOrphanTypes, FinishPassTypes,
     OutsideTypes DEF Next, Worker

\* The variables of the engine, of its pass and of the two API servers always
\* have their types, and a write is always for an object of the list.
THEOREM TypeCorrect == Spec => []TypeOK
  BY InitTypes, StepTypes, PTL DEF Spec
-----------------------------------------------------------------------------
(***************************************************************************)
(* Provenance and garbage collection                                       *)
(*                                                                         *)
(* Neither ProvenanceStable nor OnlyOrphansDeleted is inductive.  A push   *)
(* keeps the provenance because the object it read had the right source    *)
(* and any later write gave the slot a new resourceVersion, so the API     *)
(* server's version check fails; a collected mirror has no listed source   *)
(* because a mirror sits in the slot of its source, and every listed       *)
(* object is still to be done or has its name among the desired ones.      *)
(***************************************************************************)
VersionsBounded == \A s \in Slots : host[s].rv <= hrev

PendingPush ==
  pc = "write" /\ plan = "push" =>
    /\ seen.rv # 0 /\ seen.rv <= hrev /\ seen.src = cur
    /\ host[Slot(cur)].rv = seen.rv => host[Slot(cur)].src = cur

MirrorsPlaced ==
  \A s \in Slots : Managed(host[s]) => Slot(host[s].src) = s /\ host[s].src \notin System

ListedCovered ==
  /\ \A o \in todo : o \notin System
  /\ pc = "write" => HostName[cur] \in desired
  /\ pc \in {"pair", "write", "gc"} =>
       \A o \in Obj : Eligible(o) /\ Exists(snap[o]) => o \in todo \/ HostName[o] \in desired

OrphansListed ==
  pc = "gc" => todo = {} /\ \A s \in gc : s[1] = Kind /\ s[2] \notin desired

ProvenanceInv ==
  /\ TypeOK
  /\ VersionsBounded /\ PendingPush /\ MirrorsPlaced
  /\ ListedCovered /\ OrphansListed

\* What a step may do to the object in slot s: leave it alone, remove it, or
\* give it a new version that keeps the source of what was there.
HostMove(s) ==
  \/ host'[s] = host[s] /\ hrev' \in {hrev, hrev + 1}
  \/ host'[s] = NoHostObject /\ hrev' = hrev
  \/ /\ host'[s].rv = hrev + 1 /\ hrev' = hrev + 1
     /\ Exists(host[s]) => host'[s].src = host[s].src
     /\ host'[s].src # Foreign => Slot(host'[s].src) = s /\ host'[s].src \notin System

\* A put that does not change the source of an object is such a move.
LEMMA PutHostMoves ==
  ASSUME TypeOK, NEW p \in Slots, NEW v \in Content, NEW o \in Obj \union {Foreign},
         PutHost(p, v, o),
         Exists(host[p]) => host[p].src = o,
         o # Foreign => Slot(o) = p /\ o \notin System,
         NEW s \in Slots
  PROVE  HostMove(s)
<1>1. host \in [Slots -> HostObject] /\ hrev \in Nat
  BY DEF TypeOK, StoreTypes
<1> QED
  BY <1>1 DEF PutHost, HostMove

\* Every step treats every slot that way.
LEMMA HostMoves ==
  ASSUME ProvenanceInv, [Next]_vars, NEW s \in Slots
  PROVE  HostMove(s)
<1>1. TypeOK /\ VersionsBounded /\ PendingPush /\ MirrorsPlaced /\ ListedCovered
  BY DEF ProvenanceInv
<1>2. host \in [Slots -> HostObject] /\ hrev \in Nat
  BY <1>1 DEF TypeOK, StoreTypes
<1>3. ASSUME UNCHANGED <<host, hrev>> PROVE HostMove(s)
  BY <1>3 DEF HostMove
<1>4. ASSUME NEW p \in Slots, host' = [host EXCEPT ![p] = NoHostObject], UNCHANGED hrev
      PROVE  HostMove(s)
  BY <1>2, <1>4 DEF HostMove
<1>5. CASE StartRun \/ ListVirtual \/ ReconcilePair \/ ListHost \/ FinishPass \/ Restart
           \/ CacheSync \/ Refill
  BY <1>3, <1>5 DEF StartRun, ListVirtual, ReconcilePair, ListHost, FinishPass, Restart,
     CacheSync, Refill, storeVars
<1>6. CASE Write
  <2>1. /\ pc = "write" /\ cur \in Obj /\ Slot(cur) \in Slots /\ cur # Foreign /\ cur \notin System
    BY <1>1, <1>6, SlotOK, ConstantsAssumption DEF Write, TypeOK, PairTypes, ListedCovered
  <2>2. snap[cur].val \in Content /\ seen.val \in Content
    BY <1>1, <2>1 DEF TypeOK, PassTypes, PairTypes, TenantObject, HostObject
  <2>3. CreatedContent \in Content /\ PushedContent \in Content
    <3>1. DesiredContent \in Content
      BY <2>2, TransformTypes DEF DesiredContent
    <3>2. HostAddress \in Fixeds \union {HostAddress, TenantAddress, Unset}
      OBVIOUS
    <3> QED
      BY <2>2, <3>1, <3>2, TransformTypes DEF CreatedContent, PushedContent
  <2>4. CASE CreateHost
    BY <1>1, <2>1, <2>3, <2>4, PutHostMoves DEF CreateHost, CreateAccepted
  <2>5. CASE PushToHost
    BY <1>1, <2>1, <2>3, <2>5, PutHostMoves DEF PushToHost, PushAccepted, PendingPush
  <2>6. CASE PullToTenant \/ WriteFails
    BY <1>3, <2>6 DEF PullToTenant, WriteFails, storeVars
  <2> QED
    BY <1>6, <2>4, <2>5, <2>6 DEF Write
<1>7. CASE DeleteOrphan
  <2>1. gc \subseteq Slots
    BY <1>1 DEF TypeOK, PassTypes
  <2> QED
    BY <1>3, <1>4, <1>7, <2>1 DEF DeleteOrphan, DeleteHost
<1>8. ASSUME NEW o \in Obj,
             \/ \E c \in TenantContents(KindOf[o]) : TenantCreate(o, c)
             \/ \E f \in Frees : TenantEdit(o, f)
             \/ TenantDelete(o)
             \/ TenantTouch(o)
      PROVE  HostMove(s)
  BY <1>3, <1>8 DEF TenantCreate, TenantEdit, TenantDelete, TenantTouch
<1>9. ASSUME NEW p \in Slots, NEW f \in Frees, HostEdit(p, f) PROVE HostMove(s)
  <2>1. /\ host[p].src \in Obj \union {Foreign} /\ host[p].val \in Content
        /\ Slot(host[p].src) = p /\ host[p].src \notin System
    BY <1>1, <1>2, <1>9 DEF HostEdit, MirrorsPlaced, HostObject
  <2>2. [host[p].val EXCEPT !.free = f] \in Content
    BY <2>1 DEF Content
  <2> QED
    BY <1>1, <1>9, <2>1, <2>2, PutHostMoves DEF HostEdit
<1>10. ASSUME NEW p \in Slots, HostDelete(p) PROVE HostMove(s)
  BY <1>4, <1>10 DEF HostDelete
<1>11. ASSUME NEW p \in Slots, ForeignCreate(p) PROVE HostMove(s)
  BY <1>1, <1>11, NothingTypes, PutHostMoves DEF ForeignCreate
<1>12. ASSUME NEW p \in Slots, HostTouch(p) PROVE HostMove(s)
  <2>1. Slot(host[p].src) = p /\ host[p].src \notin System
    BY <1>1, <1>12 DEF HostTouch, MirrorsPlaced
  <2> QED
    BY <1>2, <1>12, <2>1 DEF HostTouch, HostMove
<1>13. ASSUME NEW p \in Slots, HostSchedule(p) PROVE HostMove(s)
  <2>1. /\ host[p].src \in Obj \union {Foreign} /\ host[p].val \in Content
        /\ Slot(host[p].src) = p /\ host[p].src \notin System
    BY <1>1, <1>2, <1>13 DEF HostSchedule, MirrorsPlaced, HostObject
  <2>2. [host[p].val EXCEPT !.fixed = HostAddress] \in Content
    BY <2>1 DEF Content
  <2> QED
    BY <1>1, <1>13, <2>1, <2>2, PutHostMoves DEF HostSchedule
<1>14. CASE TenantReset
  BY <1>3, <1>14 DEF TenantReset
<1>15. CASE UNCHANGED vars
  BY <1>3, <1>15 DEF vars, storeVars
<1> QED
  BY <1>5, <1>6, <1>7, <1>8, <1>9, <1>10, <1>11, <1>12, <1>13, <1>14, <1>15
  DEF Next, Worker, Environment

\* A write that is pending after a step was pending before it, or was planned
\* by it.
LEMMA PendingWrites ==
  ASSUME TypeOK, [Next]_vars, pc' = "write"
  PROVE  \/ pc = "write" /\ UNCHANGED <<plan, seen, cur>>
         \/ UNCHANGED <<host, hrev>> /\ \E o \in todo : PlanWrite(o)
<1>1. CASE ReconcilePair
  BY <1>1 DEF ReconcilePair, LeaveAlone, Throttled, GetFails, PairDone, storeVars
<1>2. CASE Write
  BY <1>2 DEF Write, CreateHost, PushToHost, PullToTenant, WriteFails, HostWriteAnswered, PairDone
<1>3. CASE StartRun \/ ListVirtual \/ ListHost \/ FinishPass \/ Restart
  BY <1>3 DEF StartRun, ListVirtual, ListHost, FinishPass, Restart, EndPass
<1>4. CASE DeleteOrphan
  BY <1>4 DEF DeleteOrphan
<1>5. CASE CacheSync \/ Refill
  BY <1>5 DEF CacheSync, Refill, pairVars
<1>6. ASSUME NEW op, Outside(op) PROVE pc = "write" /\ UNCHANGED <<plan, seen, cur>>
  BY <1>6 DEF Outside, pairVars
<1>7. CASE Environment
  BY <1>6, <1>7 DEF Environment, TenantCreate, TenantEdit, TenantDelete, TenantTouch,
     HostEdit, HostDelete, ForeignCreate, HostTouch, HostSchedule, TenantReset
<1>8. CASE UNCHANGED vars
  BY <1>8 DEF vars, pairVars
<1> QED
  BY <1>1, <1>2, <1>3, <1>4, <1>5, <1>7, <1>8 DEF Next, Worker

\* The versions of the API server and the provenance of its objects.
LEMMA HostSideStep ==
  ASSUME ProvenanceInv, [Next]_vars
  PROVE  VersionsBounded' /\ PendingPush' /\ MirrorsPlaced'
<1>1. TypeOK /\ TypeOK' /\ VersionsBounded /\ PendingPush /\ MirrorsPlaced
  BY StepTypes DEF ProvenanceInv
<1>2. host \in [Slots -> HostObject] /\ host' \in [Slots -> HostObject] /\ hrev \in Nat
      /\ hrev' \in Nat
  BY <1>1 DEF TypeOK, StoreTypes
<1>3. ASSUME NEW s \in Slots
      PROVE  HostMove(s) /\ host[s].rv \in Nat /\ host'[s].rv \in Nat /\ host[s].rv <= hrev
  BY <1>1, <1>2, HostMoves DEF VersionsBounded, HostObject
<1>4. VersionsBounded'
  <2>1. ASSUME NEW s \in Slots PROVE host'[s].rv <= hrev'
    BY <1>2, <1>3 DEF HostMove, NoHostObject
  <2> QED
    BY <2>1 DEF VersionsBounded
<1>5. MirrorsPlaced'
  <2>1. ASSUME NEW s \in Slots, Managed(host'[s])
        PROVE  Slot(host'[s].src) = s /\ host'[s].src \notin System
    BY <1>1, <1>3, <2>1 DEF HostMove, NoHostObject, MirrorsPlaced, Managed, Exists
  <2> QED
    BY <2>1 DEF MirrorsPlaced, Slots, Slot, Managed, Exists
<1>6. PendingPush'
  <2> SUFFICES ASSUME pc' = "write", plan' = "push"
               PROVE  /\ seen'.rv # 0 /\ seen'.rv <= hrev' /\ seen'.src = cur'
                      /\ host'[Slot(cur')].rv = seen'.rv => host'[Slot(cur')].src = cur'
    BY DEF PendingPush, Slot
  <2>1. cur' \in Obj /\ Slot(cur') \in Slots
    BY <1>1, SlotOK DEF TypeOK, PairTypes
  <2>2. CASE pc = "write" /\ UNCHANGED <<plan, seen, cur>>
    BY <1>1, <1>2, <1>3, <2>1, <2>2 DEF PendingPush, HostMove, NoHostObject, TypeOK, PairTypes, HostObject, Exists
  <2>3. ASSUME NEW o \in todo, PlanWrite(o), UNCHANGED <<host, hrev>>
        PROVE  /\ seen'.rv # 0 /\ seen'.rv <= hrev' /\ seen'.src = cur'
               /\ host'[Slot(cur')].rv = seen'.rv => host'[Slot(cur')].src = cur'
    <3>1. seen' = host[Slot(o)] /\ cur' = o /\ NeedsPush(o, host[Slot(o)])
      BY <2>3 DEF PlanWrite
    <3>2. seen'.rv # 0 /\ seen'.src = o
      BY <3>1 DEF NeedsPush, MirrorOf, MadeFrom, Exists
    <3> QED
      BY <1>3, <2>1, <2>3, <3>1, <3>2
  <2> QED
    BY <1>1, <2>2, <2>3, PendingWrites
<1> QED
  BY <1>4, <1>5, <1>6

\* The objects of the list, the desired names and the orphans of the pass.
LEMMA PassStep ==
  ASSUME ProvenanceInv, [Next]_vars
  PROVE  ListedCovered' /\ OrphansListed'
<1>1. TypeOK /\ ListedCovered /\ OrphansListed
  BY DEF ProvenanceInv
<1>2. ASSUME UNCHANGED <<pc, idx, snap, todo, desired, gc, cur>>
      PROVE  ListedCovered' /\ OrphansListed'
  BY <1>1, <1>2 DEF ListedCovered, OrphansListed, Eligible, Kind
<1>3. ASSUME pc' \in {"idle", "list"}, todo' \subseteq todo
      PROVE  ListedCovered' /\ OrphansListed'
  BY <1>1, <1>3 DEF ListedCovered, OrphansListed
<1>4. CASE StartRun \/ FinishPass \/ Restart
  BY <1>3, <1>4 DEF StartRun, FinishPass, Restart, EndPass, pairVars
<1>5. CASE ListVirtual
  <2>1. CASE EndPass
    BY <1>3, <2>1 DEF EndPass
  <2>2. CASE ~EndPass
    BY <1>5, <2>2 DEF ListVirtual, ListedCovered, OrphansListed, Eligible, Kind
  <2> QED
    BY <2>1, <2>2
<1>6. ASSUME NEW o \in todo, NEW err, PairDone(o, err), HostName[o] \in desired',
             desired \subseteq desired', UNCHANGED <<idx, snap>>, pc \in {"pair", "write"}
      PROVE  ListedCovered' /\ OrphansListed'
  BY <1>1, <1>6 DEF PairDone, ListedCovered, OrphansListed, Eligible, Kind
<1>7. CASE ReconcilePair
  <2>1. PICK o \in todo : Desire(o) /\ (LeaveAlone(o) \/ Throttled(o) \/ PlanWrite(o) \/ GetFails(o))
    BY <1>7 DEF ReconcilePair
  <2>2. /\ HostName[o] \in desired' /\ desired \subseteq desired' /\ UNCHANGED <<idx, snap>>
        /\ pc = "pair"
    BY <1>7, <2>1 DEF ReconcilePair, Desire
  <2>3. CASE LeaveAlone(o) \/ Throttled(o) \/ GetFails(o)
    BY <1>6, <2>2, <2>3 DEF LeaveAlone, Throttled, GetFails
  <2>4. CASE PlanWrite(o)
    BY <1>1, <2>2, <2>4 DEF PlanWrite, ListedCovered, OrphansListed, Eligible, Kind
  <2> QED
    BY <2>1, <2>3, <2>4
<1>8. CASE Write
  <2>1. /\ pc = "write" /\ cur \in todo /\ HostName[cur] \in desired
        /\ UNCHANGED <<idx, snap, desired>>
        /\ \E err \in BOOLEAN : PairDone(cur, err)
    BY <1>1, <1>8 DEF Write, CreateHost, PushToHost, PullToTenant, WriteFails, HostWriteAnswered,
       TypeOK, PairTypes, ListedCovered, passVars
  <2> QED
    BY <1>6, <2>1
<1>9. CASE ListHost
  BY <1>1, <1>9 DEF ListHost, Orphans, ListedCovered, OrphansListed, Eligible, Kind, pairVars
<1>10. CASE DeleteOrphan
  <2>1. gc' \subseteq gc /\ UNCHANGED <<pc, idx, snap, todo, desired, cur>>
    BY <1>10 DEF DeleteOrphan, pairVars
  <2> QED
    BY <1>1, <2>1 DEF ListedCovered, OrphansListed, Eligible, Kind
<1>11. CASE CacheSync \/ Refill
  BY <1>2, <1>11 DEF CacheSync, Refill, passVars, pairVars
<1>12. ASSUME NEW op, Outside(op) PROVE ListedCovered' /\ OrphansListed'
  BY <1>2, <1>12 DEF Outside, passVars, pairVars
<1>13. CASE Environment
  BY <1>12, <1>13 DEF Environment, TenantCreate, TenantEdit, TenantDelete, TenantTouch,
     HostEdit, HostDelete, ForeignCreate, HostTouch, HostSchedule, TenantReset
<1>14. CASE UNCHANGED vars
  BY <1>2, <1>14 DEF vars, passVars, pairVars
<1> QED
  BY <1>4, <1>5, <1>7, <1>8, <1>9, <1>10, <1>11, <1>13, <1>14 DEF Next, Worker

\* The inductive invariant holds initially and is kept by every step.
LEMMA ProvenanceInvariance == Spec => []ProvenanceInv
<1>1. Init => ProvenanceInv
  <2> SUFFICES ASSUME Init PROVE ProvenanceInv
    OBVIOUS
  <2>1. VersionsBounded /\ PendingPush /\ MirrorsPlaced
    BY DEF Init, VersionsBounded, PendingPush, MirrorsPlaced, NoHostObject, Managed, Exists
  <2>2. ListedCovered /\ OrphansListed
    BY DEF Init, ListedCovered, OrphansListed
  <2> QED
    BY <2>1, <2>2, InitTypes DEF ProvenanceInv
<1>2. ProvenanceInv /\ [Next]_vars => ProvenanceInv'
  BY StepTypes, HostSideStep, PassStep DEF ProvenanceInv
<1> QED
  BY <1>1, <1>2, PTL DEF Spec

\* No host object is ever turned into the mirror of another source in place:
\* the provenance check of reconcilePair and the resourceVersion pushToHost sends
\* are together enough, whatever is written between the two.
THEOREM ProvenanceNeverChanges == Spec => ProvenanceStable
<1>1. ASSUME ProvenanceInv, [Next]_vars
      PROVE  \A s \in Slots : Exists(host[s]) /\ Exists(host'[s]) => host'[s].src = host[s].src
  BY <1>1, HostMoves DEF HostMove, NoHostObject, Exists
<1> QED
  BY <1>1, ProvenanceInvariance, PTL DEF Spec, ProvenanceStable

\* The engine removes a mirror only if its source was not in the list the pass
\* started from: no error, rate limit or skipped pair makes collectOrphans take
\* the mirror of a listed object.
THEOREM OnlyOrphansAreDeleted == Spec => OnlyOrphansDeleted
<1>1. ASSUME ProvenanceInv, [Next]_vars, NEW s \in Slots, EngineStep, Managed(host[s]),
             ~Exists(host'[s])
      PROVE  ~Exists(snap[host[s].src])
  <2>1. TypeOK /\ MirrorsPlaced /\ ListedCovered /\ OrphansListed
    BY <1>1 DEF ProvenanceInv
  <2>2. host \in [Slots -> HostObject] /\ hrev \in Nat /\ ops \in Nat
    BY <2>1 DEF TypeOK, StoreTypes, BookkeepingTypes
  <2>3. CASE DeleteOrphan
    <3>1. pc = "gc" /\ s \in gc
      BY <1>1, <2>2, <2>3 DEF DeleteOrphan, DeleteHost, Managed
    <3>2. s[1] = Kind /\ s[2] \notin desired /\ todo = {}
      BY <2>1, <3>1 DEF OrphansListed
    <3>3. /\ host[s].src \in Obj /\ host[s].src \notin System
          /\ KindOf[host[s].src] = s[1] /\ HostName[host[s].src] = s[2]
      BY <1>1, <2>1, <2>2 DEF MirrorsPlaced, Slot, Managed, HostObject
    <3> QED
      BY <2>1, <3>1, <3>2, <3>3 DEF ListedCovered, Eligible
  <2>4. CASE UNCHANGED host
    BY <1>1, <2>4 DEF Managed
  <2>5. CASE Write
    <3>1. cur \in Obj /\ Slot(cur) \in Slots
      BY <2>1, <2>5, SlotOK DEF Write, TypeOK, PairTypes
    <3>2. ASSUME NEW v, NEW o, PutHost(Slot(cur), v, o) PROVE Exists(host'[s])
      BY <1>1, <2>2, <3>1, <3>2 DEF PutHost, Managed, Exists
    <3> QED
      BY <1>1, <2>4, <2>5, <3>2
      DEF Write, CreateHost, PushToHost, PullToTenant, WriteFails, storeVars
  <2>6. ~Environment
    <3>1. ASSUME NEW op, Outside(op) PROVE FALSE
      BY <1>1, <2>2, <3>1 DEF Outside, EngineStep
    <3> QED
      BY <3>1 DEF Environment, TenantCreate, TenantEdit, TenantDelete, TenantTouch,
         HostEdit, HostDelete, ForeignCreate, HostTouch, HostSchedule, TenantReset
  <2> QED
    BY <1>1, <2>3, <2>4, <2>5, <2>6 DEF Next, Worker, StartRun, ListVirtual, ReconcilePair,
       ListHost, FinishPass, Restart, CacheSync, Refill, storeVars, vars
<1>2. ASSUME ProvenanceInv, [Next]_vars
      PROVE  \A s \in Slots :
               EngineStep /\ Managed(host[s]) /\ ~Exists(host'[s]) => ~Exists(snap[host[s].src])
  BY <1>1, <1>2
<1> QED
  BY <1>2, ProvenanceInvariance, PTL DEF Spec, OnlyOrphansDeleted
=============================================================================
