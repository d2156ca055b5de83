------------------------ MODULE SyncEngineRefinement ------------------------
(***************************************************************************)
(* The engine implements SyncedPairs: resourceVersions, the convergence    *)
(* history and its copies in the SyncDecision object and the informer are  *)
(* enough to know which side of a pair holds an edit the other has not     *)
(* seen, without keeping any content.                                      *)
(***************************************************************************)
EXTENDS SyncEngine

\* What is compared of a content: the tenant's side and the host's.
TenantValue(o, x) ==
  IF Exists(x) THEN {stripHostAllocatedSpecFields(KindOf[o], x.val)} ELSE {}

HostValue(k, x) ==
  IF Exists(x)
  THEN {[src |-> x.src,
         val |-> stripHostAllocatedSpecFields(k, ComparableHost(k, x.val, Required))]}
  ELSE {}

\* The refinement mapping: both sides, the list and the host object at hand.
TenantSide == [o \in Obj |-> TenantValue(o, tenant[o])]
HostSide == [s \in Slots |-> HostValue(s[1], host[s])]
Listed == [o \in Obj |-> TenantValue(o, snap[o])]
AtHand == HostValue(Kind, seen)

Pairs == INSTANCE SyncedPairs WITH
  SlotOf <- [o \in Obj |-> Slot(o)],
  Value <- Content,
  tenant <- TenantSide,
  mirror <- HostSide,
  copy <- Listed,
  peek <- AtHand,
  newT <- dirtyT,
  newH <- dirtyH

\* conflictPolicy "manual" keeps the promise SyncedPairs makes: whatever users do
\* between the engine's calls, and whatever of its memory a failure, a restart or
\* a lagging informer takes from it, every write of the engine is one that
\* SyncedPairs allows (reconcilePair, pushToHost, pullToTenant, collectOrphans).
ImplementsPairs == Pairs!Spec
=============================================================================
