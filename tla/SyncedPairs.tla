---------------------------- MODULE SyncedPairs ----------------------------
(***************************************************************************)
(* What bidirectional synchronisation with conflictPolicy "manual"         *)
(* promises its users, without the machinery that keeps the promise:       *)
(* no resourceVersions, no convergence history, no SyncDecision object, no *)
(* informer, no rate limiter, no list of orphans.                          *)
(*                                                                         *)
(* A value is what ContentEqual compares.  The engine works from copies:   *)
(* what it listed of the tenant's side and what it read of the host's.     *)
(* Users write behind its back.  It may carry a copy over to the other     *)
(* side only while the copy is still good and the content it replaces is   *)
(* one the other side has seen.                                            *)
(***************************************************************************)
CONSTANTS
  Obj,       \* tenant objects
  Slots,     \* places on the host
  SlotOf,    \* the place of each object's mirror
  Value,     \* contents
  Foreign    \* the source of a host object that is no mirror

VARIABLES
  tenant,    \* the value of each tenant object: {v}, or {} when there is none
  mirror,    \* the object in each slot: {[src, val]}, or {}
  copy,      \* the tenant values the engine works from
  peek,      \* the host object it works from
  newT, newH \* objects and slots with a user's edit the other side has not seen

vars == <<tenant, mirror, copy, peek, newT, newH>>

Nothing == [o \in Obj |-> {}]

Init ==
  /\ tenant = Nothing /\ mirror = [s \in Slots |-> {}]
  /\ copy = Nothing /\ peek = {}
  /\ newT = {} /\ newH = {}
-----------------------------------------------------------------------------
(* The users *)

TenantWrites(o, v) ==
  /\ tenant' = [tenant EXCEPT ![o] = {v}]
  /\ newT' = newT \union {o}
  /\ UNCHANGED <<mirror, copy, peek, newH>>

TenantDeletes(o) ==
  /\ tenant' = [tenant EXCEPT ![o] = {}]
  /\ newT' = newT \ {o}
  /\ UNCHANGED <<mirror, copy, peek, newH>>

HostEdits(s, v) ==
  /\ \E x \in mirror[s] : x.src # Foreign /\ mirror' = [mirror EXCEPT ![s] = {[x EXCEPT !.val = v]}]
  /\ newH' = newH \union {s}
  /\ UNCHANGED <<tenant, copy, peek, newT>>

HostDeletes(s) ==
  /\ mirror' = [mirror EXCEPT ![s] = {}]
  /\ newH' = newH \ {s}
  /\ UNCHANGED <<tenant, copy, peek, newT>>

ForeignTakes(s, v) ==
  /\ mirror[s] = {}
  /\ mirror' = [mirror EXCEPT ![s] = {[src |-> Foreign, val |-> v]}]
  /\ UNCHANGED <<tenant, copy, peek, newT, newH>>
-----------------------------------------------------------------------------
(* The engine *)

\* The object the engine makes of its copy of o.
Image(o) == {[src |-> o, val |-> v] : v \in copy[o]}

\* The engine may note that the tenant's edit of o arrived, if the mirror now
\* has what the tenant has now.
TenantEditArrives(o) ==
  \/ UNCHANGED newT
  \/ tenant[o] = copy[o] /\ mirror'[SlotOf[o]] = Image(o) /\ newT' = newT \ {o}

Look == copy' = tenant /\ UNCHANGED <<tenant, mirror, peek, newT, newH>>

Peek(o) == peek' = mirror[SlotOf[o]] /\ UNCHANGED <<tenant, mirror, copy, newT, newH>>

\* A copy is dropped: the engine is done with it, or failed, or was restarted.
Forget == peek' = {} /\ copy' \in {copy, Nothing} /\ UNCHANGED <<tenant, mirror, newT, newH>>

\* A new mirror, only where there is nothing.
Project(o) ==
  /\ copy[o] # {} /\ mirror[SlotOf[o]] = {}
  /\ mirror' = [mirror EXCEPT ![SlotOf[o]] = Image(o)]
  /\ peek' = {}
  /\ TenantEditArrives(o)
  /\ UNCHANGED <<tenant, copy, newH>>

\* The tenant's content replaces the mirror's, which the engine has read and
\* which holds no edit the tenant has not seen.
Push(o) ==
  LET s == SlotOf[o]
  IN  /\ copy[o] # {} /\ mirror[s] # {} /\ mirror[s] = peek /\ \A x \in peek : x.src = o
      /\ s \notin newH \/ mirror[s] = Image(o)
      /\ mirror' = [mirror EXCEPT ![s] = Image(o)]
      /\ newH' = newH \ {s}
      /\ peek' = {}
      /\ TenantEditArrives(o)
      /\ UNCHANGED <<tenant, copy>>

\* The mirror's content replaces the tenant's, which has not changed since it
\* was listed and holds no edit the host has not seen.
Pull(o) ==
  LET s == SlotOf[o]
  IN  \E x \in peek :
        /\ x.src = o
        /\ tenant[o] # {} /\ tenant[o] = copy[o]
        /\ o \notin newT \/ tenant[o] = {x.val}
        /\ tenant' = [tenant EXCEPT ![o] = {x.val}]
        /\ newT' = newT \ {o}
        /\ UNCHANGED newH \/ (mirror[s] = peek /\ newH' = newH \ {s})
        /\ peek' = {}
        /\ UNCHANGED <<mirror, copy>>

\* The mirror is what the tenant listed: edits on either side have been seen.
Compare(o) ==
  /\ copy[o] # {} /\ mirror[SlotOf[o]] = Image(o)
  /\ newH' = newH \ {SlotOf[o]}
  /\ TenantEditArrives(o)
  /\ UNCHANGED <<tenant, mirror, copy, peek>>

\* A mirror goes if its source was not in the list.  What took its place since
\* the engine looked goes as well, if it is nobody's mirror.
Collect(s) ==
  /\ \A x \in mirror[s] : x.src = Foreign \/ copy[x.src] = {}
  /\ mirror' = [mirror EXCEPT ![s] = {}]
  /\ newH' = newH \ {s}
  /\ UNCHANGED <<tenant, copy, peek, newT>>

Next ==
  \/ Look \/ Forget
  \/ \E o \in Obj : TenantDeletes(o) \/ Peek(o) \/ Project(o) \/ Push(o) \/ Pull(o) \/ Compare(o)
  \/ \E s \in Slots : HostDeletes(s) \/ Collect(s)
  \/ \E v \in Value :
       \/ \E o \in Obj : TenantWrites(o, v)
       \/ \E s \in Slots : HostEdits(s, v) \/ ForeignTakes(s, v)

Spec == Init /\ [][Next]_vars
=============================================================================
