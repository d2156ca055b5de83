------------------------------ MODULE DecisionLog ------------------------------
(***************************************************************************)
(* Where the decisions of a tenant's sync passes go: the loop of runSync   *)
(* over the resources of the SyncPolicy, the Events of                     *)
(* decision_recorder.go, and recordSyncDecisions, which keeps the newest   *)
(* explain.retain of them in the tenant's SyncDecision object.             *)
(*                                                                         *)
(* A reconcile works from the SyncPolicy it read at its start.  The        *)
(* SyncDecision is read from an informer, which may lag, once for every    *)
(* resource; an update made from an old copy is refused, logged and        *)
(* forgotten.  Decisions are numbered in the order they are made; what     *)
(* they say, and the convergence history stored with them, is in           *)
(* SyncEngine.                                                             *)
(***************************************************************************)
EXTENDS Integers, Sequences, SequencesExt

CONSTANTS
  Resources,      \* how many resources the policy declares
  Retains,        \* values of explain.retain
  Lag,            \* the SyncDecision informer may lag
  MaxDecisions, MaxOps, MaxFaults

VARIABLES
  policy,         \* explain of the SyncPolicy
  stored, seen,   \* the SyncDecision object, and the informer's copy
  events,         \* decisions published as Events
  made,           \* decisions made so far
  pc, copy, res,  \* the worker: next step, its copy of the policy, the resource
  base, batch,    \* the object it writes from, the decisions of this resource
  ops, faults

workVars == <<copy, res, base, batch>>
vars == <<policy, stored, seen, events, made, pc, workVars, ops, faults>>

Policies == [record : BOOLEAN, retain : Retains]
SyncDecision(there, entries) == [there |-> there, entries |-> entries]
NoObject == SyncDecision(FALSE, <<>>)

ASSUME DecisionLogAssumption ==
  /\ Resources \in Nat \ {0} /\ Retains \subseteq Nat /\ Lag \in BOOLEAN
  /\ MaxDecisions \in Nat /\ MaxOps \in Nat /\ MaxFaults \in Nat

Init ==
  /\ policy \in Policies
  /\ stored = NoObject /\ seen = NoObject
  /\ events = {} /\ made = 0
  /\ pc = "idle" /\ copy = policy /\ res = 0 /\ base = NoObject /\ batch = <<>>
  /\ ops = MaxOps /\ faults = MaxFaults
-----------------------------------------------------------------------------
Read == IF Lag THEN seen ELSE stored
Fault == faults > 0 /\ faults' = faults - 1

\* Mutant: the loop runs once too often.
NextResource_Past ==
  /\ IF res <= Resources THEN pc' = "pass" /\ res' = res + 1 ELSE pc' = "idle" /\ res' = 0
  /\ base' = NoObject /\ batch' = <<>>
  /\ UNCHANGED copy

\* The loop over the resources goes on, or ends.
NextResource ==
  /\ IF res < Resources THEN pc' = "pass" /\ res' = res + 1 ELSE pc' = "idle" /\ res' = 0
  /\ base' = NoObject /\ batch' = <<>>
  /\ UNCHANGED copy

Begin ==
  /\ pc = "idle"
  /\ pc' = "pass" /\ copy' = policy /\ res' = 1
  /\ UNCHANGED <<policy, stored, seen, events, made, base, batch, ops, faults>>

\* A nil Recorder publishes nothing.
Published == copy.record

\* The pass decides about an object; Record publishes it at once.
Decide ==
  /\ pc = "pass" /\ made < MaxDecisions
  /\ made' = made + 1 /\ batch' = Append(batch, made')
  /\ events' = IF Published THEN events \union {made'} ELSE events
  /\ UNCHANGED <<policy, stored, seen, pc, copy, res, base, ops, faults>>

\* What recordSyncDecisions has nothing to do for.
Skips == ~copy.record \/ batch = <<>> \/ copy.retain <= 0

\* The pass over the resource ends: with an error its decisions are dropped.
EndPass ==
  /\ pc = "pass"
  /\ \/ Skips /\ NextResource /\ UNCHANGED faults
     \/ ~Skips /\ pc' = "store" /\ UNCHANGED <<workVars, faults>>
     \/ Fault /\ NextResource
  /\ UNCHANGED <<policy, stored, seen, events, made, ops>>

\* Get, and Create if there is none; an object the informer does not know yet is
\* an error.
OpenStore ==
  /\ pc = "store"
  /\ \/ /\ Read.there
        /\ base' = Read /\ pc' = "write" /\ UNCHANGED <<stored, copy, res, batch>>
     \/ /\ ~Read.there /\ ~stored.there
        /\ stored' = SyncDecision(TRUE, <<>>) /\ base' = stored' /\ pc' = "write"
        /\ UNCHANGED <<copy, res, batch>>
     \/ /\ ~Read.there /\ stored.there
        /\ NextResource /\ UNCHANGED stored
  /\ UNCHANGED <<policy, seen, events, made, ops, faults>>

\* Mutant: the newest entries go first.
Appended_Front(old, new) == new \o old

Appended(old, new) == old \o new

\* Mutant: the oldest entries are kept.
Trimmed_Oldest(s, n) == IF Len(s) > n THEN SubSeq(s, 1, n) ELSE s

\* The newest n entries.
Trimmed(s, n) == IF Len(s) > n THEN SubSeq(s, Len(s) - n + 1, Len(s)) ELSE s

\* Status().Update, refused if the object changed since it was read.
WriteStore ==
  /\ pc = "write"
  /\ stored' = IF base = stored
               THEN SyncDecision(TRUE, Trimmed(Appended(base.entries, batch), copy.retain))
               ELSE stored
  /\ NextResource
  /\ UNCHANGED <<policy, seen, events, made, ops, faults>>

\* A call fails; its error is logged.
CallFails ==
  /\ pc \in {"store", "write"} /\ Fault
  /\ NextResource
  /\ UNCHANGED <<policy, stored, seen, events, made, ops>>

\* The manager stops, and starts again with fresh informers.
Restart ==
  /\ pc # "idle" /\ Fault
  /\ pc' = "idle" /\ res' = 0 /\ base' = NoObject /\ batch' = <<>>
  /\ seen' = IF Lag THEN stored ELSE seen
  /\ UNCHANGED <<policy, stored, events, made, copy, ops>>

See ==
  /\ Lag /\ seen # stored
  /\ seen' = stored
  /\ UNCHANGED <<policy, stored, events, made, pc, workVars, ops, faults>>

EditPolicy(p) ==
  /\ ops > 0 /\ ops' = ops - 1
  /\ p # policy /\ policy' = p
  /\ UNCHANGED <<stored, seen, events, made, pc, workVars, faults>>

Worker == Begin \/ Decide \/ EndPass \/ OpenStore \/ WriteStore

Next == Worker \/ CallFails \/ Restart \/ See \/ \E p \in Policies : EditPolicy(p)

\* Reconciles follow each other, and every pass looks at all objects.
Spec == Init /\ [][Next]_vars /\ WF_vars(Worker) /\ WF_vars(Decide) /\ WF_vars(See)
-----------------------------------------------------------------------------
Ascending(s) == \A i, j \in DOMAIN s : i < j => s[i] < s[j]

TypeOK ==
  /\ policy \in Policies /\ copy \in Policies
  /\ \A o \in {stored, seen, base} : o.entries \in Seq(1..made) /\ (~o.there => o.entries = <<>>)
  /\ events \subseteq 1..made /\ batch \in Seq(1..made)
  /\ res \in 0..Resources

\* The log tells what happened, once and in order: whatever passes, restarts and
\* updates from old copies interleave, its entries are decisions in the order they
\* were made, none twice, each one published as an Event before ("oldest first",
\* SyncDecisionStatus; recordSyncDecisions, eventDecisionRecorder).
LogIsHistory ==
  /\ Ascending(stored.entries \o batch)
  /\ ToSet(stored.entries) \subseteq events

\* "Entries are trimmed to at most retain, oldest evicted first" (recordSyncDecisions):
\* every write keeps the newest of what was stored and what is new, no fewer than
\* retain allows and no more.
WindowSlides ==
  [][stored'.entries # stored.entries
     => LET all == stored.entries \o batch
        IN  /\ IsSuffix(stored'.entries, all)
            /\ Len(stored'.entries) = IF Len(all) < copy.retain THEN Len(all) ELSE copy.retain]_vars

\* Recording "records every sync action (create, update, delete, skip) both as a
\* Kubernetes Event on the owning TenantCluster and in a durable `SyncDecision`
\* object" (syncpolicy.md): what the pass over a resource hands to
\* recordSyncDecisions is stored, as far as retain has room for it.
ActionsAreStored ==
  [][(pc \in {"store", "write"} /\ batch' = <<>> /\ Len(batch) <= copy.retain)
     => IsSuffix(batch, stored'.entries)]_vars
=============================================================================
