----------------------------- MODULE SyncEngine -----------------------------
(***************************************************************************)
(* The sync engine (internal/syncer/engine.go) as the TenantCluster        *)
(* reconciler drives it (runSync in internal/controller/sync.go, and the   *)
(* durable SyncDecision object of sync_decisions.go): one worker that,     *)
(* again and again, runs one pass per resource of the SyncPolicy, while    *)
(* tenants and host users write to the two API servers between its calls.  *)
(*                                                                         *)
(* One step of the worker is one API call with the local computation that  *)
(* follows it.  Objects are numbered in the order the API server lists     *)
(* them; host names are numbers too.  A resourceVersion is a number and 0  *)
(* stands for "no such object".                                            *)
(*                                                                         *)
(* Simplifications.  Only this tenant is modelled: an object of another    *)
(* tenant, or of nobody, on a host name is Foreign to it.  Metadata other  *)
(* than the reverse mapping is left out: a write to it is a Touch.  The    *)
(* list of durable decision entries is in DecisionLog, the history stored  *)
(* next to it is here; of the decisions of a pass the model keeps whether  *)
(* there were any, which is what recordSyncDecisions looks at.             *)
(***************************************************************************)
EXTENDS Integers, Sequences, Transform

CONSTANTS
  Obj,            \* tenant objects, numbered in list order
  KindOf,         \* kind of each object
  HostName,       \* host name of each object (HostNaming shows it can clash)
  LabelIsName,    \* SanitizeName, which makes the tenant label, keeps the
                  \* tenant's name: it has no "." and no "--"
  System,         \* objects of system namespaces and API-machinery objects
  Resources,      \* SyncPolicy.spec.resources: sequence of [kind, dir]
  ConflictPolicy, \* "tenant-wins", "host-wins" or "manual"
  Required,       \* IsolationProfile.runtimeClassName, or NoClass
  RecordDecisions,\* explain.recordDecisions with explain.retain > 0
  Limited,        \* apiFairness is set
  Burst,          \* tokens of a new rate limiter
  CacheLag,       \* the informer may lag behind the SyncDecision object
  MayDelete,      \* kinds the controller's ClusterRole lets it delete
  Frees, Fixeds, Classes, \* values of the parts of a tenant object's content
  HostAddress, TenantAddress, \* what the two clusters allocate: the addresses
                  \* of a Service, on the host also the node of a Pod
  EnvOps,         \* the outside writes this instance lets happen
  MaxOps,         \* bound on the number of outside writes
  MaxFaults       \* bound on the number of API failures and restarts

VARIABLES
  tenant, trev,   \* tenant API server: its objects and its revision counter
  host, hrev,     \* host API server, the tenant's namespace: likewise
  saved,          \* the SyncDecision object in the host API server
  cached, stale,  \* the informer's copy of it, and whether that lags behind
  hist,           \* Engine.History
  pc, idx,        \* where the worker is, and the resource it is working on
  snap, todo,     \* what List(virtual) returned, and the objects still to do
  cur, seen, plan,\* object at hand, host object Get returned, pending write
  desired, gc,    \* desiredHostNames, and the orphans still to delete
  tokens,         \* tokens left in the rate limiter
  made, failed,   \* the pass took a decision; the pass met an error
  dirtyT, dirtyH, \* ghosts: users' edits that have not reached the other side
  ops, faults     \* what is left of the two bounds

storeVars == <<tenant, trev, host, hrev>>
decisionVars == <<saved, cached, stale>>
passVars == <<idx, snap, desired, gc>>
pairVars == <<todo, cur, seen, plan>>
ghostVars == <<dirtyT, dirtyH>>
vars == <<storeVars, decisionVars, hist, pc, passVars, pairVars, tokens,
          made, failed, ghostVars, ops, faults>>
-----------------------------------------------------------------------------
Foreign == 0   \* the source of a host object that is not a mirror of this tenant

Kinds == {KindOf[o] : o \in Obj}
Names == {HostName[o] : o \in Obj}
Slot(o) == <<KindOf[o], HostName[o]>>
Slots == {Slot(o) : o \in Obj}

Content == [free : Frees, fixed : Fixeds \union {HostAddress, TenantAddress, Unset},
            rc : Classes \union {Required, NoClass}]
TenantObject == [rv : Nat, val : Content]
HostObject == [rv : Nat, val : Content, src : Obj \union {Foreign}]
Entry == [t : Nat, h : Nat]      \* ConvergedVersions
History == [Names -> Entry]      \* ConvergenceHistory

NoContent == [free |-> CHOOSE f \in Frees : TRUE, fixed |-> Unset, rc |-> NoClass]
NoTenantObject == [rv |-> 0, val |-> NoContent]
NoHostObject == [rv |-> 0, val |-> NoContent, src |-> Foreign]
NoEntry == [t |-> 0, h |-> 0]
NoHistory == [n \in Names |-> NoEntry]
NothingListed == [o \in Obj |-> NoTenantObject]

Exists(x) == x.rv # 0
Directions == {"toHost", "fromHost", "bidirectional"}
Kind == Resources[idx].kind
Direction == Resources[idx].dir

Eligible(o) == KindOf[o] = Kind /\ o \notin System  \* skip, isVirtualInfrastructure

\* Contents a tenant can give an object it creates.
TenantContents(k) ==
  [free : Frees,
   fixed : IF k = "Service" THEN {TenantAddress} ELSE IF k = "Pod" THEN Fixeds ELSE {Unset},
   rc : IF k = "Pod" THEN Classes ELSE {NoClass}]

ASSUME ConstantsAssumption ==
  /\ Obj \subseteq Nat \ {Foreign}
  /\ HostName \in [Obj -> Nat]
  /\ DOMAIN KindOf = Obj
  /\ Frees # {}
  /\ System \subseteq Obj
  /\ Resources \in Seq([kind : Kinds, dir : Directions])
  /\ Resources # <<>>
  /\ Limited \in BOOLEAN
  /\ Burst \in Nat
  /\ RecordDecisions \in BOOLEAN
  /\ LabelIsName \in BOOLEAN
  /\ CacheLag \in BOOLEAN
  /\ MaxOps \in Nat
  /\ MaxFaults \in Nat
-----------------------------------------------------------------------------
Init ==
  /\ tenant = [o \in Obj |-> NoTenantObject] /\ trev = 0
  /\ host = [s \in Slots |-> NoHostObject] /\ hrev = 0
  /\ saved = [exists |-> FALSE, hist |-> NoHistory]
  /\ cached = saved
  /\ stale = FALSE
  /\ hist = NoHistory
  /\ pc = "idle" /\ idx = 1
  /\ snap = NothingListed /\ todo = {}
  /\ cur = Foreign /\ seen = NoHostObject /\ plan = "none"
  /\ desired = {} /\ gc = {}
  /\ tokens = Burst
  /\ made = FALSE /\ failed = FALSE
  /\ dirtyT = {} /\ dirtyH = {}
  /\ ops = MaxOps /\ faults = MaxFaults
-----------------------------------------------------------------------------
(***************************************************************************)
(* runSync                                                                 *)
(***************************************************************************)

\* A reconcile reaches runSync: a new engine, with a new (full) limiter and
\* the history read from the informer's copy of the SyncDecision object.
StartRun ==
  /\ pc = "idle"
  /\ pc' = "list" /\ idx' = 1
  /\ hist' = IF RecordDecisions /\ cached.exists THEN cached.hist ELSE NoHistory
  /\ tokens' = Burst
  /\ UNCHANGED <<storeVars, decisionVars, snap, desired, gc, pairVars, made, failed,
                 ghostVars, ops, faults>>

\* The pass is over: what it held is dropped, and the next resource, if there
\* is one, is next.
EndPass ==
  /\ \/ idx < Len(Resources) /\ idx' = idx + 1 /\ pc' = "list" /\ UNCHANGED <<hist, tokens>>
     \/ idx = Len(Resources) /\ idx' = 1 /\ pc' = "idle"
        /\ hist' = NoHistory /\ tokens' = Burst
  /\ snap' = NothingListed /\ todo' = {} /\ desired' = {} /\ gc' = {}
  /\ cur' = Foreign /\ seen' = NoHostObject /\ plan' = "none"
  /\ made' = FALSE /\ failed' = FALSE

Fault == faults > 0 /\ faults' = faults - 1

\* The manager stops and starts again: nothing in memory survives.
Restart ==
  /\ pc # "idle" /\ Fault
  /\ pc' = "idle" /\ idx' = 1 /\ hist' = NoHistory /\ tokens' = Burst
  /\ snap' = NothingListed /\ todo' = {} /\ desired' = {} /\ gc' = {}
  /\ cur' = Foreign /\ seen' = NoHostObject /\ plan' = "none"
  /\ made' = FALSE /\ failed' = FALSE
  /\ UNCHANGED <<storeVars, decisionVars, ghostVars, ops>>
-----------------------------------------------------------------------------
(***************************************************************************)
(* syncPass: list the tenant's objects                                     *)
(***************************************************************************)
ListVirtual ==
  /\ pc = "list"
  /\ \/ /\ snap' = tenant
        /\ todo' = {o \in Obj : Eligible(o) /\ Exists(tenant[o])}
        /\ pc' = "pair"
        /\ UNCHANGED <<idx, desired, gc, cur, seen, plan, hist, tokens, made, failed, faults>>
     \/ Fault /\ EndPass    \* the error ends the pass before garbage collection
  /\ UNCHANGED <<storeVars, decisionVars, ghostVars, ops>>

(***************************************************************************)
(* reconcilePair: read the host object, then decide                        *)
(***************************************************************************)

\* The host object x was made from o.
MadeFrom(o, x) == Exists(x) /\ x.src = o

\* ReverseLookup and sameSource: the engine sees that x is the mirror of o.  The
\* tenant it compares is the label of x with the name of the TenantCluster.
MirrorOf(o, x) == LabelIsName /\ MadeFrom(o, x)

Agrees(o, x) ==
  ContentEqual(Kind, snap[o].val, ComparableHost(Kind, x.val, Required))

TenantChanged(o) == snap[o].rv # hist[HostName[o]].t
HostChanged(o, x) == x.rv # hist[HostName[o]].h
HasBaseline(o) == hist[HostName[o]] # NoEntry

\* Mutant: only the tenant's version is compared with the baseline.
ConflictGoesToHost_HostUnchecked(o, x) ==
  \/ ConflictPolicy = "tenant-wins"
  \/ ConflictPolicy = "manual" /\ HasBaseline(o) /\ TenantChanged(o)

ConflictGoesToHost(o, x) ==
  \/ ConflictPolicy = "tenant-wins"
  \/ /\ ConflictPolicy = "manual"
     /\ HasBaseline(o) /\ TenantChanged(o) /\ ~HostChanged(o, x)

ConflictGoesToTenant(o, x) ==
  \/ ConflictPolicy = "host-wins"
  \/ /\ ConflictPolicy = "manual"
     /\ HasBaseline(o) /\ HostChanged(o, x) /\ ~TenantChanged(o)

NeedsCreate(o, x) == ~Exists(x)
\* Mutant: toHost creates mirrors and never updates one.
NeedsPush_CreateOnly(o, x) ==
  MirrorOf(o, x) /\ Direction = "bidirectional" /\ ~Agrees(o, x) /\ ConflictGoesToHost(o, x)

NeedsPush(o, x) ==
  /\ MirrorOf(o, x)
  /\ \/ Direction = "toHost"
     \/ Direction = "bidirectional" /\ ~Agrees(o, x) /\ ConflictGoesToHost(o, x)

NeedsPull(o, x) ==
  /\ MirrorOf(o, x)
  /\ Direction # "toHost" /\ ~Agrees(o, x)
  /\ \/ Direction = "fromHost"
     \/ Direction = "bidirectional" /\ ConflictGoesToTenant(o, x)

NeedsWrite(o, x) == NeedsCreate(o, x) \/ NeedsPush(o, x) \/ NeedsPull(o, x)

\* Mutant of setConverged: the two versions are swapped.
Converged_Swapped(n, t, h) == [hist EXCEPT ![n] = [t |-> h, h |-> t]]

\* setConverged
Converged(n, t, h) == [hist EXCEPT ![n] = [t |-> t, h |-> h]]

\* The pair is done; err says whether it added an error or a decision.
PairDone(o, err) ==
  /\ pc' = "pair"
  /\ todo' = todo \ {o}
  /\ cur' = Foreign /\ seen' = NoHostObject /\ plan' = "none"
  /\ made' = (made \/ ~err)
  /\ failed' = (failed \/ err)

\* Mutant: a conflict left alone becomes the new baseline as well.
NewBaseline_Conflict(o, x) == Direction = "bidirectional" /\ MirrorOf(o, x)

\* Get(host) finds a bidirectional pair in agreement.
NewBaseline(o, x) == Direction = "bidirectional" /\ MirrorOf(o, x) /\ Agrees(o, x)

\* Get(host), and a decision that needs no write: a foreign or colliding
\* object, a pair in agreement, or a conflict left alone.
LeaveAlone(o) ==
  LET x == host[Slot(o)]
      agree == Direction # "toHost" /\ MirrorOf(o, x) /\ Agrees(o, x)
  IN  /\ ~NeedsWrite(o, x)
      /\ hist' = IF NewBaseline(o, x) THEN Converged(HostName[o], snap[o].rv, x.rv) ELSE hist
      /\ dirtyH' = IF agree THEN dirtyH \ {Slot(o)} ELSE dirtyH
      /\ dirtyT' = IF agree /\ tenant[o].rv = snap[o].rv THEN dirtyT \ {o} ELSE dirtyT
      /\ PairDone(o, FALSE)
      /\ UNCHANGED <<tokens, faults>>

\* Mutant of Allow: the bucket is not looked at.
Allow_Always == tokens' = IF Limited THEN tokens - 1 ELSE tokens

\* The limiter, if there is one, has a token, and gives it.
Allow ==
  /\ Limited => tokens > 0
  /\ tokens' = IF Limited THEN tokens - 1 ELSE tokens

\* rateLimited: it has none.
RateLimited == Limited /\ tokens = 0 /\ UNCHANGED tokens

\* Get(host) asks for a write that rateLimited refuses.
Throttled(o) ==
  /\ NeedsWrite(o, host[Slot(o)])
  /\ RateLimited
  /\ PairDone(o, FALSE)
  /\ UNCHANGED <<hist, ghostVars, faults>>

\* Get(host) asks for a write, and the limiter lets it through.
PlanWrite(o) ==
  LET x == host[Slot(o)]
  IN  /\ Allow
      /\ \/ NeedsCreate(o, x) /\ plan' = "create"
         \/ NeedsPush(o, x) /\ plan' = "push"
         \/ NeedsPull(o, x) /\ plan' = "pull"
      /\ cur' = o /\ seen' = x
      /\ pc' = "write"
      /\ UNCHANGED <<todo, hist, made, failed, ghostVars, faults>>

\* Get(host) fails.
GetFails(o) ==
  /\ Fault
  /\ PairDone(o, TRUE)
  /\ UNCHANGED <<hist, tokens, ghostVars>>

\* Mutant: a name counts as desired only once its mirror was found.
Desire_Mirrored(o) ==
  desired' = IF MirrorOf(o, host[Slot(o)]) THEN desired \union {HostName[o]} ELSE desired

\* The host name of a listed object is desired whatever comes of the object.
Desire(o) == desired' = desired \union {HostName[o]}

\* The next object of the list.
ReconcilePair ==
  /\ pc = "pair"
  /\ \E o \in todo :
       /\ \A p \in todo : o <= p
       /\ Desire(o)
       /\ LeaveAlone(o) \/ Throttled(o) \/ PlanWrite(o) \/ GetFails(o)
  /\ UNCHANGED <<storeVars, decisionVars, idx, snap, gc, ops>>
-----------------------------------------------------------------------------
(***************************************************************************)
(* The pending write.  An API server refuses a create of what exists and   *)
(* an update that does not carry the current resourceVersion, and leaves   *)
(* the resourceVersion alone when an update changes nothing.               *)
(***************************************************************************)
PutHost(s, v, o) ==
  IF Exists(host[s]) /\ host[s].val = v /\ host[s].src = o
  THEN UNCHANGED <<host, hrev>>
  ELSE /\ host' = [host EXCEPT ![s] = [rv |-> hrev + 1, val |-> v, src |-> o]]
       /\ hrev' = hrev + 1

PutTenant(o, v) ==
  IF Exists(tenant[o]) /\ tenant[o].val = v
  THEN UNCHANGED <<tenant, trev>>
  ELSE /\ tenant' = [tenant EXCEPT ![o] = [rv |-> trev + 1, val |-> v]]
       /\ trev' = trev + 1

DesiredContent == BuildHostObject(Kind, snap[cur].val, Required)

CreatedContent == Defaulted(Kind, DesiredContent, HostAddress)
CreateAccepted == ~Exists(host[Slot(cur)])

PushedContent == AdoptHostAllocatedFields(Kind, seen.val, DesiredContent)
\* Mutant: the update carries no resourceVersion.
PushAccepted_Unversioned == Exists(host[Slot(cur)])

PushAccepted == Exists(host[Slot(cur)]) /\ host[Slot(cur)].rv = seen.rv

PulledContent ==
  Defaulted(Kind, MergeHostContentIntoTenant(Kind, ComparableHost(Kind, seen.val, Required)),
            tenant[cur].val.fixed)
\* Mutant: the update of the tenant object carries no resourceVersion.
PullAccepted_Unversioned ==
  Exists(tenant[cur]) /\ UpdateAllowed(Kind, tenant[cur].val, PulledContent)

PullAccepted ==
  /\ Exists(tenant[cur]) /\ tenant[cur].rv = snap[cur].rv
  /\ UpdateAllowed(Kind, tenant[cur].val, PulledContent)

\* The tenant object is as it was listed, and the host object now agrees with it.
TenantSettled ==
  /\ tenant[cur].rv = snap[cur].rv
  /\ ContentEqual(Kind, snap[cur].val, ComparableHost(Kind, host'[Slot(cur)].val, Required))

\* The answer of a host write: a decision and, for a bidirectional pair, a new
\* baseline; or, when the answer is lost on the way, an error.
HostWriteAnswered ==
  \/ /\ hist' = IF Direction = "bidirectional"
                THEN Converged(HostName[cur], snap[cur].rv, host'[Slot(cur)].rv) ELSE hist
     /\ dirtyT' = IF TenantSettled THEN dirtyT \ {cur} ELSE dirtyT
     /\ PairDone(cur, FALSE)
     /\ UNCHANGED faults
  \/ /\ Fault
     /\ PairDone(cur, TRUE)
     /\ UNCHANGED <<hist, dirtyT>>

CreateHost ==
  /\ plan = "create" /\ CreateAccepted
  /\ PutHost(Slot(cur), CreatedContent, cur)
  /\ HostWriteAnswered
  /\ UNCHANGED <<tenant, trev, dirtyH>>

PushToHost ==
  /\ plan = "push" /\ PushAccepted
  /\ PutHost(Slot(cur), PushedContent, cur)
  /\ HostWriteAnswered
  /\ dirtyH' = dirtyH \ {Slot(cur)}
  /\ UNCHANGED <<tenant, trev>>

PullToTenant ==
  /\ plan = "pull" /\ PullAccepted
  /\ PutTenant(cur, PulledContent)
  /\ dirtyT' = dirtyT \ {cur}
  /\ dirtyH' = IF host[Slot(cur)].rv = seen.rv THEN dirtyH \ {Slot(cur)} ELSE dirtyH
  /\ \/ /\ hist' = IF Direction = "bidirectional"
                   THEN Converged(HostName[cur], tenant'[cur].rv, seen.rv) ELSE hist
        /\ PairDone(cur, FALSE)
        /\ UNCHANGED faults
     \/ Fault /\ PairDone(cur, TRUE) /\ UNCHANGED hist
  /\ UNCHANGED <<host, hrev>>

\* Nothing is written: the API server refuses (AlreadyExists, Conflict,
\* NotFound, Invalid), or the request fails before it gets there.
WriteFails ==
  /\ \/ /\ \/ plan = "create" /\ ~CreateAccepted
           \/ plan = "push" /\ ~PushAccepted
           \/ plan = "pull" /\ ~PullAccepted
        /\ UNCHANGED faults
     \/ Fault
  /\ PairDone(cur, TRUE)
  /\ UNCHANGED <<storeVars, hist, ghostVars>>

Write ==
  /\ pc = "write"
  /\ CreateHost \/ PushToHost \/ PullToTenant \/ WriteFails
  /\ UNCHANGED <<decisionVars, passVars, tokens, ops>>
-----------------------------------------------------------------------------
(***************************************************************************)
(* collectOrphans                                                          *)
(***************************************************************************)
Managed(x) == Exists(x) /\ x.src # Foreign

\* Mutant: the test on the desired names is inverted.
Orphans_Inverted == {s \in Slots : s[1] = Kind /\ Managed(host[s]) /\ s[2] \in desired}

\* The label selector of the list, and the desired names.
Orphans == {s \in Slots : s[1] = Kind /\ Managed(host[s]) /\ s[2] \notin desired}

ListHost ==
  /\ pc = "pair" /\ todo = {}
  /\ pc' = "gc"
  /\ \/ /\ gc' = Orphans
        /\ UNCHANGED <<failed, faults>>
     \/ gc' = {} /\ failed' = TRUE /\ Fault
  /\ UNCHANGED <<storeVars, decisionVars, hist, idx, snap, desired, pairVars, tokens, made,
                 ghostVars, ops>>

\* Delete carries no precondition: it removes whatever has the name by now.
DeleteHost(s) ==
  /\ Kind \in MayDelete
  /\ host' = [host EXCEPT ![s] = NoHostObject]
  /\ dirtyH' = dirtyH \ {s}

DeleteOrphan ==
  /\ pc = "gc"
  /\ \E s \in gc :
       /\ \A r \in gc : s[2] <= r[2]
       /\ gc' = gc \ {s}
       /\ \/ /\ RateLimited             \* deferred, a Skip decision
             /\ made' = TRUE
             /\ UNCHANGED <<host, failed, dirtyH, faults>>
          \/ /\ Allow
             /\ \/ DeleteHost(s) /\ made' = TRUE /\ UNCHANGED <<failed, faults>>
                \/ DeleteHost(s) /\ Fault /\ failed' = TRUE /\ UNCHANGED made
                \/ Fault /\ failed' = TRUE /\ UNCHANGED <<host, dirtyH, made>>
                \/ /\ Kind \notin MayDelete /\ failed' = TRUE
                   /\ UNCHANGED <<host, dirtyH, made, faults>>
  /\ UNCHANGED <<tenant, trev, hrev, decisionVars, hist, pc, idx, snap, desired, pairVars,
                 dirtyT, ops>>
-----------------------------------------------------------------------------
(***************************************************************************)
(* The end of a pass in runSync: recordSyncDecisions, unless the pass met  *)
(* an error or decided nothing.  Its own failure is only logged.           *)
(***************************************************************************)
NothingToRecord == failed \/ ~RecordDecisions \/ ~made

\* The API server takes a new state of the SyncDecision object.
PutDecisions(d) ==
  /\ saved' = d
  /\ stale' = CacheLag
  /\ cached' = IF CacheLag THEN cached ELSE d

\* The status update carries the version the informer knew, so it is refused
\* when that lags behind (as is the create, when the informer misses the object).
StoreDecisions ==
  \/ /\ ~stale
     /\ PutDecisions([exists |-> TRUE,
                      hist |-> IF hist # NoHistory THEN hist ELSE saved.hist])
     /\ UNCHANGED faults
  \/ stale /\ UNCHANGED <<decisionVars, faults>>
  \/ Fault /\ UNCHANGED decisionVars
  \/ /\ ~stale /\ ~saved.exists /\ Fault      \* created, but the status update fails
     /\ PutDecisions([exists |-> TRUE, hist |-> NoHistory])

FinishPass ==
  /\ pc = "gc" /\ gc = {}
  /\ \/ NothingToRecord /\ UNCHANGED <<decisionVars, faults>>
     \/ ~NothingToRecord /\ StoreDecisions
  /\ EndPass
  /\ UNCHANGED <<storeVars, ghostVars, ops>>

\* The informer catches up (external).
CacheSync ==
  /\ stale /\ stale' = FALSE
  /\ cached' = saved
  /\ UNCHANGED <<storeVars, saved, hist, pc, passVars, pairVars, tokens, made, failed,
                 ghostVars, ops, faults>>

\* Time passes: the limiter of the running pass gets a token (external).
Refill ==
  /\ Limited /\ pc # "idle" /\ tokens < Burst
  /\ tokens' = tokens + 1
  /\ UNCHANGED <<storeVars, decisionVars, hist, pc, passVars, pairVars, made, failed,
                 ghostVars, ops, faults>>
-----------------------------------------------------------------------------
(***************************************************************************)
(* Everybody else: the tenant, the users and controllers of the host.      *)
(***************************************************************************)
Outside(op) ==
  /\ op \in EnvOps /\ ops > 0
  /\ ops' = ops - 1
  /\ UNCHANGED <<decisionVars, hist, pc, passVars, pairVars, tokens, made, failed, faults>>

TenantCreate(o, c) ==
  /\ Outside("tenantCreate")
  /\ ~Exists(tenant[o])
  /\ PutTenant(o, c)
  /\ dirtyT' = dirtyT \union {o}
  /\ UNCHANGED <<host, hrev, dirtyH>>

TenantEdit(o, f) ==
  /\ Outside("tenantEdit")
  /\ Exists(tenant[o]) /\ tenant[o].val.free # f
  /\ PutTenant(o, [tenant[o].val EXCEPT !.free = f])
  /\ dirtyT' = dirtyT \union {o}
  /\ UNCHANGED <<host, hrev, dirtyH>>

TenantDelete(o) ==
  /\ Outside("tenantDelete")
  /\ Exists(tenant[o])
  /\ tenant' = [tenant EXCEPT ![o] = NoTenantObject]
  /\ dirtyT' = dirtyT \ {o}
  /\ UNCHANGED <<trev, host, hrev, dirtyH>>

HostEdit(s, f) ==
  /\ Outside("hostEdit")
  /\ Managed(host[s]) /\ host[s].val.free # f
  /\ PutHost(s, [host[s].val EXCEPT !.free = f], host[s].src)
  /\ dirtyH' = dirtyH \union {s}
  /\ UNCHANGED <<tenant, trev, dirtyT>>

HostDelete(s) ==
  /\ Outside("hostDelete")
  /\ Managed(host[s])
  /\ host' = [host EXCEPT ![s] = NoHostObject]
  /\ dirtyH' = dirtyH \ {s}
  /\ UNCHANGED <<tenant, trev, hrev, dirtyT>>

\* Somebody else's object takes a host name.
ForeignCreate(s) ==
  /\ Outside("foreignCreate")
  /\ ~Exists(host[s])
  /\ PutHost(s, NoContent, Foreign)
  /\ UNCHANGED <<tenant, trev, ghostVars>>

\* A write that changes only what is not content: labels, status.
TenantTouch(o) ==
  /\ Outside("touch")
  /\ Exists(tenant[o])
  /\ tenant' = [tenant EXCEPT ![o] = [rv |-> trev + 1, val |-> tenant[o].val]]
  /\ trev' = trev + 1
  /\ UNCHANGED <<host, hrev, ghostVars>>

HostTouch(s) ==
  /\ Outside("touch")
  /\ Managed(host[s])
  /\ host' = [host EXCEPT ![s] = [rv |-> hrev + 1, val |-> host[s].val, src |-> host[s].src]]
  /\ hrev' = hrev + 1
  /\ UNCHANGED <<tenant, trev, ghostVars>>

\* The host's scheduler binds a Pod to a node, which becomes part of its spec
\* (external).
HostSchedule(s) ==
  /\ Outside("schedule")
  /\ s[1] = "Pod" /\ Managed(host[s]) /\ host[s].val.fixed # HostAddress
  /\ PutHost(s, [host[s].val EXCEPT !.fixed = HostAddress], host[s].src)
  /\ UNCHANGED <<tenant, trev, ghostVars>>

\* The tenant's control plane is rebuilt on an empty volume: it has no objects
\* and counts resourceVersions from the beginning again (external).
TenantReset ==
  /\ Outside("reset")
  /\ trev > 0
  /\ tenant' = [o \in Obj |-> NoTenantObject] /\ trev' = 0
  /\ dirtyT' = {}
  /\ UNCHANGED <<host, hrev, dirtyH>>

Environment ==
  \/ TenantReset
  \/ \E o \in Obj :
       \/ \E c \in TenantContents(KindOf[o]) : TenantCreate(o, c)
       \/ \E f \in Frees : TenantEdit(o, f)
       \/ TenantDelete(o)
       \/ TenantTouch(o)
  \/ \E s \in Slots :
       \/ \E f \in Frees : HostEdit(s, f)
       \/ HostDelete(s)
       \/ ForeignCreate(s)
       \/ HostTouch(s)
       \/ HostSchedule(s)

Worker ==
  StartRun \/ ListVirtual \/ ReconcilePair \/ Write \/ ListHost \/ DeleteOrphan \/ FinishPass

Next == Worker \/ Restart \/ CacheSync \/ Refill \/ Environment

\* The reconciler requeues itself for ever and the informer keeps up; users
\* need do nothing.
Fairness == WF_vars(Worker) /\ WF_vars(CacheSync)

Spec == Init /\ [][Next]_vars
FairSpec == Spec /\ Fairness
-----------------------------------------------------------------------------
(***************************************************************************)
(* Safety                                                                  *)
(***************************************************************************)
DecisionObject == [exists : BOOLEAN, hist : History]

StoreTypes ==
  /\ tenant \in [Obj -> TenantObject] /\ trev \in Nat
  /\ host \in [Slots -> HostObject] /\ hrev \in Nat

HistoryTypes ==
  /\ saved \in DecisionObject /\ cached \in DecisionObject /\ stale \in BOOLEAN
  /\ hist \in History

PassTypes ==
  /\ pc \in {"idle", "list", "pair", "write", "gc"} /\ idx \in 1..Len(Resources)
  /\ snap \in [Obj -> TenantObject] /\ desired \subseteq Names /\ gc \subseteq Slots
  /\ tokens \in Nat /\ made \in BOOLEAN /\ failed \in BOOLEAN

PairTypes ==
  /\ todo \subseteq Obj /\ cur \in Obj \union {Foreign} /\ seen \in HostObject
  /\ plan \in {"none", "create", "push", "pull"}
  /\ pc = "write" => cur \in todo

BookkeepingTypes ==
  dirtyT \subseteq Obj /\ dirtyH \subseteq Slots /\ ops \in Nat /\ faults \in Nat

\* Every variable holds a value of its type (the fields of Engine, of a pass
\* and of the two API servers); a write is always for an object of the list.
TypeOK == StoreTypes /\ HistoryTypes /\ PassTypes /\ PairTypes /\ BookkeepingTypes

\* A step of the engine, as opposed to one of its users.
EngineStep == ops' = ops

\* The pair of o as it is now is in agreement.
PairAgrees(o) ==
  /\ MadeFrom(o, host[Slot(o)])
  /\ ContentEqual(KindOf[o], tenant[o].val,
                  ComparableHost(KindOf[o], host[Slot(o)].val, Required))

Truthful(m) ==
  \A o \in Obj :
    /\ Exists(tenant[o]) /\ tenant[o].rv = m[HostName[o]].t
    /\ Exists(host[Slot(o)]) /\ host[Slot(o)].rv = m[HostName[o]].h
    => PairAgrees(o)

\* A recorded baseline is a true one: if tenant and host object still have the
\* resourceVersions the convergence history holds for their name, in memory, in
\* the SyncDecision object or in the informer's copy, then they agree
\* (ConvergedVersions, setConverged).
HistoryTruth == Truthful(hist) /\ Truthful(saved.hist) /\ Truthful(cached.hist)

\* conflictPolicy "manual" never destroys an edit that the other side has not
\* seen: the engine overwrites the content of an object only when the last
\* change to it has reached the other side (reconcileBidirectionalConflict,
\* and the resourceVersions pushToHost and pullToTenant send).
NoLostEdit ==
  [][EngineStep =>
       /\ \A s \in Slots :
            Exists(host[s]) /\ Exists(host'[s]) /\ host'[s].val # host[s].val => s \notin dirtyH
       /\ \A o \in Obj :
            Exists(tenant[o]) /\ Exists(tenant'[o]) /\ tenant'[o].val # tenant[o].val
            => o \notin dirtyT]_vars

\* No host object is ever turned into the mirror of another source in place, so
\* neither a foreign object nor another object's mirror is overwritten, however
\* late a write arrives after the provenance check of reconcilePair.
ProvenanceStable ==
  [][\A s \in Slots : Exists(host[s]) /\ Exists(host'[s]) => host'[s].src = host[s].src]_vars

\* Garbage collection takes a mirror only if the pass did not see its source: an
\* object whose own reconcile failed, was throttled or was skipped keeps its
\* mirror (desiredHostNames in syncPass, collectOrphans).
OnlyOrphansDeleted ==
  [][\A s \in Slots :
       EngineStep /\ Managed(host[s]) /\ ~Exists(host'[s]) => ~Exists(snap[host[s].src])]_vars

\* "Objects that aren't tenantplane-managed are never touched"
\* (website/content/docs/concepts/sync-engine.md): no step of the engine changes
\* or removes a foreign object.
ForeignUntouched ==
  [][\A s \in Slots :
       EngineStep /\ Exists(host[s]) /\ ~Managed(host[s]) => host'[s] = host[s]]_vars

\* "history has no such cap; it naturally only grows with the number of distinct
\* bidirectional objects" (recordSyncDecisions): the SyncDecision object never
\* loses the baseline of a pair whose two objects still exist.
SavedHistoryGrows ==
  [][\A o \in Obj :
       /\ saved.hist[HostName[o]] # NoEntry
       /\ Exists(tenant[o]) /\ Exists(host[Slot(o)])
       => saved'.hist[HostName[o]] # NoEntry]_vars
-----------------------------------------------------------------------------
(***************************************************************************)
(* Liveness                                                                *)
(***************************************************************************)
Synced(o) == o \notin System /\ \E i \in 1..Len(Resources) : Resources[i].kind = KindOf[o]

\* The host name of o is taken, by a foreign object or by the mirror of another
\* object that still exists: the engine reports a Skip, and rightly so.
NameTaken(o) ==
  LET x == host[Slot(o)]
  IN  Exists(x) /\ x.src # o /\ (x.src = Foreign \/ Exists(tenant[x.src]))

\* Another push of o would change nothing.
Pushed(o) ==
  LET x == host[Slot(o)]
  IN  /\ MadeFrom(o, x)
      /\ x.val = AdoptHostAllocatedFields(KindOf[o], x.val,
                                          BuildHostObject(KindOf[o], tenant[o].val, Required))

\* SyncToHost "projects every eligible virtual object": in the end every tenant
\* object has an up-to-date mirror, unless its name is taken.
EveryObjectProjected ==
  <>[](\A o \in Obj : Synced(o) /\ Exists(tenant[o]) => Pushed(o) \/ NameTaken(o))

\* "deleting the tenant object removes the host mirror too" (syncPass): in the
\* end no mirror is left whose source is gone.
OrphansCollected ==
  <>[](\A s \in Slots : Managed(host[s]) => Exists(tenant[host[s].src]))

\* The mirror of o is a Pod that runs on a node.
Scheduled(o) == KindOf[o] = "Pod" /\ host[Slot(o)].val.fixed = HostAddress

\* fromHost, tenant-wins and host-wins: in the end every mirrored pair agrees,
\* but for the node of a Pod, which only the host knows (ContentEqual compares it
\* with the tenant's, and adoptPodImmutableFields keeps it).
PairsAgree ==
  <>[](\A o \in Obj :
         Synced(o) /\ Exists(tenant[o])
         => PairAgrees(o) \/ NameTaken(o) \/ (Scheduled(o) /\ Pushed(o)))

\* "manual": in the end a pair disagrees only if both sides hold an edit the
\* other has not seen; "if only one side's resourceVersion has moved since the
\* recorded baseline, that side's change propagates automatically"
\* (sync-engine.md, reconcileBidirectionalConflict).
OneSidedEditsPropagate ==
  <>[](\A o \in Obj :
         Synced(o) /\ Exists(tenant[o]) /\ ~NameTaken(o)
         => PairAgrees(o) \/ (o \in dirtyT /\ Slot(o) \in dirtyH))
=============================================================================
