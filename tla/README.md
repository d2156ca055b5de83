# A TLA+ model of tenantplane

tenantplane gives every tenant of a Kubernetes host cluster a control plane of
its own. A controller provisions that control plane, locks down the tenant's
workload namespace, and keeps copying objects between the tenant's API server
and the host's. This directory models the parts that keep state and run
concurrently with something else, checks them with TLC on small instances, and
proves every safety property the passing runs check, type invariants included, with
TLAPS for every value of the constants, the hypotheses of section 5 apart.

Paths below are relative to the repository (`internal/...`), which
`PROJECT.json` names as `src/...`; its `map` gives the lines behind every
definition.

## 1. The system

| Part | State | Operations | Talks to |
|---|---|---|---|
| Sync engine, `internal/syncer/engine.go` | per run: convergence history, rate limiter, recorder; per pass: listed objects, desired host names | `SyncToHost`, `SyncFromHost`, `SyncBidirectional` → `syncPass`, `reconcilePair`, `reconcileBidirectionalConflict`, `pushToHost`, `pullToTenant`, `collectOrphans` | tenant and host API servers |
| Sync run and decision store, `internal/controller/sync.go`, `sync_decisions.go` | the `SyncDecision` object on the host: entries and history | `runSync`, `loadConvergenceHistory`, `recordSyncDecisions` | sync engine, host API server through an informer |
| Object transformation, `internal/syncplan/transform.go` | none | `BuildHostObject`, `AdoptHostAllocatedFields`, `ContentEqual`, `MergeHostContentIntoTenant`, ... | called by the engine |
| Host naming, `internal/syncplan/plan.go` | none | `HostName`, `SanitizeName`, `fnv32` | engine, control-plane namespace |
| TenantCluster reconciler, `internal/controller/tenantcluster_controller.go`, `namespace.go` | `TenantCluster` with finalizer and status, control-plane namespace, StatefulSet, kubeconfig Secret | `Reconcile`, `teardown`, `ensureControlPlaneNamespace`, `ensureKubeconfigSecret` | host API server, informers, the engine |
| Isolation and admission, `isolation_apply.go`, `admission.go`, `rbac_scope.go`, `internal/isolation` | NetworkPolicy, quota, limit range, namespace labels, admission policies and bindings | `applyIsolation`, the builders, `ensureRuntimeClassPolicy`, `reconcileRuntimeClassBinding`, `ensureControllerScopePolicies` | host API server; the policies judge the tenants' Pods and the controller's own later writes |
| Control-plane objects and kubeconfig, `controlplane.go`, `kubeconfig.go` | two Services, StatefulSet, kubeconfig Secret, objects of the old layout | `reconcileService`, `reconcileExternalService`, `reconcileStatefulSet`, `ensureKubeconfigSecret`, `externalEndpoint`, `cleanupLegacyControlPlane` | host API server, informers, the control plane's pod, the cloud |
| Decision log, `decision_recorder.go`, `sync_decisions.go` | Events, entries of the `SyncDecision` object | `Record`, `recordSyncDecisions` | sync run, informer |
| Status conditions, `status.go`, `support.go` | status of the `TenantCluster` | `setCondition` and its callers, `degrade` | reconciler |
| API types, manager, CLI | – | declarations, wiring, rendering | – |

What is hard about it:

* **Two API servers and users on both.** The engine reads the tenant list, then
  one host object at a time, then writes. Everybody else writes in between, and
  a deletion and re-creation may hide behind one name.
* **A three-way merge without a stored base.** Manual conflict resolution knows
  only the two resourceVersions at which a pair last agreed. They live in memory
  during a run, in the `SyncDecision` object between runs, and in an informer
  that may lag behind it. A wrong pair of numbers silently destroys an edit.
* **Partial failure.** One object's error must not cost another object its
  mirror, and a write whose answer is lost has happened all the same.
* **A rate limiter** that runs dry in the middle of a pass.
* **Names.** Host names are computed, so two objects may meet on one name, and
  somebody else's object may already have it.
* **Provisioning in many steps** from a cached copy of a `TenantCluster` that
  may be deleted meanwhile, with a restart possible between any two steps.
* **Administrators who change their minds**: a profile, a reference, a version or
  the exposure of a control plane changes while a reconcile applies the old copy,
  one object after the other, and its status update is then refused.
* **Updates the API server forbids**: a running Pod, a StatefulSet's volume claim.
* **Policies that bind the controller itself**, installed by the first tenant
  and applying to the second.

What makes each part correct: the engine never turns one object's mirror into
another's, deletes only orphans, destroys no unseen edit under `manual`, and
brings pairs to agreement when users stop; the history is true; the finalizer
outlives the control-plane namespace and the admission binding; nobody else's
namespace is touched; deletions complete and tenants become Ready; host names
are labels, and unambiguous where the code can promise it; a namespace ends up
with the isolation of the profile in force and the tenant's Pods get through it;
the control plane, the status and the kubeconfig end up as the specification
asks; the decision log is an ordered window on what was published; the update of
a running Pod is one the host accepts.

## 2. Modules

| Module | Models | Role |
|---|---|---|
| `Transform` | `internal/syncplan/transform.go` | the conversions between tenant and host content, as operators |
| `SyncEngine` | `internal/syncer/engine.go`, `internal/controller/sync.go`, `sync_decisions.go` | state machine of the engine, its store and its users; EXTENDS `Transform` |
| `SyncEngineProofs` | | theorems about `SyncEngine`: types, provenance, orphans |
| `SyncEngineHistoryProofs` | | theorems about the convergence history, unseen edits, and the refinement of `SyncedPairs` |
| `MCSyncEngine` | | the objects, kinds, names and policies of the instances |
| `TenantLifecycle` | `internal/controller/tenantcluster_controller.go`, `namespace.go`, `isolation_apply.go`, `admission.go`, `rbac_scope.go` | state machine of the reconciler |
| `TenantLifecycleProofs` | | theorems about `TenantLifecycle` |
| `MCTenantLifecycle` | | the tenants and namespaces of the instances |
| `SyncedPairs` | | abstract specification: what manual bidirectional sync promises users |
| `SyncEngineRefinement` | | `SyncEngine` implements `SyncedPairs`: the refinement mapping |
| `Isolation` | `isolation_apply.go`, `admission.go`, `support.go`, `internal/isolation/*.go`, first half of `Reconcile` | from a profile to what holds in a namespace and which Pods get in |
| `ControlPlane` | `controlplane.go`, `kubeconfig.go`, second half of `Reconcile` | the control plane's objects, the kubeconfig, endpoints, migration |
| `DecisionLog` | `sync.go`, `sync_decisions.go`, `decision_recorder.go` | the entries of the `SyncDecision` object and the Events |
| `PodAdoption` | `internal/syncplan/transform.go` | the update of a running Pod, field by field |
| `MCIsolation`, `MCControlPlane`, `MCPodAdoption` | | profiles, specifications and Pods of the instances |
| `IsolationProofs`, `ControlPlaneProofs`, `DecisionLogProofs`, `PodAdoptionProofs` | | theorems about these |
| `HostNaming` | `internal/syncplan/plan.go` | the naming algorithm, checked over all short inputs |
| `HostNamingProofs` | | the same for names of any length |
| `MCHostNaming` | | gives `HostNaming` the exclusive or of `Bitwise`, which no module with theorems may reach |

How the modules meet. `Reconcile` is split by concern, because its halves share
only the order of the calls and the way they fail: `TenantLifecycle` has every
call once, with what a tenant's creation and deletion depend on; `Isolation` has
the calls up to the admission binding in detail, `ControlPlane` the ones after it,
and each sees the other half as a place where a reconcile dwells or fails.
`SyncEngine` is what happens inside the sync step of all three; `DecisionLog` is
the part of that step `SyncEngine` abstracts to "there were decisions", and
`PodAdoption` the part it abstracts to a Pod's fixed and free content.
`SyncEngine` takes the host name of each object as a constant, clashes included:
`HostNaming` shows which clashes exist.

Operators whose name has an underscore and a suffix, under a comment that begins
with "Mutant", are deliberately wrong variants of the definition that follows
them. No specification uses them; they show that a property notices the bug.

### SyncEngine

Objects are numbered in the order the API server lists them. A *slot* of the host
is a kind and a host name, and holds at most one object. A content has the three
parts the code tells apart (`Transform`): a freely editable one, one an update
cannot change (a Service's addresses, a Pod's immutable spec), and the runtime
class. A resourceVersion comes from a counter per API server, 0 meaning absence.

| Action | Code |
|---|---|
| `StartRun` | `runSync` makes an engine: full limiter, history from the cached `SyncDecision` |
| `ListVirtual` | the list of the tenant's objects in `syncPass`, with the eligibility filter; an error ends the pass |
| `ReconcilePair` | one round of the loop: the host name becomes desired, Get(host), and the decision: leave alone, throttle, plan a write, or report the failed Get |
| `Write` | Create, Update(host) or Update(tenant), with the checks of the API server, the lost answer, and `setConverged` |
| `ListHost`, `DeleteOrphan` | `collectOrphans`: its list, and one round of its loop, the limiter included |
| `FinishPass` | the end of a pass in `runSync`: `recordSyncDecisions`, or why it is skipped |
| `CacheSync`, `Refill` | the informer catches up; time gives the limiter a token |
| `Restart` | the manager stops: only the API servers' state survives |
| `TenantCreate` ... `HostTouch` | everybody else |

A step is one API call and the local computation after it. The worker keeps the
object and the host copy it read (`cur`, `seen`, `snap`), so that everything it
decides may be out of date when the write arrives; the API server's
resourceVersion check, modelled at that moment, is what protects it. `Delete` in
`collectOrphans` carries no precondition, and the model deletes whatever has the
name by then.

What a mirror was made from (`MadeFrom`) and what the code recognises (`MirrorOf`,
`sameSource`) are two things: the label holds the sanitized name of the tenant
(`transform.go:52`, read back in line 268) and is compared with the name itself
(`engine.go:429`). `LabelIsName` says whether the two are the same for this tenant; the
properties speak of `MadeFrom`, and section 3 says what happens if they differ.

`dirtyT` and `dirtyH` are ghosts, read by no action: the objects whose last user
edit has not reached the other side.

The environment includes two events that change one side of a pair without a user's
edit: `HostSchedule`, the scheduler's write of a node name into a Pod, and
`TenantReset`, a tenant control plane that starts from an empty volume, so that
its objects are gone and its resourceVersions begin again.

### SyncedPairs and SyncEngineRefinement

`SyncedPairs` says what a user of `conflictPolicy: manual` may rely on, with values
only. The engine works from copies (`copy`, `peek`). It makes a mirror only in an
empty slot (`Project`); it overwrites a side only from a copy that is still good,
and only if the content it destroys has been seen by the other side (`Push`,
`Pull`); it removes only what had no source in its list (`Collect`). `newT` and
`newH` are the edits the other side has not seen.

The mapping compares contents as the code does (`ContentEqual` after the removal
of host-allocated fields and of the injected runtime class) and maps the ghosts
`dirtyT` and `dirtyH` to `newT` and `newH`. resourceVersions, the history and its
copies in the `SyncDecision` object and in the informer disappear: that every step
of the engine is a step of `SyncedPairs` or a stutter says that those numbers are
enough to know which content may be destroyed. `engine_safety` checks it with
collisions, foreign objects, a limiter, a fault and a lagging informer.

### TenantLifecycle

The worker's `pc` is the next call of `Reconcile` for tenant `cur`, made from
the copy of the `TenantCluster` the reconcile began with (`copy`). A status write
or finalizer change from a copy that is not current is refused. `Begin` chooses
between provisioning (`AddFinalizer` ... `RunSync`) and teardown
(`DeleteRuntimeClassBinding` ... `ReleaseFinalizer`). `CallFails` is the failure
of any of these calls, `Restart` the end of the process at any point.

Kubernetes' own controllers are external, and modelled as far as the code relies
on them: informers, namespace termination, owner-reference garbage collection,
StatefulSet readiness. The scope policies of `rbac_scope.go` judge the
controller's writes once `scoped` holds. `incarnation` counts control planes
that started from an empty volume and so have new credentials; a kubeconfig is
good for one incarnation.

### Isolation

`Begin` reads the `TenantCluster` and its profile; everything until the status
update works from that copy. `ApplyNetworkPolicy`, `ApplyResourceQuota`,
`ApplyLimitRange`, `ApplyLabels`, `EnsurePolicy` and `ReconcileBinding` each write
one object or fail, `ListPods`, `SyncPod` and `FinishSync` are the sync pass as far
as Pods come and go, `ReportReady` and `degrade` end the reconcile with a status
update that a change of the `TenantCluster` refuses. `Admitted` is the host's
verdict on a Pod: Pod Security by the namespace's label, the quota's demand for
requests that only a LimitRange supplies, and the CEL expression of
`buildRuntimeClassPolicy`, which reads the profile as it is at that moment and not
as the reconcile read it. A Pod may name a class itself (`OwnClass`), which is what
reaches the host unless the profile names one (`StampedClass`, `engine.go:211`). A profile that omits the optional class and one that has
the empty string are the same to the controller (`profileFromCR`) and different to
the expression.

### ControlPlane

`CleanupLegacy` and `DeleteLegacy` are `cleanupLegacyControlPlane`, for one object after
the other the Get with the judgement and the Delete by name: `Legacy` names
the StatefulSet, two Services and volume claim of earlier versions in the workload
namespace, each absent, tenantplane's, or a stranger's. `ReconcileService`,
`ReconcileExternalService`, `ReconcileStatefulSet`, `EnsureKubeconfigSecret` and
`PublishEndpoint` follow the code, then one of three status updates. Reads come
from informers: for the kinds in `Lagging` they return `seen`, and a write from an
old copy is refused. A kubeconfig has a server and a user: as read in the pod it
names the loopback address (`RawKubeconfig`), and `rewriteKubeconfigServer`
replaces it. The pod runs an image and is ready or not, and rolls when the image
in the template changes.

### DecisionLog

Decisions are numbered as they are made, so that order, loss and duplication can be
seen. A pass decides (`Decide`, which publishes an Event at once if recording is
on), ends with or without error (`EndPass`), and stores its batch in two calls
(`OpenStore`, `WriteStore`) from what the informer shows, while the policy's
`recordDecisions` and `retain` change.

### PodAdoption

The two containers lists, the deadline and the tolerations of a Pod, which are the
fields an update may touch, and the node the host's scheduler sets. The API server's
rule for updates is external (`LegalUpdate`). The model is a check of a pure
function, over all pairs of an older and a newer Pod, wrapped in the few steps that
produce such pairs.

### HostNaming

Strings are sequences over a small alphabet: a letter, the letter `x` of the
separator, a digit, an upper-case letter, the dash and a character that has to be
replaced. Kubernetes names are ASCII, so that the letters outside it, which
`unicode.IsLetter` would keep, do not occur in the inputs. The limit of 63
characters and the 32-bit hash (its digits, size, offset and prime, and the operator
`^`) are constants, which the runs scale down so that names are cut and hashed
within short inputs. Cutting, trimming and hashing follow the code's order; the
loops of `SanitizeName` and `fnv32` are recursive functions, one round per
character.

`Sanitizes` is the reference meaning of `SanitizeName`: a map from the positions of
the input's letters and digits to those of the output's, onto and increasing, with
neighbours kept together and one dash between any others.

## 3. Runs

All pass within five minutes on two cores. Deadlock is checked wherever a
reconciler runs that never stops (`engine_*`, `isolation*`, `controlplane*`,
`decisionlog*`, `podadoption*`). It is not in `life_*`, where a cluster whose tenants
are all deleted has nothing left to do, nor in `naming*`, where the inputs are
exhausted.

### Runs that pass

| Run | Instance | What it shows |
|---|---|---|
| `engine_safety` | two Services with one host name, manual bidirectional, limiter with one token, 4 outside writes, 1 fault, lagging informer | `TypeOK`, `HistoryTruth`, `ProvenanceStable`, `OnlyOrphansDeleted`, `NoLostEdit`, `ImplementsPairs` |
| `engine_project_live` | a toHost Deployment, a tenant-wins bidirectional Pod with a required runtime class, a system object with the Deployment's host name, 4 writes, 1 fault | `EveryObjectProjected`, `PairsAgree`, `OrphansCollected` |
| `engine_manual_live` | a manual bidirectional Deployment and a fromHost Service with the same host name (two kinds), 5 writes, no fault, no lag | `OneSidedEditsPropagate` |
| `life_safety` | two tenants of two namespaces with the same control-plane name, administrators and strangers, 5 operations, 1 fault | `TypeOK`, `FinalizerHeldUntilGone`, `BindingsCleared`, `ForeignNamespaceSafe` |
| `life_delete_live` | one tenant, lagging Namespace informer, 5 operations, 2 faults | `DeletionCompletes`, and `ForeignNamespaceSafe` with stale copies |
| `life_ready_live` | two tenants, own names, a cluster without admission policies, 4 operations, 1 fault | `TenantsBecomeReady` |
| `isolation` | two profile names with profiles of all levels, quantities good, absent and unparsable, a restricted Pod and a baseline one, of which one names a runtime class itself; 2 edits (of profiles or the `TenantCluster`, drift, Pods that come and go), 1 fault or restart | `TypeOK`, `IsolationConverges`, `PhaseSettles`, `PodsAreMirrored` |
| `controlplane` | five specifications (two valid, three that only an older version accepted), two layouts of the workload namespace (of an older version, and new with two of the old names taken by strangers), a lagging Service informer, 1 edit, drift or name taken, 1 fault | `TypeOK`, `ControlPlaneConverges`, `StatusConverges`, `MigrationCompletes`, `StrangersStay` |
| `decisionlog` | two resources, retain of 0, 1 or 3, up to 5 decisions, a lagging informer, 2 policy edits, 2 faults | `TypeOK`, `LogIsHistory`, `WindowSlides` |
| `podadoption` | 180 Pods: container lists in either order, init containers, deadlines, tolerations given once, twice or not | `UpdateKeepsFixedFields`, `UpdateSettles`, `ImagesFollow` |
| `naming` | all inputs of 5 characters over 5 letters, limit 10 | `HostNameIsLabel`, `SanitizeMeaning`, `InjectiveOnPlainNames` |

Why the bounds are enough. `MaxOps` of 4 or 5 lets a pair be created, agree, and
then be edited on both sides, or deleted and re-created, between any two steps of
the engine; two objects are what a collision takes, and one token makes the
limiter refuse. One fault per behaviour suffices for each single failure or
restart at any point; `life_delete_live` has two, so that a retry may fail as
well. In `naming` the separators alone take 6 of the 10 characters, so names of 4
characters in all are at the limit and those of 5 are cut. In `isolation` and
`controlplane` convergence is a claim about the time after the last edit: an edit
at any point of any reconcile, from every initial specification and layout, already
gives each pair of an old copy and a new specification, and further edits only add
histories that end in such a pair. `controlplane_lag` repeats the claims with the
other informers lagging. In `decisionlog` a window of 3 is overrun by 5 decisions of
which a batch may hold several, and two edits of the policy lower and raise it. In
`podadoption` one edit or re-creation gives every pair of Pods.

What the runs leave out on purpose. `OneSidedEditsPropagate` is checked without
faults and with a current informer: a lost answer or a refused save loses a
baseline, and "when both sides have moved since the last known-good point — or no
history exists at all" (`internal/syncer/engine.go:328-330`) the engine leaves both
sides alone. `engine_lag` shows that case.
`EveryObjectProjected` is checked without the limiter, and `engine_starved` shows
why. `TenantsBecomeReady` needs a cluster without admission policies, and
`life_scope` shows why. `FinalizerHeldUntilGone` needs a current Namespace cache,
and `life_stale_namespace` shows why. `PodsAreMirrored` is checked with profiles
that name a runtime class or the empty string, and all of which ask for a limit
range if they ask for a quota: `isolation_no_class` and `isolation_stale_quota` show
why. `UpdateKeepsFixedFields` excepts the deadline, and `podadoption_deadline` shows
why. `StrangersStay` holds from the moment the informer has lost sight of tenantplane's
own object and no Delete decided before is left, and not of the volume claim:
`controlplane_name_reuse` and `controlplane_volume` show why. `LabelIsName` holds in all
runs: for a tenant whose name `SanitizeName` changes, as `a--b`, the engine takes each of
its own mirrors for a collision, and never updates it. With `LabelIsName = FALSE`
in `engine_project_live.cfg` TLC refutes `EveryObjectProjected` and `PairsAgree`;
`OrphansCollected` still holds.

### A run that shows a disagreement

| Run | Statement | What happens |
|---|---|---|
| `life_scope` | "Namespaces the controller does manage never hit this binding at all" (`internal/controller/rbac_scope.go:88-90`) | the isolation objects are written before the namespace is labelled, so the policy the first tenant installed refuses the second tenant's |

### Further instances

These configurations are kept for the same purpose; each names the one property
that TLC refutes.

| Configuration | Property | What it shows |
|---|---|---|
| `engine_starved` | `EveryObjectProjected` | a limited write is "retried on the next sync pass" (`internal/syncer/engine.go:122`), but a toHost pass spends a token on every object, changed or not, in list order, from a limiter that is new in every run: the objects past the burst are deferred for ever |
| `engine_lag` | `OneSidedEditsPropagate` | "only one side's resourceVersion has moved since, that side's change is propagated automatically" (`engine.go:324-326`): the save of the history is refused because the informer lags, the failure is only logged, and the next one-sided edit is a conflict that stays |
| `engine_reset` | `NoLostEdit` | a tenant control plane that starts anew counts its resourceVersions from the beginning: a baseline of its former life matches the new object, which then counts as unchanged and is overwritten by an edit of the old mirror (`engine.go:348`) |
| `engine_pod_baseline` | `HistoryTruth` | a Pod re-created with another immutable spec: the push adopts the live spec and succeeds, and a baseline is recorded although the two differ (`engine.go:69-70`, `357-358`, `390`). It is why `engine_safety` uses Services |
| `engine_foreign` | `ForeignUntouched` | "Objects that aren't tenantplane-managed are never touched" (`website/content/docs/concepts/sync-engine.md:60-61`): an orphan is replaced by a foreign object between list and delete (`engine.go:465`) |
| `engine_shared_orphan` | `OrphansCollected` | the mirror of a deleted object stays for ever when another listed object has its host name (`engine.go:179-180`, `217`). It is why `engine_project_live` has its collision with a system object only |
| `engine_rbac` | `OrphansCollected` | kinds the ClusterRole lets the controller create but not delete (`deploy/tenantplane.yaml:23-29`) |
| `engine_history_lost` | `SavedHistoryGrows` | "it naturally only grows" (`internal/controller/sync_decisions.go:44-45`): the history is replaced as a whole (line 86), also by a run that started from nothing |
| `engine_shared_key` | `OneSidedEditsPropagate` | objects of two bidirectional kinds with one name overwrite each other's history entry (`engine.go:373`) |
| `engine_class` | `PairsAgree` | a tenant Pod that sets a runtime class itself never compares equal to its mirror (`engine.go:293-294`, `296`) |
| `life_leftovers` | `WorkloadNamespaceCleared` | "Everything in the workload namespace is owner-referenced" (`namespace.go:101-102`, `docs/design.md:62-63`): mirrors are not |
| `life_kubeconfig` | `TenantsBecomeReady` | a control plane rebuilt under its old address keeps the old kubeconfig and never syncs again (`tenantcluster_controller.go:175-176`, `352`). It is why `life_ready_live` has no deleted namespaces |
| `naming_injective` | `InjectiveWithinLimit` | "For inputs within the 63-char DNS-1123 limit the mapping is injective" (`internal/syncplan/plan.go:63-64`): names may contain the separator `-x-` themselves |
| `life_stale_namespace` | `FinalizerHeldUntilGone` | the finalizer "holds TenantCluster deletion until the control-plane namespace ... has been removed" (`internal/controller/namespace.go:17-19`): teardown reads a cache that has not seen the new namespace and takes NotFound for removal |
| `isolation_no_class` | `PodsAreMirrored` | "Optional runtime class for tenant pods." (`website/content/docs/reference/crds.md:43`): the policy's expression reads the field without `has()` (`admission.go:68`), so a profile that omits it refuses every Pod |
| `isolation_stale_quota` | `PodsAreMirrored` | `applyIsolation` writes what a profile asks for and removes nothing an earlier one asked for: its quota stays, the limit range is removed by somebody and not restored, and Pods without requests are refused |
| `isolation_enforced` | `EnforcedIsApplied` | "status must state exactly what is and is not real" (`support.go:17`): `IsolationEnforced` is set before anything is applied, and kept when the application fails |
| `controlplane_volume` | `VolumesKept` | "Only objects carrying tenantplane's control-plane labels for this tenant are touched." (`tenantcluster_controller.go:397-398`): the volume claim is deleted by name alone (line 436) |
| `controlplane_name_reuse` | `StrangersKept` | the label check is made on the informer's copy, the deletion by name: a StatefulSet somebody made under the old name meanwhile is deleted |
| `decisionlog_lag` | `ActionsAreStored` | "records every sync action ... in a durable `SyncDecision` object" (`website/content/docs/concepts/syncpolicy.md:75-77`): the second resource of a run writes from a copy the informer had before the first one's store, is refused, and its decisions are dropped |
| `podadoption_deadline` | `UpdateIsValid` | "keeps a re-synced Pod's update valid" (`internal/syncplan/transform.go:160`): a re-created tenant Pod with a longer `activeDeadlineSeconds` makes an update the host refuses in every pass |

`controlplane_lag` is an instance that passes: the claims of `controlplane` on
convergence, with lagging StatefulSet, Secret and volume claim informers.

Documentation that differs from the code in ways no property is needed for:
`tenantcluster.md:44` says of `kubernetesVersion` "Accepted today but not yet wired
to k3s image selection", which `k3sImageForVersion` does; `types.go:59` calls the
decisions a "most-recent-first window", they are stored oldest first; a changed
`spec.controlPlane.storage.size` (`crds.md:22`) is accepted and never applied to an
existing volume; an `explain.retain` lowered to 0 stops the recording and trims nothing
(`crds.md:78`); Pods that exist when a profile's runtime class changes keep the old one,
and a tenant Pod re-created with other containers keeps running the old ones on the
host, since both fields are immutable and mirrors are not re-created. A bidirectional
Pod that the host's scheduler has placed (`HostSchedule`) differs from its source for
good, since the node name is not stripped from the comparison and cannot be written back.

## 4. Fairness

`SyncEngine`: weak fairness of the worker, because every outcome of `Reconcile`
requeues and no call blocks for ever, and of the informer. Users owe nothing, and
the limiter's refill is not assumed: a pass may always be faster than it. The
bounds make users and faults stop, which is the premise of "in the end" in the
liveness properties.

`TenantLifecycle`: weak fairness of the worker and of Kubernetes' controllers,
and strong fairness of `Begin` for each tenant. There is one worker and a
first-in-first-out queue on which every tenant is put again after each reconcile:
`Begin(t)` is enabled again and again, though not continuously, and the queue
sees to it that it is taken.

`Isolation`, `ControlPlane`, `DecisionLog`: weak fairness of the controller, for the
same reason; in `ControlPlane` also of each informer, of the StatefulSet controller
and of the cloud, which the code waits for; in `DecisionLog` of the informer and of
`Decide`, since a pass looks at every object it listed, and only the properties of
the further instances use it. `PodAdoption`: weak fairness of `Push`. Nothing
assumes that an administrator acts or that a fault occurs.

## 5. Proofs

`SyncEngineProofs`, from `ConstantsAssumption` (types of the constants, at least
one resource; nothing on the number of objects, the names, the policies or the
bounds):

* `TypeCorrect`: `Spec => []TypeOK`.
* `ProvenanceNeverChanges`: `Spec => ProvenanceStable`. The difficulty is the gap
  between `Get` and `Update`: the provenance check is made on `seen`, the write
  arrives at `host`. The proof needs that a slot with the resourceVersion of
  `seen` still has its source. `ProvenanceInv` therefore carries that no version
  on the host is above the counter (`VersionsBounded`), so a later write always
  shows, and that a pending push was planned from a mirror of the current object,
  which the slot still holds if it has that version (`PendingPush`).
  The lemma `HostMoves` classifies every step by what it does to the host once,
  so that each part of the invariant need not look at twenty actions.
* `OnlyOrphansAreDeleted`: `Spec => OnlyOrphansDeleted`. The pass spreads over many
  steps, and the mirror deleted at the end may have been created after the list
  it is judged by. The invariant says that a mirror sits in its source's own slot
  (`MirrorsPlaced`), that a listed object is either still to do or its name is
  desired (`ListedCovered`), and that what is marked for deletion is a slot of the
  pass's kind with a name that is not desired (`OrphansListed`). `collectOrphans`
  deletes by name, so the object in the slot may have changed since the list:
  the argument is about slots and names, and holds for whatever mirror is there.

`SyncEngineHistoryProofs` is about what the history is for:

* `BaselinesAreTrue`: `NoPods /\ NoReset => (Spec => []HistoryTruth)`, for every
  conflict policy.
* `ManualLosesNoEdit`: `NoPods /\ NoReset /\ ManualPolicy => (Spec => NoLostEdit)`.
* `EngineImplementsPairs`: under the same hypotheses `Spec => ImplementsPairs`; every
  step of the engine and of its users is a step of `SyncedPairs` or a stutter.

The hypotheses are on the instance, not on its behaviour: no synced Pods, no control
plane rebuilt on an empty volume, and, for the last two, every resource
bidirectional with `conflictPolicy: manual`, the only mode that promises to destroy
no unseen edit. The first two cannot be dropped: `engine_pod_baseline` refutes
`HistoryTruth` with a Pod, `engine_reset` refutes `NoLostEdit` with a rebuilt control
plane. Nothing is assumed about the number of objects, shared host names, the
limiter, faults or the informer; `engine_safety` is an instance.

`HistoryInv` rests on one observation. The code trusts a pair of numbers that it
keeps in three places (memory, the `SyncDecision` object, the informer's copy), any
of which may be arbitrarily old. So the claim must hold of a record for all time: a
version identifies a content once and for all (`TenantVersions`, `HostVersions`: an
object or a copy with the same version is the same, and none is above the counter),
hence a record is either about contents that have not changed since, and then the two
sides agree and neither holds an unseen edit (`Truthful`, `Clean`), or is void and can
never match again (`GivenOut`). Each of these is preserved when records are copied
from one place to another, whichever copy is the older. `PlannedByHistory` adds that a
write decided by the manual policy replaces the very version in the record; the API
server's version check, in the same step as the write, does the rest. For the
refinement each of the engine's writes is shown to be one of `Project`, `Push`, `Pull`
or `Collect`; `PlannedByHistory` is the guard of `Push` and `Pull` in abstract terms.

`TenantLifecycleProofs`, from `LifecycleAssumption`:

* `TypeCorrect`: `Spec => []TypeOK`.
* `BindingsNeverLeak`: `Spec => []BindingsCleared`.
* `NamespacesNeverLeak`: `Spec => [](~NamespaceLag => FinalizerHeldUntilGone)`.

Neither is inductive: a reconcile provisions from a copy, and the copy comes from
an informer. `IInv` adds `InformerCoherent` (a live copy with a finalizer vouches
for the finalizer, since only the worker releases it, and only after seeing the
deletion), `WorkerCoherent` (the same for the reconcile in progress), and that what
teardown has removed is not made again before the release (`BindingsHeld`,
`NamespacesHeld`). That there is one worker is what the argument rests on, and it
is how the manager is set up: the controller keeps the default of one concurrent
reconcile.
* `ForeignNamespacesAreSafe`: `Guarded => (Spec => ForeignNamespaceSafe)`. `Guarded` is
  that the scope policies are served, and that either the Namespace cache is current or
  no two tenants compute the same namespace name. Of two tenants with one name a
  copy that is out of date may show one its own namespace where the other's is by now,
  and the policies do not tell tenants apart. `ScopeInv` says that a namespace
  of a tenant's never exists, in fact or in a copy, before the policies do, and that
  what stands where the worker is about to act is its tenant's, nobody's or a
  stranger's.

`DecisionLogProofs`, from `DecisionLogAssumption`: `LogTypeCorrect` (`[]TypeOK`),
`LogTellsHistory` (`[]LogIsHistory`) and `WindowAlwaysSlides` (`WindowSlides`).
`LogIsHistory` says that the stored entries are published decisions and, followed by
the batch, in order; the missing part (`Held`) is that a batch collected
under a policy that records holds published decisions only, and that nothing is stored
under any other. A write from an old copy is refused, so that what is
trimmed is what is stored, and the next decision has a higher number than all
of them (`TypeOK`, with `made`).
The policy changes during a pass, so that this holds of the policy the pass
began with (`copy.record`), not of the one in force. The lemmas on `IsSuffix`,
`Trimmed` and concatenation are stated once.

`PodAdoptionProofs`, from `PodAssumption`: `FixedFieldsAreKept`
(`[]UpdateKeepsFixedFields`) and `UpdatesSettle` (`[]UpdateSettles`), for Pods with any
containers and tolerations. `mergeTolerations` is a loop; that it appends
only what is missing, and nothing the second time, is proved by induction on its rounds.

`ControlPlaneProofs`, from `ControlPlaneAssumption`: `PlaneTypeCorrect` (`[]TypeOK`, with
`PlaneInv` for the objects as they are, as the informers show them and as the
reconcile copied them) and `StrangersAreSafe`
(`StrangersStay`). The claim is about all time after a moment, and the proof needs
that this moment does not pass (`KnownStays`): a stranger's name is not judged to be
tenantplane's by a copy that does not show it, a Delete is only under way where it was
decided (`DeleteDecided`), and informers only ever learn what is (`CopiesAreRefreshed`).

`IsolationProofs`, from `IsolationAssumption`: `IsolationTypeCorrect` (`[]TypeOK`). It is
more than a typing: no quota that does not parse, no level of a missing profile and
on a mirror no class but the one its Pod names itself or one a profile names gets into
the namespace, although every one of them is written from an old copy. `Held` says that a reconcile gets past the reading
of its profile only with one that existed then.

`HostNamingProofs`, from `NamingAssumption` (the hash fits between the dash and the
limit, and its values in its size; the code's 63, 8 and 2^32 satisfy it):

* `HostNamesAreLabels`: `Spec => []HostNameIsLabel`, cut and hashed or not.
* `NamesAreSanitized`: `Spec => []SanitizeMeaning`. The loop's rounds are related one by
  one: what is written stays (`RunKeeps`), what is no dash was written for a letter or
  digit (`RunOnto`), and between two of them one dash is written if anything
  stood there (`RunGap`); `Trim` then moves every position by the same amount.
* `HostNameTellsApart`: two references to plain names, of any length within the
  limit, have the same host name only if they are the same, and
  `PlainNamesAreToldApart`: `Spec => []InjectiveOnPlainNames`, about all plain
  references whose name is within the limit (`UncutIsSource`: `Sources` has each of
  them). Longer ones are cut and hashed and left out: `<n>-x-<v>-x-<prefix>-<hash>`
  is also the name of a plain reference that is not cut. A separator `-x-` is a
  segment `x` between dashes, and a plain name has none, so that the two in the
  host name are the only ones and say where the parts end. `naming_injective` shows that
  names with such a segment have to be excluded.

The loops call for induction over data, which the provers do not do by themselves.
`LeastNumber` (a set of numbers that is not empty has a least one, from the library's
`WFMin` on the order of the natural numbers) and `UpTo` replace it (here and in
`PodAdoptionProofs`): the rounds at which a claim holds form a set, and the first
round at which it fails has a round before it. That is why these loops are
recursive functions and not folds.

What is only model-checked: the liveness properties (`EveryObjectProjected`,
`PairsAgree`, `OrphansCollected`, `OneSidedEditsPropagate`, `DeletionCompletes`,
`TenantsBecomeReady`, `IsolationConverges`, `PhaseSettles`, `PodsAreMirrored`,
`ControlPlaneConverges`, `StatusConverges`, `MigrationCompletes`, `ImagesFollow`),
because they need fairness and ENABLED.

## 6. Not modelled, and why

* Errors of `BuildHostObject` before an object's name becomes desired do not occur
  for eligible objects; resources with an unknown direction or apiVersion are
  skipped by `runSync`. Both are left out.
* Metadata other than the reverse mapping: a write to it is a `Touch`.
* Objects of other tenants on the host are foreign; the provenance test treats
  them alike.
* A `TenantCluster` name is used once in `TenantLifecycle`, and its profile and
  policy exist there.
* In `Isolation` cpu and memory are one quantity, and a missing `SyncPolicy` is not
  distinguished from any other failure; in `ControlPlane` of the manifests only what
  an edit can change is kept, one replica.
* `syncRequeueInterval` and the watch mappings (`SetupWithManager`,
  `mapControlPlaneObject`, `mapForIndex`) decide how soon a reconcile follows. All
  specifications let one follow at any time after the previous one, which every
  outcome of `Reconcile` asks for.
* The conditions `ModeSupported`, `SyncSupported` and `ControllerRBACScoped` repeat
  what the specification or the cluster says; messages, reasons and timestamps of
  conditions and Events are text.
* API types and their deep copies are declarations and generated code; the manager
  is wiring; the command line tool renders manifests and explains names, without
  state that any of the above depends on.

## 7. Plan

The core came first: what the engine does to users' data, then the life of a
tenant, then names; then what the engine promises and that it keeps it, and the
two halves of a reconcile, the decision log and the Pod algorithms. The
safety properties of all of them are proved. What remains:

1. `SyncEngine`: the history for Pods whose immutable parts never change, so that
   `NoPods` can be weakened to what `engine_pod_baseline` really needs; the
   refinement for runs in which only some resources are bidirectional.
2. `TenantLifecycle`: a bound on what a stale Namespace cache can cost, where
   `FinalizerHeldUntilGone` fails (`life_stale_namespace`).
3. `Isolation` and `ControlPlane`: the safety half of convergence, that a reconcile made
   from a current copy leaves everything in place when nobody interferes.
4. The remaining facts about `Transform` (a push followed by a comparison agrees) for
   Pods.
