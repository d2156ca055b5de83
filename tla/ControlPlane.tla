----------------------------- MODULE ControlPlane -----------------------------
(***************************************************************************)
(* The control plane of one TenantCluster: the second half of Reconcile    *)
(* (tenantcluster_controller.go), the builders of controlplane.go, and the *)
(* kubeconfig of kubeconfig.go.  A reconcile removes what older versions   *)
(* of tenantplane left in the workload namespace, converges the headless   *)
(* Service, the optional LoadBalancer Service and the StatefulSet, waits   *)
(* for the pod, extracts the kubeconfig and publishes the endpoints.       *)
(*                                                                         *)
(* Every Get is answered by an informer, which may lag.  One step of the   *)
(* controller is one object written (a Get and the write made from it).    *)
(* A Create of an object that exists and an Update made from an old copy   *)
(* are refused, and refuse the same way: what was read is not what is.  An *)
(* object that changed and changed back counts as unchanged.               *)
(*                                                                         *)
(* Simplifications.  The TenantCluster is not being deleted and both its   *)
(* namespaces exist (TenantLifecycle); its isolation (Isolation) and its   *)
(* sync pass (SyncEngine) are places where a reconcile fails or dwells.    *)
(***************************************************************************)
EXTENDS Integers

CONSTANTS
  k3sImages,      \* minor versions with a k3s image
  Stored,         \* specifications a TenantCluster may start with
  Specs,          \* specifications that pass the CRD's validation
  Layouts,        \* what may be found in the workload namespace at first
  Addresses,      \* what the cloud gives a load balancer
  Lagging,        \* kinds whose informer may lag
  EnvOps, MaxOps, MaxFaults

VARIABLES
  spec,           \* spec of the TenantCluster, as far as this module reads it
  host, seen,     \* the objects below, and the informers' copies
  status,         \* status of the TenantCluster
  pc, copy,       \* next call of Reconcile, the specification it works from
  moved,          \* the TenantCluster changed since it was read
  external,       \* the external endpoint found before the sync pass
  ops, faults

workVars == <<copy, moved, external>>
vars == <<spec, host, seen, status, pc, workVars, ops, faults>>
-----------------------------------------------------------------------------
(* The objects: three in the control-plane namespace; in the workload one, the *)
(* kubeconfig Secret and whatever has the names of the old layout.             *)

NoService == "none"
NoExternal == [there |-> FALSE, notes |-> "", addr |-> ""]
NoStatefulSet == [there |-> FALSE, image |-> "", size |-> "", runs |-> "", ready |-> FALSE]
Kubeconfig(server, user) == [server |-> server, user |-> user]
NoSecret == Kubeconfig("", "")
OldSecret == Kubeconfig("old", "old")     \* written before control planes moved

Legacy == {"oldStatefulSet", "oldService", "oldExternal", "oldPVC"}
After == [oldStatefulSet |-> "oldService", oldService |-> "oldExternal",
          oldExternal |-> "oldPVC", oldPVC |-> "service"]
DeleteOf == [oldStatefulSet |-> "deleteStatefulSet", oldService |-> "deleteService",
             oldExternal |-> "deleteExternal", oldPVC |-> "deletePVC"]

\* An informer delivers the changes of all objects of its kind.
Kinds == [Service |-> {"service", "external", "oldService", "oldExternal"},
          StatefulSet |-> {"statefulSet", "oldStatefulSet"},
          Secret |-> {"secret"}, PVC |-> {"oldPVC"}]

NoCopy == [version |-> [minor |-> "", patch |-> 0], expose |-> FALSE, notes |-> "",
           size |-> "", store |-> ""]

NotBuilt == [service |-> NoService, external |-> NoExternal, statefulSet |-> NoStatefulSet]
Beside(l) == [f \in DOMAIN NotBuilt \union DOMAIN l |-> IF f \in DOMAIN l THEN l[f] ELSE NotBuilt[f]]

ASSUME ControlPlaneAssumption ==
  /\ "" \notin Addresses /\ Addresses # {}
  /\ Specs \subseteq Stored
  /\ \A s \in Specs : s.store = "sqlite" /\ s.size # "bad" /\ s.version.minor \in k3sImages
  /\ \A l \in Layouts : /\ DOMAIN l = Legacy \union {"secret"}
                        /\ l.secret \in {NoSecret, OldSecret}
                        /\ \A f \in Legacy : l[f] \in {"none", "ours", "stranger"}
  /\ Lagging \subseteq DOMAIN Kinds /\ MaxOps \in Nat /\ MaxFaults \in Nat

Init ==
  /\ spec \in Stored
  /\ host \in {Beside(l) : l \in Layouts}
  /\ seen = host
  /\ status = [phase |-> "", endpoint |-> FALSE, external |-> "", version |-> FALSE]
  /\ pc = "idle" /\ copy = NoCopy /\ moved = FALSE /\ external = ""
  /\ ops = MaxOps /\ faults = MaxFaults
-----------------------------------------------------------------------------
(* controlplane.go and kubeconfig.go *)

defaultK3sImage == "default"

\* The patch is ignored.
KnownVersion(v) == v.minor \in k3sImages

k3sImageForVersion(v) == IF KnownVersion(v) THEN v.minor ELSE defaultK3sImage

\* buildStatefulSet fails on a quantity that does not parse.
BuildFails(s) == s.size = "bad"

\* The StatefulSet, new or as reconcileStatefulSet updates it: the volume claim
\* template of an existing one is immutable and left alone.
buildStatefulSet(s, old) ==
  IF old.there
  THEN [old EXCEPT !.image = k3sImageForVersion(s.version)]
  ELSE [there |-> TRUE, image |-> k3sImageForVersion(s.version), size |-> s.size,
        runs |-> "", ready |-> FALSE]

buildHeadlessService == "ours"

\* The LoadBalancer Service; an update leaves its status.
buildExternalService(s, old) == [there |-> TRUE, notes |-> s.notes, addr |-> old.addr]

FQDN == "fqdn"     \* controlPlaneServiceFQDN

\* What cat /etc/rancher/k3s/k3s.yaml prints in the pod.
RawKubeconfig == Kubeconfig("127.0.0.1", "k3s")

\* Mutant: the address of the pod's own loopback is kept.
rewriteKubeconfigServer_Kept(raw, fqdn) == raw

rewriteKubeconfigServer(raw, fqdn) == Kubeconfig(fqdn, raw.user)

\* Mutant: any Secret will do.
KeepSecret_Any(s) == s # NoSecret

\* An existing Secret is kept if it names the current address.
KeepSecret(s) == s.server = FQDN
-----------------------------------------------------------------------------
(***************************************************************************)
(* Reconcile                                                               *)
(***************************************************************************)
Read(f) == IF \E k \in Lagging : f \in Kinds[k] THEN seen[f] ELSE host[f]
Refreshed(ks) ==
  [f \in DOMAIN host |-> IF \E k \in ks : f \in Kinds[k] THEN host[f] ELSE seen[f]]
Fault == faults > 0 /\ faults' = faults - 1

Go(step) == pc' = step
Return == pc' = "idle" /\ copy' = NoCopy /\ moved' = FALSE /\ external' = ""

\* A Create or an Update of object f; refused, it degrades the tenant.
Put(f, new, next) ==
  IF Read(f) = host[f]
  THEN host' = [host EXCEPT ![f] = new] /\ Go(next)
  ELSE UNCHANGED host /\ Go("degrade")

\* Get(TenantCluster), the conditions, and the datastore check; the isolation
\* half of Reconcile follows.
Begin ==
  /\ pc = "idle"
  /\ copy' = spec /\ moved' = FALSE
  /\ Go(IF spec.store = "sqlite" THEN "oldStatefulSet" ELSE "degrade")
  /\ UNCHANGED <<spec, host, seen, status, external, ops, faults>>

\* Mutant: whatever has the name is removed.
isLegacy_Name(x) == x # "none"

\* The labels of a control-plane object of this tenant.
isLegacy(x) == x = "ours"

\* cleanupLegacyControlPlane, one object after the other: the Get and what is made of
\* its answer; the volume claim is not asked for its labels.
CleanupLegacy(f) ==
  LET x == Read(f)
      removes == IF f = "oldPVC" THEN x # "none" ELSE isLegacy(x)
  IN  /\ pc = f
      /\ Go(IF removes THEN DeleteOf[f] ELSE After[f])
      /\ UNCHANGED <<spec, host, seen, status, workVars, ops, faults>>

\* The Delete goes by name, and nothing to delete is fine.
DeleteLegacy(f) ==
  /\ pc = DeleteOf[f]
  /\ host' = [host EXCEPT ![f] = "none"]
  /\ Go(After[f])
  /\ UNCHANGED <<spec, seen, status, workVars, ops, faults>>

\* reconcileService for the headless Service
ReconcileService ==
  /\ pc = "service"
  /\ Put("service", buildHeadlessService, "external")
  /\ UNCHANGED <<spec, seen, status, workVars, ops, faults>>

\* Mutant: exposure once granted is never withdrawn.
Unexpose_Never == Go("statefulSet") /\ UNCHANGED host

\* Exposure disabled: an existing Service is deleted, and one that is already
\* gone is an error.
Unexpose ==
  \/ ~Read("external").there /\ Go("statefulSet") /\ UNCHANGED host
  \/ /\ Read("external").there
     /\ host' = [host EXCEPT !.external = NoExternal]
     /\ Go(IF host.external.there THEN "statefulSet" ELSE "degrade")

ReconcileExternalService ==
  /\ pc = "external"
  /\ IF copy.expose
     THEN Put("external", buildExternalService(copy, Read("external")), "statefulSet")
     ELSE Unexpose
  /\ UNCHANGED <<spec, seen, status, workVars, ops, faults>>

\* The answer to the write tells whether the pod is ready.
ReconcileStatefulSet ==
  LET desired == buildStatefulSet(copy, Read("statefulSet"))
  IN  /\ pc = "statefulSet"
      /\ IF BuildFails(copy)
         THEN Go("degrade") /\ UNCHANGED host
         ELSE Put("statefulSet", desired, IF desired.ready THEN "secret" ELSE "provisioning")
      /\ UNCHANGED <<spec, seen, status, workVars, ops, faults>>

\* The kubeconfig is read in the pod, which must be running, unless the Secret
\* already names the control plane's address.
EnsureKubeconfigSecret ==
  /\ pc = "secret"
  /\ \/ KeepSecret(Read("secret")) /\ Go("endpoint") /\ UNCHANGED host
     \/ /\ ~KeepSecret(Read("secret")) /\ host.statefulSet.ready
        /\ Put("secret", rewriteKubeconfigServer(RawKubeconfig, FQDN), "endpoint")
     \/ /\ ~KeepSecret(Read("secret")) /\ ~host.statefulSet.ready
        /\ Go("degrade") /\ UNCHANGED host
  /\ UNCHANGED <<spec, seen, status, workVars, ops, faults>>

\* externalEndpoint, read before runSync and written after it.
PublishEndpoint ==
  /\ pc = "endpoint"
  /\ external' = IF copy.expose THEN Read("external").addr ELSE ""
  /\ Go("report")
  /\ UNCHANGED <<spec, host, seen, status, copy, moved, ops, faults>>

\* Status().Update, refused when the TenantCluster changed since it was read.
Report(step, new) ==
  /\ pc = step
  /\ status' = IF moved THEN status ELSE [new EXCEPT !.version = KnownVersion(copy.version)]
  /\ Return
  /\ UNCHANGED <<spec, host, seen, ops, faults>>

\* Mutant: the endpoint is added when there is one.
ReportReady_Keeps ==
  Report("report", [status EXCEPT !.phase = "Ready", !.endpoint = TRUE,
                                  !.external = IF external = "" THEN @ ELSE external])

ReportReady ==
  Report("report", [status EXCEPT !.phase = "Ready", !.endpoint = TRUE, !.external = external])

ReportProvisioning == Report("provisioning", [status EXCEPT !.phase = "Provisioning"])

degrade == Report("degrade", [status EXCEPT !.phase = "Degraded"])

\* The call about to be made fails.
CallFails ==
  /\ pc # "idle" /\ Fault
  /\ IF pc \in {"endpoint", "report", "provisioning", "degrade"}
     THEN Return
     ELSE Go("degrade") /\ UNCHANGED workVars
  /\ UNCHANGED <<spec, host, seen, status, ops>>

\* The manager stops, and starts again with fresh informers.
Restart ==
  /\ pc # "idle" /\ Fault
  /\ Return /\ seen' = Refreshed(Lagging)
  /\ UNCHANGED <<spec, host, status, ops>>
-----------------------------------------------------------------------------
(***************************************************************************)
(* Kubernetes and the cloud (external)                                     *)
(***************************************************************************)
See(k) ==
  /\ \E f \in Kinds[k] : seen[f] # host[f]
  /\ seen' = Refreshed({k})
  /\ UNCHANGED <<spec, host, status, pc, workVars, ops, faults>>

Outside == UNCHANGED <<seen, status, pc, copy, external>>

SetPod(runs, ready) == host' = [host EXCEPT !.statefulSet.runs = runs, !.statefulSet.ready = ready]

\* The StatefulSet controller replaces the pod when the template changes.
PodRolls ==
  /\ host.statefulSet.there /\ host.statefulSet.runs # host.statefulSet.image
  /\ SetPod(host.statefulSet.image, FALSE)
  /\ Outside /\ UNCHANGED <<spec, moved, ops, faults>>

PodStarts ==
  /\ host.statefulSet.there /\ ~host.statefulSet.ready
  /\ host.statefulSet.runs = host.statefulSet.image
  /\ SetPod(host.statefulSet.runs, TRUE)
  /\ Outside /\ UNCHANGED <<spec, moved, ops, faults>>

PodDies ==
  /\ host.statefulSet.ready /\ Fault
  /\ SetPod(host.statefulSet.runs, FALSE)
  /\ Outside /\ UNCHANGED <<spec, moved, ops>>

LoadBalancerProvisioned(a) ==
  /\ host.external.there /\ host.external.addr = ""
  /\ host' = [host EXCEPT !.external.addr = a]
  /\ Outside /\ UNCHANGED <<spec, moved, ops, faults>>

Op(o) == o \in EnvOps /\ ops > 0 /\ ops' = ops - 1 /\ Outside /\ UNCHANGED faults

EditSpec(s) ==
  /\ Op("spec") /\ s # spec
  /\ spec' = s /\ moved' = (pc # "idle")
  /\ UNCHANGED host

\* Somebody edits or removes what the controller made.
Drift ==
  /\ Op("drift")
  /\ host' \in {[host EXCEPT !.service = NoService], [host EXCEPT !.external = NoExternal],
                [host EXCEPT !.secret = NoSecret], [host EXCEPT !.statefulSet = NoStatefulSet]}
                \union {[host EXCEPT !.service = IF @ = NoService THEN @ ELSE "edited"]}
  /\ host' # host
  /\ UNCHANGED <<spec, moved>>

\* A user gives an object of their own a free name of the old layout.
TakeName(f) ==
  /\ Op("takeName")
  /\ host[f] = "none" /\ host' = [host EXCEPT ![f] = "stranger"]
  /\ UNCHANGED <<spec, moved>>
-----------------------------------------------------------------------------
Controller ==
  \/ Begin \/ \E f \in Legacy : CleanupLegacy(f) \/ DeleteLegacy(f)
  \/ ReconcileService \/ ReconcileExternalService \/ ReconcileStatefulSet
  \/ EnsureKubeconfigSecret \/ PublishEndpoint
  \/ ReportReady \/ ReportProvisioning \/ degrade

Environment ==
  \/ \E s \in Specs : EditSpec(s)
  \/ Drift
  \/ \E f \in Legacy : TakeName(f)

Next ==
  \/ Controller \/ CallFails \/ Restart
  \/ \E k \in Lagging : See(k)
  \/ PodRolls \/ PodStarts \/ PodDies \/ \E a \in Addresses : LoadBalancerProvisioned(a)
  \/ Environment

\* Every outcome of Reconcile asks for another one; informers, the StatefulSet
\* controller and the cloud do their part.
Fairness ==
  /\ WF_vars(Controller)
  /\ \A k \in Lagging : WF_vars(See(k))
  /\ WF_vars(PodRolls) /\ WF_vars(PodStarts)
  /\ WF_vars(\E a \in Addresses : LoadBalancerProvisioned(a))

Spec == Init /\ [][Next]_vars /\ Fairness
-----------------------------------------------------------------------------
Images == k3sImages \union {defaultK3sImage}
TypeOK ==
  /\ spec \in Stored /\ copy \in Stored \union {NoCopy}
  /\ \A h \in {host, seen} :
       /\ h.service \in {NoService, "ours", "edited"}
       /\ h.external.there \in BOOLEAN /\ h.external.addr \in Addresses \union {""}
       /\ h.statefulSet.image \in Images \union {""} /\ h.statefulSet.ready \in BOOLEAN
       /\ h.secret \in {NoSecret, OldSecret, Kubeconfig(FQDN, "k3s")}
       /\ \A f \in Legacy : h[f] \in {"none", "ours", "stranger"}
  /\ status.phase \in {"", "Provisioning", "Ready", "Degraded"}
  /\ status.external \in Addresses \union {""}

\* Nothing in the specification keeps a reconcile from succeeding.
Sound == spec.store = "sqlite" /\ ~BuildFails(spec)

\* In the end the control plane is the one the TenantCluster asks for, however its
\* specification and the objects changed during reconciles that worked from old
\* copies: the headless Service stands, the LoadBalancer Service exists if and only
\* if exposure is asked for and with the annotations asked for, the pod runs the
\* image of the version asked for and is ready (reconcileService,
\* reconcileExternalService, reconcileStatefulSet).
ControlPlaneConverges ==
  <>[](Sound => /\ host.service = "ours"
                /\ host.external.there = spec.expose
                /\ spec.expose => host.external.notes = spec.notes
                /\ host.statefulSet.ready
                /\ host.statefulSet.runs = k3sImageForVersion(spec.version))

\* In the end the status tells the truth: the phase, the address of the load
\* balancer that exists now and no other, whether the version asked for has an image
\* (Reconcile, externalEndpoint, setKubernetesVersionCondition).
StatusConverges ==
  <>[](/\ status.version = (spec.version.minor \in k3sImages)
       /\ status.phase = IF Sound THEN "Ready" ELSE "Degraded"
       /\ Sound => status.endpoint /\ status.external = host.external.addr)

\* A tenant that migrates from the old layout is served by the new one in the end:
\* its old objects are gone and its kubeconfig names the new control plane
\* (cleanupLegacyControlPlane, ensureKubeconfigSecret).
MigrationCompletes ==
  <>[](Sound => /\ host.secret = Kubeconfig(FQDN, "k3s")
                /\ \A f \in Legacy : host[f] # "ours")

\* f is somebody else's, the informer does not show tenantplane's in its place any
\* more, and no Delete of it is under way that was decided when it did.
KnownStranger(f) == host[f] = "stranger" /\ Read(f) # "ours" /\ pc # DeleteOf[f]

\* "Only objects carrying tenantplane's control-plane labels for this tenant are
\* touched" (cleanupLegacyControlPlane), as far as a label check on the informer's
\* copy and a Delete by name can keep it: from the moment the informer has lost sight
\* of tenantplane's own object and no Delete of it is left, whoever has a name of the
\* old layout keeps it for ever, through every later reconcile, failure and restart.
StrangersStay ==
  \A f \in Legacy \ {"oldPVC"} : [](KnownStranger(f) => [](host[f] = "stranger"))

\* The controller removes f although it is somebody else's.
RemovesStranger(f) == host[f] = "stranger" /\ host'[f] = "none"

\* The same without the excuse of the informer and of the Delete under way.
StrangersKept == [][\A f \in Legacy \ {"oldPVC"} : ~RemovesStranger(f)]_vars

\* The same of the volume claim.
VolumesKept == [][~RemovesStranger("oldPVC")]_vars
=============================================================================
