------------------------- MODULE ControlPlaneProofs -------------------------
(***************************************************************************)
(* Proofs about ControlPlane, for any specifications, layouts, addresses   *)
(* and lagging informers, and any number of edits and faults.              *)
(***************************************************************************)
EXTENDS ControlPlane, TLAPS

-----------------------------------------------------------------------------
(***************************************************************************)
(* The invariant: what TypeOK says of the fields of an object, of all of   *)
(* them, and of the memory of the reconcile.                               *)
(***************************************************************************)
Fields == {"service", "external", "statefulSet", "secret"} \union Legacy

OfAddress == Addresses \union {""}
Services == {NoService, "ours", "edited"}
Notes == {s.notes : s \in Stored} \union {""}
Sizes == {s.size : s \in Stored} \union {""}
Secrets == {NoSecret, OldSecret, Kubeconfig(FQDN, "k3s")}
Found == {"none", "ours", "stranger"}
Externals == [there : BOOLEAN, notes : Notes, addr : OfAddress]
StatefulSets == [there : BOOLEAN, image : Images \union {""}, size : Sizes,
                 runs : Images \union {""}, ready : BOOLEAN]

Values == [f \in Fields |->
             CASE f = "service" -> Services [] f = "external" -> Externals
               [] f = "statefulSet" -> StatefulSets [] f = "secret" -> Secrets
               [] OTHER -> Found]

\* The objects, as the API server or the informers show them.
Objects(h) == h = [f \in Fields |-> h[f]] /\ \A f \in Fields : h[f] \in Values[f]

Statuses == [phase : {"", "Provisioning", "Ready", "Degraded"}, endpoint : BOOLEAN,
             external : OfAddress, version : BOOLEAN]

PlaneInv ==
  /\ spec \in Stored /\ copy \in Stored \union {NoCopy}
  /\ Objects(host) /\ Objects(seen)
  /\ status \in Statuses /\ external \in OfAddress

\* What the objects of each field are.
LEMMA ValuesOf ==
  /\ Values["service"] = Services /\ Values["external"] = Externals
  /\ Values["statefulSet"] = StatefulSets /\ Values["secret"] = Secrets
  /\ \A f \in Legacy : f \in Fields /\ Values[f] = Found
  /\ {"service", "external", "statefulSet", "secret"} \subseteq Fields
  /\ \A f \in Legacy : f \notin {"service", "external", "statefulSet", "secret"}
BY DEF Values, Fields, Legacy

\* A copy that is new in some fields and old in the others.
LEMMA MixedCopy ==
  ASSUME NEW h, Objects(h), NEW o, Objects(o), NEW N
  PROVE  Objects([f \in DOMAIN h |-> IF f \in N THEN h[f] ELSE o[f]])
<1>1. DOMAIN h = Fields
  BY DEF Objects
<1> QED
  BY <1>1 DEF Objects

\* What a Get returns is an object of its kind.
LEMMA ReadIsObject ==
  ASSUME PlaneInv, NEW f \in Fields
  PROVE  Read(f) \in Values[f] /\ host[f] \in Values[f]
BY DEF PlaneInv, Objects, Read

\* Nothing of tenantplane's stands in the new places at first.
LEMMA PlaneInvInit == Init => PlaneInv
<1> SUFFICES ASSUME Init PROVE PlaneInv
  OBVIOUS
<1>1. PICK l \in Layouts : host = Beside(l)
  BY DEF Init
<1>2. /\ DOMAIN l = Legacy \union {"secret"} /\ l["secret"] \in Secrets
      /\ \A f \in Legacy : l[f] \in Found
  BY ControlPlaneAssumption DEF Secrets, Found
<1>3. /\ DOMAIN NotBuilt = {"service", "external", "statefulSet"}
      /\ NotBuilt["service"] = NoService /\ NotBuilt["external"] = NoExternal
      /\ NotBuilt["statefulSet"] = NoStatefulSet
  BY DEF NotBuilt
<1>4. host = [f \in Fields |-> IF f \in DOMAIN l THEN l[f] ELSE NotBuilt[f]]
  <2>1. DOMAIN NotBuilt \union DOMAIN l = Fields
    BY <1>2, <1>3 DEF Fields
  <2> QED
    BY <1>1, <2>1 DEF Beside
<1>5. NoExternal \in Externals
  BY DEF NoExternal, Externals, Notes, OfAddress
<1>6. NoStatefulSet \in StatefulSets
  BY DEF NoStatefulSet, StatefulSets, Sizes
<1>7. \A f \in Fields : host[f] \in Values[f]
  <2>1. host["service"] = NoService /\ host["external"] = NoExternal /\ host["statefulSet"] = NoStatefulSet
    BY <1>2, <1>3, <1>4 DEF Fields, Legacy
  <2>2. host["secret"] = l["secret"] /\ \A f \in Legacy : host[f] = l[f]
    BY <1>2, <1>4 DEF Fields
  <2>3. NoService \in Services
    BY DEF Services
  <2> QED
    BY <1>2, <1>5, <1>6, <2>1, <2>2, <2>3, ValuesOf DEF Fields
<1>8. Objects(host) /\ Objects(seen)
  BY <1>4, <1>7 DEF Objects, Init
<1>9. status \in Statuses /\ external \in OfAddress
  BY DEF Init, Statuses, OfAddress
<1> QED
  BY <1>8, <1>9 DEF Init, PlaneInv

-----------------------------------------------------------------------------
(***************************************************************************)
(* What each step does to the objects                                      *)
(***************************************************************************)

\* An object of the old layout goes to "none", by the Delete of its name, or a free
\* name is taken; no other step touches it.
OldTouched(f) ==
  \/ host'[f] = host[f]
  \/ host'[f] = "none" /\ pc = DeleteOf[f]
  \/ host[f] = "none" /\ host'[f] = "stranger"

\* The step leaves objects, and what was said of the old ones.
Lawful == Objects(host') /\ \A f \in Legacy : OldTouched(f)

\* A write of one of the new objects.
LEMMA LawfulWrite ==
  ASSUME PlaneInv, NEW f \in {"service", "external", "statefulSet", "secret"},
         NEW v \in Values[f], host' = [host EXCEPT ![f] = v]
  PROVE  Lawful
<1>1. f \in Fields /\ Objects(host)
  BY ValuesOf DEF PlaneInv
<1>2. Objects(host') /\ \A g \in Fields \ {f} : host'[g] = host[g]
  BY <1>1 DEF Objects
<1>3. \A g \in Legacy : g \in Fields \ {f}
  BY ValuesOf
<1> QED
  BY <1>2, <1>3 DEF Lawful, OldTouched

\* Nothing is written.
LEMMA LawfulRest ==
  ASSUME PlaneInv, UNCHANGED host
  PROVE  Lawful
BY DEF PlaneInv, Lawful, OldTouched

\* A Create or Update, refused or not.
LEMMA LawfulPut ==
  ASSUME PlaneInv, NEW f \in {"service", "external", "statefulSet", "secret"},
         NEW v \in Values[f], NEW next, Put(f, v, next)
  PROVE  Lawful
<1>1. CASE host' = [host EXCEPT ![f] = v]
  BY <1>1, LawfulWrite
<1>2. CASE UNCHANGED host
  BY <1>2, LawfulRest
<1> QED
  BY <1>1, <1>2 DEF Put

\* cleanupLegacyControlPlane
LEMMA LawfulDelete ==
  ASSUME PlaneInv, NEW f \in Legacy, DeleteLegacy(f)
  PROVE  Lawful
<1>1. f \in Fields /\ "none" \in Values[f] /\ Objects(host)
  BY ValuesOf DEF Found, PlaneInv
<1>2. host' = [host EXCEPT ![f] = "none"] /\ pc = DeleteOf[f]
  BY DEF DeleteLegacy
<1>3. Objects(host') /\ host'[f] = "none" /\ \A g \in Fields \ {f} : host'[g] = host[g]
  BY <1>1, <1>2 DEF Objects
<1> QED
  BY <1>2, <1>3, ValuesOf DEF Lawful, OldTouched

\* The three objects the builders make, and the kubeconfig.
LEMMA BuildersMakeObjects ==
  ASSUME PlaneInv
  PROVE  /\ buildHeadlessService \in Services
         /\ buildExternalService(copy, Read("external")) \in Externals
         /\ buildStatefulSet(copy, Read("statefulSet")) \in StatefulSets
         /\ rewriteKubeconfigServer(RawKubeconfig, FQDN) \in Secrets
<1>1. Read("external") \in Externals /\ Read("statefulSet") \in StatefulSets
  BY ReadIsObject, ValuesOf
<1>2. buildHeadlessService \in Services
  BY DEF buildHeadlessService, Services
<1>3. copy.notes \in Notes /\ copy.size \in Sizes
  <2>1. CASE copy \in Stored
    BY <2>1 DEF Notes, Sizes
  <2>2. CASE copy = NoCopy
    BY <2>2 DEF NoCopy, Notes, Sizes
  <2> QED
    BY <2>1, <2>2 DEF PlaneInv
<1>4. k3sImageForVersion(copy.version) \in Images \union {""}
  BY DEF k3sImageForVersion, KnownVersion, Images
<1>5. buildExternalService(copy, Read("external")) \in Externals
  BY <1>1, <1>3 DEF buildExternalService, Externals
<1>6. buildStatefulSet(copy, Read("statefulSet")) \in StatefulSets
  <2> DEFINE old == Read("statefulSet")
             image == k3sImageForVersion(copy.version)
  <2>1. old \in StatefulSets /\ image \in Images \union {""}
    BY <1>1, <1>4
  <2>2. buildStatefulSet(copy, old)
        = IF old.there THEN [old EXCEPT !.image = image]
          ELSE [there |-> TRUE, image |-> image, size |-> copy.size, runs |-> "", ready |-> FALSE]
    BY DEF buildStatefulSet
  <2> HIDE DEF old, image
  <2>3. [old EXCEPT !.image = image] \in StatefulSets
    BY <2>1 DEF StatefulSets
  <2>4. [there |-> TRUE, image |-> image, size |-> copy.size, runs |-> "", ready |-> FALSE]
        \in StatefulSets
    BY <1>3, <2>1 DEF StatefulSets
  <2> QED
    BY <2>2, <2>3, <2>4 DEF old
<1>7. rewriteKubeconfigServer(RawKubeconfig, FQDN) \in Secrets
  BY DEF rewriteKubeconfigServer, RawKubeconfig, Kubeconfig, Secrets
<1> QED
  BY <1>2, <1>5, <1>6, <1>7

\* The rest of the controller's writes.
LEMMA LawfulController ==
  ASSUME PlaneInv, Controller
  PROVE  Lawful
<1>0. /\ NoExternal \in Values["external"]
      /\ Values["service"] = Services /\ Values["external"] = Externals
      /\ Values["statefulSet"] = StatefulSets /\ Values["secret"] = Secrets
  BY ValuesOf DEF NoExternal, Externals, Notes, OfAddress
<1>1. CASE \E f \in Legacy : CleanupLegacy(f) \/ DeleteLegacy(f)
  BY <1>1, LawfulDelete, LawfulRest DEF CleanupLegacy
<1>2. CASE ReconcileService
  BY <1>0, <1>2, BuildersMakeObjects, LawfulPut DEF ReconcileService
<1>3. CASE ReconcileExternalService
  <2>1. CASE Put("external", buildExternalService(copy, Read("external")), "statefulSet")
    BY <1>0, <2>1, BuildersMakeObjects, LawfulPut
  <2>2. CASE Unexpose
    <3>1. CASE UNCHANGED host
      BY <3>1, LawfulRest
    <3>2. CASE host' = [host EXCEPT !["external"] = NoExternal]
      BY <1>0, <3>2, LawfulWrite
    <3> QED
      BY <2>2, <3>1, <3>2 DEF Unexpose
  <2> QED
    BY <1>3, <2>1, <2>2 DEF ReconcileExternalService
<1>4. CASE ReconcileStatefulSet
  <2> DEFINE desired == buildStatefulSet(copy, Read("statefulSet"))
  <2>1. CASE UNCHANGED host
    BY <2>1, LawfulRest
  <2>2. CASE \E next : Put("statefulSet", desired, next)
    BY <1>0, <2>2, BuildersMakeObjects, LawfulPut
  <2> QED
    BY <1>4, <2>1, <2>2 DEF ReconcileStatefulSet
<1>5. CASE EnsureKubeconfigSecret
  <2>1. CASE UNCHANGED host
    BY <2>1, LawfulRest
  <2>2. CASE Put("secret", rewriteKubeconfigServer(RawKubeconfig, FQDN), "endpoint")
    BY <1>0, <2>2, BuildersMakeObjects, LawfulPut
  <2> QED
    BY <1>5, <2>1, <2>2 DEF EnsureKubeconfigSecret
<1>6. CASE UNCHANGED host
  BY <1>6, LawfulRest
<1> QED
  BY <1>1, <1>2, <1>3, <1>4, <1>5, <1>6
     DEF Controller, Begin, PublishEndpoint, ReportReady, ReportProvisioning, degrade, Report

\* The pod starts, is replaced or dies.
LEMMA LawfulPod ==
  ASSUME PlaneInv, NEW runs \in Images \union {""}, NEW ready \in BOOLEAN, SetPod(runs, ready)
  PROVE  Lawful
<1> DEFINE v == [host["statefulSet"] EXCEPT !.runs = runs, !.ready = ready]
<1>1. host["statefulSet"] \in StatefulSets
  BY ReadIsObject, ValuesOf
<1>2. v \in StatefulSets
  BY <1>1 DEF StatefulSets
<1>3. host' = [host EXCEPT !["statefulSet"] = v]
  BY <1>1 DEF SetPod, PlaneInv, Objects, StatefulSets
<1> HIDE DEF v
<1>4. v \in Values["statefulSet"]
  BY <1>2, ValuesOf
<1> QED
  BY <1>3, <1>4, LawfulWrite

\* Kubernetes, the cloud and the users.
LEMMA LawfulOutside ==
  ASSUME PlaneInv,
         \/ PodRolls \/ PodStarts \/ PodDies \/ \E a \in Addresses : LoadBalancerProvisioned(a)
         \/ Environment
  PROVE  Lawful
<1>0. host["statefulSet"] \in StatefulSets /\ host["external"] \in Externals /\ host["service"] \in Services
  BY ReadIsObject, ValuesOf
<1>1. CASE PodRolls
  <2>1. host.statefulSet.image \in Images \union {""} /\ SetPod(host.statefulSet.image, FALSE)
    BY <1>0, <1>1 DEF PodRolls, StatefulSets
  <2> QED
    BY <2>1, LawfulPod
<1>2. CASE PodStarts \/ PodDies
  <2>1. /\ host.statefulSet.runs \in Images \union {""}
        /\ SetPod(host.statefulSet.runs, TRUE) \/ SetPod(host.statefulSet.runs, FALSE)
    BY <1>0, <1>2 DEF PodStarts, PodDies, StatefulSets
  <2> QED
    BY <2>1, LawfulPod
<1>3. CASE \E a \in Addresses : LoadBalancerProvisioned(a)
  <2>1. PICK a \in Addresses : LoadBalancerProvisioned(a)
    BY <1>3
  <2> DEFINE v == [host["external"] EXCEPT !.addr = a]
  <2>2. v \in Externals
    BY <1>0 DEF Externals, OfAddress
  <2>3. host' = [host EXCEPT !["external"] = v]
    BY <1>0, <2>1 DEF LoadBalancerProvisioned, PlaneInv, Objects
  <2> HIDE DEF v
  <2>4. v \in Values["external"]
    BY <2>2, ValuesOf
  <2> QED
    BY <2>3, <2>4, LawfulWrite
<1>4. CASE Drift
  <2>1. /\ NoService \in Values["service"] /\ "edited" \in Values["service"]
        /\ host["service"] \in Values["service"]
        /\ NoExternal \in Values["external"] /\ NoSecret \in Values["secret"]
        /\ NoStatefulSet \in Values["statefulSet"]
    <3>1. NoExternal \in Externals
      BY DEF NoExternal, Externals, Notes, OfAddress
    <3>2. NoStatefulSet \in StatefulSets
      BY DEF NoStatefulSet, StatefulSets, Sizes
    <3> QED
      BY <1>0, <3>1, <3>2, ValuesOf DEF Services, Secrets
  <2>2. CASE host' = [host EXCEPT !["service"] = NoService]
    BY <2>1, <2>2, LawfulWrite
  <2>3. CASE host' = [host EXCEPT !["external"] = NoExternal]
    BY <2>1, <2>3, LawfulWrite
  <2>4. CASE host' = [host EXCEPT !["secret"] = NoSecret]
    BY <2>1, <2>4, LawfulWrite
  <2>5. CASE host' = [host EXCEPT !["statefulSet"] = NoStatefulSet]
    BY <2>1, <2>5, LawfulWrite
  <2>6. CASE host' = [host EXCEPT !["service"] =
                        IF host["service"] = NoService THEN host["service"] ELSE "edited"]
    <3> DEFINE v == IF host["service"] = NoService THEN host["service"] ELSE "edited"
    <3>1. v \in Values["service"]
      BY <2>1
    <3> HIDE DEF v
    <3>2. host' = [host EXCEPT !["service"] = v]
      BY <2>6 DEF v
    <3> QED
      BY <3>1, <3>2, LawfulWrite
  <2> QED
    BY <1>4, <2>2, <2>3, <2>4, <2>5, <2>6 DEF Drift
<1>5. CASE \E f \in Legacy : TakeName(f)
  <2>1. PICK f \in Legacy : TakeName(f)
    BY <1>5
  <2>2. f \in Fields /\ "stranger" \in Values[f] /\ Objects(host)
    BY ValuesOf DEF Found, PlaneInv
  <2>3. host[f] = "none" /\ host' = [host EXCEPT ![f] = "stranger"]
    BY <2>1 DEF TakeName
  <2>4. Objects(host') /\ host'[f] = "stranger" /\ \A g \in Fields \ {f} : host'[g] = host[g]
    BY <2>2, <2>3 DEF Objects
  <2> QED
    BY <2>3, <2>4, ValuesOf DEF Lawful, OldTouched
<1>6. CASE \E s \in Specs : EditSpec(s)
  BY <1>6, LawfulRest DEF EditSpec
<1> QED
  BY <1>1, <1>2, <1>3, <1>4, <1>5, <1>6 DEF Environment

\* Every step is lawful.
LEMMA LawfulNext ==
  ASSUME PlaneInv, [Next]_vars
  PROVE  Lawful
<1>1. CASE UNCHANGED host
  BY <1>1, LawfulRest
<1> QED
  BY <1>1, LawfulController, LawfulOutside DEF Next, CallFails, Restart, See, vars

\* An informer delivers, or nothing does.
LEMMA CopiesAreRefreshed ==
  ASSUME [Next]_vars
  PROVE  seen' = seen \/ \E ks : seen' = Refreshed(ks)
  <1>1. CASE Controller
    BY <1>1 DEF Controller, Begin, CleanupLegacy, DeleteLegacy, ReconcileService, ReconcileExternalService,
       ReconcileStatefulSet, EnsureKubeconfigSecret, PublishEndpoint, ReportReady,
       ReportProvisioning, degrade, Report
  <1>2. CASE CallFails \/ PodRolls \/ PodStarts \/ PodDies \/ \E a \in Addresses : LoadBalancerProvisioned(a)
    BY <1>2 DEF CallFails, PodRolls, PodStarts, PodDies, LoadBalancerProvisioned, Outside
  <1>3. CASE Environment
    BY <1>3 DEF Environment, EditSpec, Drift, TakeName, Op, Outside
  <1>4. CASE Restart \/ \E k \in Lagging : See(k)
    BY <1>4 DEF Restart, See
  <1> QED
    BY <1>1, <1>2, <1>3, <1>4 DEF Next, vars

\* The informers' copies are made of old and new objects.
LEMMA CopiesAreObjects ==
  ASSUME PlaneInv, [Next]_vars
  PROVE  Objects(seen')
<1>1. ASSUME NEW ks PROVE Objects(Refreshed(ks))
  <2> DEFINE N == {f \in Fields : \E k \in ks : f \in Kinds[k]}
  <2>1. DOMAIN host = Fields /\ Objects(host) /\ Objects(seen)
    BY DEF PlaneInv, Objects
  <2>2. Refreshed(ks) = [f \in DOMAIN host |-> IF f \in N THEN host[f] ELSE seen[f]]
    BY <2>1 DEF Refreshed
  <2> HIDE DEF N
  <2>3. Objects([f \in DOMAIN host |-> IF f \in N THEN host[f] ELSE seen[f]])
    BY <2>1, MixedCopy
  <2> QED
    BY <2>2, <2>3
<1> QED
  BY <1>1, CopiesAreRefreshed DEF PlaneInv

\* The rest of the invariant.
LEMMA PlaneInvStep == PlaneInv /\ [Next]_vars => PlaneInv'
<1> SUFFICES ASSUME PlaneInv, [Next]_vars PROVE PlaneInv'
  OBVIOUS
<1>1. Objects(host') /\ Objects(seen')
  BY LawfulNext, CopiesAreObjects DEF Lawful
<1>2. spec' \in Stored
  <2>1. CASE \E s \in Specs : EditSpec(s)
    BY <2>1, ControlPlaneAssumption DEF EditSpec
  <2>2. CASE UNCHANGED spec
    BY <2>2 DEF PlaneInv
  <2>3. Controller => UNCHANGED spec
    BY DEF Controller, Begin, CleanupLegacy, DeleteLegacy, ReconcileService, ReconcileExternalService,
       ReconcileStatefulSet, EnsureKubeconfigSecret, PublishEndpoint, ReportReady,
       ReportProvisioning, degrade, Report
  <2> QED
    BY <2>1, <2>2, <2>3 DEF Next, Environment, CallFails, Restart, See, PodRolls, PodStarts,
       PodDies, LoadBalancerProvisioned, Drift, TakeName, vars
<1>3. copy' \in Stored \union {NoCopy}
  <2>1. copy' \in {copy, spec, NoCopy}
    <3>1. CASE Controller
      BY <3>1 DEF Controller, Begin, CleanupLegacy, DeleteLegacy, ReconcileService, ReconcileExternalService,
         ReconcileStatefulSet, EnsureKubeconfigSecret, PublishEndpoint, ReportReady,
         ReportProvisioning, degrade, Report, Return, workVars
    <3>2. CASE CallFails \/ Restart \/ \E k \in Lagging : See(k)
      BY <3>2 DEF CallFails, Restart, See, Return, workVars
    <3>3. CASE \/ PodRolls \/ PodStarts \/ PodDies \/ \E a \in Addresses : LoadBalancerProvisioned(a)
               \/ Environment
      BY <3>3 DEF PodRolls, PodStarts, PodDies, LoadBalancerProvisioned, Environment, EditSpec,
         Drift, TakeName, Op, Outside
    <3> QED
      BY <3>1, <3>2, <3>3 DEF Next, vars, workVars
  <2> QED
    BY <2>1 DEF PlaneInv
<1>4. external' \in OfAddress
  <2>0. Read("external").addr \in OfAddress
    <3>1. Read("external") \in Externals
      BY ReadIsObject, ValuesOf
    <3> QED
      BY <3>1 DEF Externals
  <2>1. external' \in {external, Read("external").addr, ""}
    <3>1. CASE Controller
      BY <3>1 DEF Controller, Begin, CleanupLegacy, DeleteLegacy, ReconcileService, ReconcileExternalService,
         ReconcileStatefulSet, EnsureKubeconfigSecret, PublishEndpoint, ReportReady,
         ReportProvisioning, degrade, Report, Return, workVars
    <3>2. CASE CallFails \/ Restart \/ \E k \in Lagging : See(k)
      BY <3>2 DEF CallFails, Restart, See, Return, workVars
    <3>3. CASE \/ PodRolls \/ PodStarts \/ PodDies \/ \E a \in Addresses : LoadBalancerProvisioned(a)
               \/ Environment
      BY <3>3 DEF PodRolls, PodStarts, PodDies, LoadBalancerProvisioned, Environment, EditSpec,
         Drift, TakeName, Op, Outside
    <3> QED
      BY <3>1, <3>2, <3>3 DEF Next, vars, workVars
  <2> QED
    BY <2>0, <2>1 DEF PlaneInv, OfAddress
<1>5. status' \in Statuses
  <2>1. KnownVersion(copy.version) \in BOOLEAN
    BY DEF KnownVersion
  <2>2. ASSUME NEW step, NEW new \in Statuses, Report(step, new) PROVE status' \in Statuses
    BY <2>1, <2>2 DEF Report, PlaneInv, Statuses
  <2>3. CASE ReportReady
    <3>1. [status EXCEPT !.phase = "Ready", !.endpoint = TRUE, !.external = external] \in Statuses
      BY DEF PlaneInv, Statuses
    <3> QED
      BY <2>2, <2>3, <3>1 DEF ReportReady
  <2>4. CASE ReportProvisioning
    <3>1. [status EXCEPT !.phase = "Provisioning"] \in Statuses
      BY DEF PlaneInv, Statuses
    <3> QED
      BY <2>2, <2>4, <3>1 DEF ReportProvisioning
  <2>5. CASE degrade
    <3>1. [status EXCEPT !.phase = "Degraded"] \in Statuses
      BY DEF PlaneInv, Statuses
    <3> QED
      BY <2>2, <2>5, <3>1 DEF degrade
  <2>6. CASE UNCHANGED status
    BY <2>6 DEF PlaneInv
  <2>7. Controller => ReportReady \/ ReportProvisioning \/ degrade \/ UNCHANGED status
    BY DEF Controller, Begin, CleanupLegacy, DeleteLegacy, ReconcileService, ReconcileExternalService,
       ReconcileStatefulSet, EnsureKubeconfigSecret, PublishEndpoint
  <2> QED
    BY <2>3, <2>4, <2>5, <2>6, <2>7 DEF Next, Environment, CallFails, Restart, See, PodRolls,
       PodStarts, PodDies, LoadBalancerProvisioned, EditSpec, Drift, TakeName, Op, Outside, vars
<1> QED
  BY <1>1, <1>2, <1>3, <1>4, <1>5 DEF PlaneInv
-----------------------------------------------------------------------------
(***************************************************************************)
(* The theorems                                                            *)
(***************************************************************************)

\* The reachable states satisfy the invariant.
LEMMA PlaneInvAlways == Spec => []PlaneInv
BY PlaneInvInit, PlaneInvStep, PTL DEF Spec

\* Whatever is read from lagging informers and refused, every object of the control
\* plane stays one the builders make or its environment leaves: no half-written
\* StatefulSet or Service, no kubeconfig that names the loopback address of the pod,
\* no address in the status that no load balancer had.
THEOREM PlaneTypeCorrect == Spec => []TypeOK
<1>1. PlaneInv => TypeOK
  <2> SUFFICES ASSUME PlaneInv PROVE TypeOK
    OBVIOUS
  <2>1. ASSUME NEW h, Objects(h)
        PROVE  /\ h.service \in {NoService, "ours", "edited"}
               /\ h.external.there \in BOOLEAN /\ h.external.addr \in Addresses \union {""}
               /\ h.statefulSet.image \in Images \union {""} /\ h.statefulSet.ready \in BOOLEAN
               /\ h.secret \in {NoSecret, OldSecret, Kubeconfig(FQDN, "k3s")}
               /\ \A f \in Legacy : h[f] \in {"none", "ours", "stranger"}
    <3>1. /\ h["service"] \in Services /\ h["external"] \in Externals
          /\ h["statefulSet"] \in StatefulSets /\ h["secret"] \in Secrets
          /\ \A f \in Legacy : h[f] \in Found
      BY <2>1, ValuesOf DEF Objects
    <3> QED
      BY <3>1 DEF Services, Externals, StatefulSets, Secrets, Found, OfAddress
  <2>2. status.phase \in {"", "Provisioning", "Ready", "Degraded"} /\ status.external \in Addresses \union {""}
    BY DEF PlaneInv, Statuses, OfAddress
  <2>3. \A h \in {host, seen} : Objects(h)
    BY DEF PlaneInv
  <2>4. spec \in Stored /\ copy \in Stored \union {NoCopy}
    BY DEF PlaneInv
  <2> QED
    BY <2>1, <2>2, <2>3, <2>4, Zenon DEF TypeOK
<1> QED
  BY <1>1, PlaneInvAlways, PTL

\* A Delete of an old StatefulSet or Service is decided by a Get that shows tenantplane's.
LEMMA DeleteDecided ==
  ASSUME [Next]_vars, NEW f \in Legacy \ {"oldPVC"}, pc' = DeleteOf[f], pc # DeleteOf[f]
  PROVE  Read(f) = "ours"
<1> DEFINE Deletes == {"deleteStatefulSet", "deleteService", "deleteExternal", "deletePVC"}
<1>0. /\ pc' \in Deletes /\ pc' # pc
      /\ \A g \in Legacy : (DeleteOf[g] = DeleteOf[f] => g = f) /\ After[g] \notin Deletes
  BY DEF DeleteOf, Legacy, After
<1>1. CASE \E g \in Legacy : CleanupLegacy(g)
  <2>1. PICK g \in Legacy : CleanupLegacy(g)
    BY <1>1
  <2>2. g = f
    BY <1>0, <2>1 DEF CleanupLegacy, Go
  <2>3. isLegacy(Read(f))
    BY <1>0, <2>1, <2>2 DEF CleanupLegacy, Go
  <2> QED
    BY <2>3 DEF isLegacy
<1>2. CASE \E g \in Legacy : DeleteLegacy(g)
  BY <1>0, <1>2 DEF DeleteLegacy, Go
<1>3. CASE Begin \/ ReconcileService \/ ReconcileExternalService
  BY <1>0, <1>3 DEF Begin, ReconcileService, ReconcileExternalService, Put, Unexpose, Go
<1>4. CASE ReconcileStatefulSet \/ EnsureKubeconfigSecret \/ PublishEndpoint
  BY <1>0, <1>4 DEF ReconcileStatefulSet, EnsureKubeconfigSecret, PublishEndpoint, Put, Go
<1>5. CASE ReportReady \/ ReportProvisioning \/ degrade \/ CallFails \/ Restart
  BY <1>0, <1>5 DEF ReportReady, ReportProvisioning, degrade, Report, CallFails, Restart, Return, Go
<1>6. CASE UNCHANGED pc
  BY <1>0, <1>6
<1> QED
  BY <1>1, <1>2, <1>3, <1>4, <1>5, <1>6
     DEF Next, Controller, Environment, See, PodRolls, PodStarts, PodDies,
         LoadBalancerProvisioned, EditSpec, Drift, TakeName, Op, Outside, vars

\* What is a known stranger's stays one.
LEMMA KnownStays ==
  ASSUME PlaneInv, [Next]_vars, NEW f \in Legacy \ {"oldPVC"}, KnownStranger(f)
  PROVE  KnownStranger(f)'
<1>1. f \in Fields /\ f \in Legacy
  BY ValuesOf
<1>2. host[f] = "stranger" /\ Read(f) # "ours" /\ pc # DeleteOf[f]
  BY DEF KnownStranger
<1>3. host'[f] = "stranger"
  <2>1. OldTouched(f)
    BY <1>1, LawfulNext DEF Lawful
  <2> QED
    BY <1>2, <2>1 DEF OldTouched
<1>4. seen'[f] \in {seen[f], host[f]}
  <2>1. DOMAIN host = Fields
    BY DEF PlaneInv, Objects
  <2> QED
    BY <1>1, <2>1, CopiesAreRefreshed DEF Refreshed
<1>5. Read(f)' # "ours"
  BY <1>2, <1>3, <1>4 DEF Read
<1>6. pc' # DeleteOf[f]
  BY <1>2, DeleteDecided
<1> QED
  BY <1>3, <1>5, <1>6 DEF KnownStranger

\* Once the informer has lost sight of tenantplane's own object and no Delete decided
\* before is left, a StatefulSet or Service of somebody else's under a name of the old
\* layout is never removed again, however many reconciles, failures and restarts
\* follow, whichever informers lag (cleanupLegacyControlPlane).
THEOREM StrangersAreSafe == Spec => StrangersStay
<1>1. SUFFICES ASSUME NEW f \in Legacy \ {"oldPVC"}
               PROVE  Spec => [](KnownStranger(f) => [](host[f] = "stranger"))
  BY DEF StrangersStay
<1>2. PlaneInv /\ KnownStranger(f) /\ [Next]_vars => KnownStranger(f)'
  BY KnownStays
<1>3. KnownStranger(f) => host[f] = "stranger"
  BY DEF KnownStranger
<1> QED
  BY <1>2, <1>3, PlaneInvAlways, PTL DEF Spec
=============================================================================
