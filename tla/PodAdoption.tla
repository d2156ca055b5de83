----------------------------- MODULE PodAdoption -----------------------------
(***************************************************************************)
(* What a sync pass may change of a Pod that already runs on the host:     *)
(* AdoptHostAllocatedFields for Pods (internal/syncplan/transform.go), as  *)
(* pushToHost uses it.  SyncEngine has the passes and their interleavings  *)
(* and takes a Pod's fixed part as one value; this module has the parts.   *)
(*                                                                         *)
(* A tenant's Pod and its mirror.  The tenant edits its Pod within what    *)
(* its own API server allows, or deletes it and creates another one of the *)
(* same name, as a StatefulSet of the tenant does, between two passes.     *)
(***************************************************************************)
EXTENDS Integers, Sequences, SequencesExt

CONSTANTS
  Pods,           \* Pods a tenant may have: their spec
  HostDefault,    \* the toleration the host adds to every new Pod
  MaxOps

VARIABLES tenant, host, ops
vars == <<tenant, host, ops>>

Container(name, image, spec) == [name |-> name, image |-> image, spec |-> spec]

\* A deadline of 0 is none.
Pod(containers, initContainers, deadline, tolerations, node) ==
  [containers |-> containers, initContainers |-> initContainers, deadline |-> deadline,
   tolerations |-> tolerations, node |-> node]
NoPod == Pod(<<>>, <<>>, 0, <<>>, "")

Containers == Seq([name : STRING, image : STRING, spec : STRING])
PodSpecs == [containers : Containers, initContainers : Containers, deadline : Nat,
             tolerations : Seq(STRING), node : {"", "node"}]

ASSUME PodAssumption ==
  /\ Pods \subseteq PodSpecs /\ NoPod \notin Pods /\ HostDefault \in STRING
  /\ \A p \in Pods : p.node = "" /\ HostDefault \notin ToSet(p.tolerations)
  /\ MaxOps \in Nat
-----------------------------------------------------------------------------
(* transform.go *)

\* Mutant: by position.
overlayContainerImages_Position(existing, desired) ==
  [i \in DOMAIN existing |->
     IF i \in DOMAIN desired THEN [existing[i] EXCEPT !.image = desired[i].image] ELSE existing[i]]

\* The containers that are there, with the images of those of the same name.
overlayContainerImages(existing, desired) ==
  [i \in DOMAIN existing |->
     IF \E j \in DOMAIN desired : desired[j].name = existing[i].name
     THEN [existing[i] EXCEPT
             !.image = (CHOOSE d \in ToSet(desired) : d.name = existing[i].name).image]
     ELSE existing[i]]

\* Mutant: without the search for duplicates.
mergeTolerations_All(existing, desired) == existing \o desired

\* Mutant: the tenant's tolerations replace the others.
mergeTolerations_Replace(existing, desired) == desired

mergeTolerations(existing, desired) ==
  LET out[i \in 0..Len(desired)] ==
        IF i = 0 THEN existing
        ELSE IF desired[i] \in ToSet(existing) THEN out[i - 1]
        ELSE Append(out[i - 1], desired[i])
  IN  out[Len(desired)]

\* The spec of the host's Pod, with what may still change taken from the tenant's;
\* what the tenant's does not have stays as it is.
adoptPodImmutableFields(existing, desired) ==
  [existing EXCEPT
     !.containers = overlayContainerImages(@, desired.containers),
     !.initContainers = overlayContainerImages(@, desired.initContainers),
     !.deadline = IF desired.deadline # 0 THEN desired.deadline ELSE @,
     !.tolerations = mergeTolerations(@, desired.tolerations)]
-----------------------------------------------------------------------------
(***************************************************************************)
(* The API servers' rule for an update of a Pod (external): images may     *)
(* change, a deadline be set or come closer, tolerations be added.         *)
(***************************************************************************)
SameButImages(l, k) ==
  /\ Len(l) = Len(k)
  /\ \A i \in DOMAIN l : l[i].name = k[i].name /\ l[i].spec = k[i].spec

LegalButDeadline(old, new) ==
  /\ SameButImages(old.containers, new.containers)
  /\ SameButImages(old.initContainers, new.initContainers)
  /\ ToSet(old.tolerations) \subseteq ToSet(new.tolerations)
  /\ old.node = new.node

LegalUpdate(old, new) ==
  /\ LegalButDeadline(old, new)
  /\ old.deadline # 0 => new.deadline \in 1..old.deadline
-----------------------------------------------------------------------------
Init ==
  /\ tenant \in Pods /\ host = NoPod
  /\ ops = MaxOps

\* Create, or the update pushToHost makes, if the host accepts it.  A new Pod on
\* the host gets the default toleration.
Push ==
  LET new == adoptPodImmutableFields(host, tenant)
  IN  /\ \/ host = NoPod /\ host' = [tenant EXCEPT !.tolerations = Append(@, HostDefault)]
         \/ host # NoPod /\ host' = IF LegalUpdate(host, new) THEN new ELSE host
      /\ UNCHANGED <<tenant, ops>>

\* The host's scheduler binds the Pod.
Schedule ==
  /\ host # NoPod /\ host.node = ""
  /\ host' = [host EXCEPT !.node = "node"]
  /\ UNCHANGED <<tenant, ops>>

Op == ops > 0 /\ ops' = ops - 1 /\ UNCHANGED host

UpdatePod(p) == Op /\ p # tenant /\ LegalUpdate(tenant, p) /\ tenant' = p

RecreatePod(p) == Op /\ p # tenant /\ tenant' = p

Next == Push \/ Schedule \/ \E p \in Pods : UpdatePod(p) \/ RecreatePod(p)

\* Passes follow each other.
Spec == Init /\ [][Next]_vars /\ WF_vars(Push)
-----------------------------------------------------------------------------
Updated == adoptPodImmutableFields(host, tenant)

\* adoptPodImmutableFields "keeps a re-synced Pod's update valid": whatever the
\* tenant's Pod has become since the host's was created and scheduled, the update
\* changes no field the host forbids to change.  The deadline is the exception.
UpdateKeepsFixedFields == host # NoPod => LegalButDeadline(host, Updated)

\* A pass that follows an update has nothing to add to it: the lists of a Pod do not
\* grow from pass to pass (mergeTolerations, adoptPodImmutableFields).
UpdateSettles ==
  host # NoPod => adoptPodImmutableFields(Updated, tenant) = Updated

Outlives == host.deadline # 0 /\ tenant.deadline > host.deadline

\* In the end every container the two Pods share runs the tenant's image and the
\* host's Pod has the tenant's tolerations, unless the tenant asks for a deadline
\* the host's Pod cannot be given any more (overlayContainerImages,
\* mergeTolerations, pushToHost).
ImagesFollow ==
  <>[](host # NoPod /\ ~Outlives =>
         /\ \A c \in ToSet(host.containers), d \in ToSet(tenant.containers) :
              c.name = d.name => c.image = d.image
         /\ ToSet(tenant.tolerations) \subseteq ToSet(host.tolerations))

\* adoptPodImmutableFields "keeps a re-synced Pod's update valid", deadline included.
UpdateIsValid == host # NoPod => LegalUpdate(host, Updated)
=============================================================================
