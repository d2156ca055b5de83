----------------------------- MODULE Transform -----------------------------
(***************************************************************************)
(* internal/syncplan/transform.go: how the content of a tenant object      *)
(* becomes the content of its host mirror and back.                        *)
(*                                                                         *)
(* A content is a record with the three parts the code tells apart:        *)
(*   free   what either side may edit at any time (ConfigMap data, Service *)
(*          selector and ports, Pod images);                               *)
(*   fixed  Service: the addresses each cluster allocates for itself;      *)
(*          Pod: the part of the spec Kubernetes never lets an update      *)
(*          change;                                                        *)
(*   rc     Pod: spec.runtimeClassName, immutable as well.                 *)
(* Kinds other than Service and Pod (Deployments, ConfigMaps, Secrets, ...) *)
(* keep fixed = Unset and rc = NoClass.                                    *)
(***************************************************************************)

Unset == "unset"        \* a stripped field
NoClass == "none"       \* no runtimeClassName

\* Fields only the object's own cluster allocates are removed.
stripHostAllocatedSpecFields(k, c) ==
  IF k = "Service" THEN [c EXCEPT !.fixed = Unset] ELSE c

\* The host object built from tenant content c: BuildHostObject, then the
\* runtime class syncPass stamps on every Pod when the profile requires one.
BuildHostObject(k, c, required) ==
  LET stripped == stripHostAllocatedSpecFields(k, c)
  IN  IF k = "Pod" /\ required # NoClass
      THEN [stripped EXCEPT !.rc = required]
      ELSE stripped

\* What pushToHost really sends: a Service keeps the host's addresses, a Pod
\* keeps the live spec and only takes the fields an update may change.
AdoptHostAllocatedFields(k, existing, desired) ==
  IF k = "Service" THEN [desired EXCEPT !.fixed = existing.fixed]
  ELSE IF k = "Pod" THEN [existing EXCEPT !.free = desired.free]
  ELSE desired

\* Mutant: the injected runtime class takes part in the comparison.
ComparableHost_Raw(k, c, required) == c

\* The host content as reconcilePair compares and pulls it: without the
\* runtime class the engine itself injected.
ComparableHost(k, c, required) ==
  IF k = "Pod" /\ required # NoClass THEN [c EXCEPT !.rc = NoClass] ELSE c

ContentEqual(k, a, b) ==
  stripHostAllocatedSpecFields(k, a) = stripHostAllocatedSpecFields(k, b)

\* The content pullToTenant sends to the tenant's API server.
MergeHostContentIntoTenant(k, hostContent) ==
  stripHostAllocatedSpecFields(k, hostContent)

(***************************************************************************)
(* What an API server does with a content it is sent (external).           *)
(***************************************************************************)

\* An update may not change a Pod's immutable fields.
UpdateAllowed(k, old, new) ==
  k = "Pod" => /\ new.fixed = old.fixed
               /\ new.rc = old.rc

\* An address missing from a Service is filled in: with the one the object
\* already has on update, with a fresh one on create.
Defaulted(k, new, address) ==
  IF k = "Service" /\ new.fixed = Unset THEN [new EXCEPT !.fixed = address] ELSE new
=============================================================================
