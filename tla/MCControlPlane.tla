---------------------------- MODULE MCControlPlane ----------------------------
(* Instances of ControlPlane for TLC. *)
EXTENDS ControlPlane, TLC

ClusterSpec(minor, expose, notes, size, store) ==
  [version |-> [minor |-> minor, patch |-> 0], expose |-> expose, notes |-> notes,
   size |-> size, store |-> store]

Valid ==
  {ClusterSpec("v1.30", FALSE, "", "", "sqlite"),
   ClusterSpec("v1.31", TRUE, "internal", "", "sqlite")}
OfOldVersions ==
  {ClusterSpec("v1.27", TRUE, "", "", "sqlite"), ClusterSpec("v1.30", FALSE, "", "bad", "sqlite"),
   ClusterSpec("v1.30", TRUE, "", "", "etcd")}
AnySpec == Valid \union OfOldVersions

\* A tenant that older versions of tenantplane served; a new one, for which the names
\* of the old layout are free or somebody else's; one for which they all are.
New == [f \in Legacy |-> IF f \in {"oldService", "oldPVC"} THEN "stranger" ELSE "none"]
       @@ [secret |-> NoSecret]
Migrating == [f \in Legacy |-> "ours"] @@ [secret |-> OldSecret]
Occupied == [f \in Legacy |-> "stranger"] @@ [secret |-> NoSecret]
OldAndNew == {New, Migrating}

JustMigrating == {Migrating}
JustOccupied == {Occupied}

Plain == {ClusterSpec("v1.30", FALSE, "", "", "sqlite")}
=============================================================================
