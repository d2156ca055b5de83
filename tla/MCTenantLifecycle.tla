-------------------------- MODULE MCTenantLifecycle --------------------------
(* Instances of TenantLifecycle for TLC. *)
EXTENDS TenantLifecycle, TLC

OneTenant == {"t1"}
TwoTenants == {"t1", "t2"}

InOneNamespace == [t \in Tenants |-> "n"]
InTwoNamespaces == "t1" :> "n1" @@ "t2" :> "n2"

OneControlPlane == [t \in Tenants |-> "cp"]
OwnControlPlanes == "t1" :> "cp1" @@ "t2" :> "cp2"
=============================================================================
