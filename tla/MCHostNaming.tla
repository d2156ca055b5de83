----------------------------- MODULE MCHostNaming -----------------------------
(* HostNaming for TLC. *)
EXTENDS HostNaming, Bitwise

ExclusiveOr(a, b) == a ^^ b
=============================================================================
