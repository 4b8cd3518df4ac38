---------------------------- MODULE MCLocalVault ----------------------------
(* LocalVault on a small instance for TLC. *)
EXTENDS LocalVault, TLC

Symmetry == Permutations(Calls) \cup Permutations(Files)
=============================================================================
