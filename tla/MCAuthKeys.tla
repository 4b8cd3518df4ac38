----------------------------- MODULE MCAuthKeys -----------------------------
(* AuthKeys on small instances for TLC. *)
EXTENDS AuthKeys, TLC

Symmetry == Permutations(Seeds) \cup Permutations(TempKeys) \cup Permutations(Calls)
=============================================================================
