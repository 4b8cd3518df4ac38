-------------------------- MODULE MCStorageManager --------------------------
(* StorageManager on a small instance for TLC. *)
EXTENDS StorageManager, TLC

CONSTANTS f1, f2, small, large

MCFragmentIds == {f1, f2}
MCContents == {small, large}
MCSize == (small :> 1) @@ (large :> 2)
=============================================================================
