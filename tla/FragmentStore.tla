---------------------------- MODULE FragmentStore ----------------------------
(***************************************************************************)
(* What a node that stores fragments for others promises, without files,   *)
(* indexes, awaits or faults.  A fragment is kept from the moment its      *)
(* store is acknowledged until it is released; while the node is up it can *)
(* read back every fragment it keeps; stopping and starting, planned or    *)
(* not, changes nothing of what is kept, though that a stopped node starts *)
(* again is not promised; and what is kept fits in what the node offered.  *)
(***************************************************************************)
EXTENDS Naturals, FiniteSets

CONSTANTS
  FragmentIds,   \* fragment ids
  Contents,      \* fragment payloads
  Size,          \* size in bytes of each payload
  MaxStorage,    \* bytes offered
  Absent         \* no fragment

VARIABLES
  up,            \* the node serves requests
  kept,          \* the payload kept under each id
  reads          \* what the node reads back under each id

Kept == {i \in FragmentIds : kept[i] # Absent}

Fits ==
  Cardinality(UNION {{i} \X (1 .. Size[kept[i]]) : i \in Kept}) <= MaxStorage

Honest == up => \A i \in Kept : reads[i] = kept[i]

Init ==
  /\ up = FALSE
  /\ kept = [i \in FragmentIds |-> Absent]

\* A store is acknowledged.
Store(i, c) == kept' = [kept EXCEPT ![i] = c] /\ Fits'

\* A fragment is deleted, has expired or is about to be overwritten.
Release(i) == kept' = [kept EXCEPT ![i] = Absent]

Serve ==
  /\ up /\ up'
  /\ \/ \E i \in FragmentIds, c \in Contents : Store(i, c)
     \/ \E i \in FragmentIds : Release(i)
     \/ UNCHANGED kept

StartOrStop == up' = ~up /\ UNCHANGED kept

Next == (Serve \/ StartOrStop) /\ Honest'

Spec == Init /\ [][Next]_<<up, kept, reads>>
=============================================================================
