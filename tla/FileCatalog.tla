----------------------------- MODULE FileCatalog -----------------------------
(***************************************************************************)
(* What the vault promises of the files it lists, without shards, awaits,  *)
(* calls, lists or faults.  A file is made ready in one step and listed in *)
(* another, ready before it is listed; a listed file stays listed and      *)
(* ready until it is condemned; and a condemned file is never listed or    *)
(* made ready again.                                                       *)
(***************************************************************************)
CONSTANT Files   \* file ids

VARIABLES
  listed,        \* the files the vault has a record of
  ready,         \* the files that can be opened
  condemned      \* the files a deletion was asked for

Init == listed = {} /\ ready = {} /\ condemned = {}

Prepare(f) ==
  /\ f \notin listed \cup condemned
  /\ ready' = ready \cup {f}
  /\ UNCHANGED <<listed, condemned>>

Publish(f) ==
  /\ f \in ready \ (listed \cup condemned)
  /\ listed' = listed \cup {f}
  /\ UNCHANGED <<ready, condemned>>

\* A deletion is asked for, of one file or of those of a folder.
Condemn(fs) ==
  /\ fs \subseteq listed
  /\ condemned' = condemned \cup fs
  /\ UNCHANGED <<listed, ready>>

Spoil(f) ==
  /\ f \in condemned
  /\ ready' = ready \ {f}
  /\ UNCHANGED <<listed, condemned>>

Withdraw(f) ==
  /\ f \in condemned
  /\ listed' = listed \ {f}
  /\ UNCHANGED <<ready, condemned>>

Next ==
  \/ \E f \in Files : Prepare(f) \/ Publish(f) \/ Spoil(f) \/ Withdraw(f)
  \/ \E fs \in SUBSET Files : Condemn(fs)

Spec == Init /\ [][Next]_<<listed, ready, condemned>>
=============================================================================
