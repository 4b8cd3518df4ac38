--------------------------- MODULE StorageManager ---------------------------
(***************************************************************************)
(* The fragment store a node offers to the network                         *)
(* (rust_core/src/p2p/storage_protocol.rs).                                *)
(*                                                                         *)
(* Every operation takes &mut self, so one operation runs at a time, but   *)
(* an operation is several awaited file-system calls: between two of them  *)
(* time passes, the call may fail, or the process may die.  An action is   *)
(* the code from one such point to the next.  tokio::fs::write truncates   *)
(* the file and then fills it, so it takes two actions with a torn file    *)
(* between them.  BLAKE3 is taken to be collision free: a content stands   *)
(* for its own hash, and Torn has the hash of no content.                  *)
(***************************************************************************)
EXTENDS Naturals, FiniteSets

CONSTANTS
  FragmentIds,   \* fragment ids
  Owners,        \* public ids of owners
  Contents,      \* fragment payloads
  Size,          \* size in bytes of each payload
  MaxStorage,    \* max_storage_bytes
  Expiries,      \* values of expires_at callers pass
  Extensions,    \* values of additional_days callers pass
  MaxTime,       \* bound: the clock stops there
  Faults,        \* which of "crash" and "io" may happen
  Absent,        \* no fragment
  NoFile,        \* no file at a path
  Torn,          \* a file truncated and not filled
  NoId           \* no fragment id

ASSUME StorageAssumption ==
  /\ IsFiniteSet(FragmentIds)
  /\ Size \in [Contents -> Nat]
  /\ MaxStorage \in Nat
  /\ Expiries \subseteq Nat
  /\ Extensions \subseteq Nat
  /\ MaxTime \in Nat
  /\ Faults \subseteq {"crash", "io"}

Fragment == [owner_id : Owners, content_hash : Contents, expires_at : Nat]

ASSUME SentinelAssumption ==
  /\ Absent \notin Fragment \cup Contents
  /\ NoId \notin FragmentIds
  /\ {NoFile, Torn} \cap Contents = {} /\ NoFile # Torn
  /\ {NoFile, Torn} \cap [FragmentIds -> Fragment \cup {Absent}] = {}

VARIABLES
  phase,         \* "down": no initialized StorageManager, "up": initialized
  index,         \* fragment_index
  used,          \* used_storage_bytes
  files,         \* fragments/<id[..2]>/<id> on disk
  diskIndex,     \* index.json on disk
  pc,            \* the await point the running operation is at
  target,        \* the id the running store or delete works on
  fragment,      \* its local variable `fragment`
  todo,          \* the ids cleanup_expired has yet to delete
  now,           \* chrono::Utc::now().timestamp()
  acked          \* history: what the last store to return Ok put under each
                 \* id, until a store over it truncates it or a delete starts

vars == <<phase, index, used, files, diskIndex, pc, target, fragment, todo,
          now, acked>>

Index == [FragmentIds -> Fragment \cup {Absent}]
EmptyIndex == [i \in FragmentIds |-> Absent]

Indexed(idx) == {i \in FragmentIds : idx[i] # Absent}
FragmentSize(f) == Size[f.content_hash]
Expired(f) == now > f.expires_at

\* The bytes of the fragments of an index, one pair per byte, so that the sum
\* of their sizes is a cardinality.
Slots(idx) == UNION {{i} \X (1 .. FragmentSize(idx[i])) : i \in Indexed(idx)}
Bytes(idx) == Cardinality(Slots(idx))

Ready == phase = "up" /\ pc = "idle"

-----------------------------------------------------------------------------
(* Faulty variants of the definitions below, one per property: each is a   *)
(* plausible slip that the property it is paired with must notice.         *)

FaultyHasSpace(size) == used + size <= MaxStorage + 1

\* The index is loaded and its bytes are not counted.
FaultyInitializeUncounted ==
  /\ phase = "down"
  /\ diskIndex # Torn
  /\ phase' = "up"
  /\ index' = IF diskIndex = NoFile THEN index ELSE diskIndex
  /\ UNCHANGED <<used, files, diskIndex, pc, target, fragment, todo, now,
                 acked>>

\* The index is not loaded.
FaultyInitializeFresh ==
  /\ phase = "down"
  /\ phase' = "up"
  /\ UNCHANGED <<index, used, files, diskIndex, pc, target, fragment, todo,
                 now, acked>>

\* The presence of the id is not checked.
FaultyDeleteBegin(i) ==
  /\ pc' = "unlink"
  /\ target' = i
  /\ fragment' = index[i]
  /\ index' = [index EXCEPT ![i] = Absent]
  /\ acked' = [acked EXCEPT ![i] = Absent]
  /\ UNCHANGED <<phase, used, files, diskIndex, now>>

\* The id swept is not taken off the list.
FaultySweep(i) ==
  /\ pc = "sweep"
  /\ i \in todo
  /\ index[i] # Absent
  /\ pc' = "unlink"
  /\ target' = i
  /\ fragment' = index[i]
  /\ index' = [index EXCEPT ![i] = Absent]
  /\ acked' = [acked EXCEPT ![i] = Absent]
  /\ UNCHANGED <<phase, used, files, diskIndex, todo, now>>

-----------------------------------------------------------------------------
Init ==
  /\ phase = "down"
  /\ index = EmptyIndex
  /\ used = 0
  /\ files = [i \in FragmentIds |-> NoFile]
  /\ diskIndex = NoFile
  /\ pc = "idle"
  /\ target = NoId
  /\ fragment = Absent
  /\ todo = {}
  /\ now = 0
  /\ acked = [i \in FragmentIds |-> Absent]

\* initialize: an index.json that does not parse is an Err, and no manager.
Initialize ==
  /\ phase = "down"
  /\ diskIndex # Torn
  /\ phase' = "up"
  /\ IF diskIndex = NoFile
       THEN UNCHANGED <<index, used>>
       ELSE index' = diskIndex /\ used' = Bytes(diskIndex)
  /\ UNCHANGED <<files, diskIndex, pc, target, fragment, todo, now, acked>>

\* An operation ends, with Ok or with Err: its locals are gone.
Return ==
  /\ pc' = "idle"
  /\ target' = NoId
  /\ fragment' = Absent
  /\ todo' = {}

-----------------------------------------------------------------------------
HasSpace(size) == used + size <= MaxStorage

\* store_fragment up to its first await: refused at once when full.
StoreFragment(i, o, c, e) ==
  /\ Ready
  /\ HasSpace(Size[c])
  /\ pc' = "create"
  /\ target' = i
  /\ fragment' = [owner_id |-> o, content_hash |-> c, expires_at |-> e]
  /\ UNCHANGED <<phase, index, used, files, diskIndex, todo, now, acked>>

\* The directory exists; tokio::fs::write has truncated the file.
WriteBegin ==
  /\ pc = "create"
  /\ pc' = "write"
  /\ files' = [files EXCEPT ![target] = Torn]
  /\ acked' = [acked EXCEPT ![target] = Absent]
  /\ UNCHANGED <<phase, index, used, diskIndex, target, fragment, todo, now>>

\* The file is written: insert into the index and count the bytes.
WriteEnd ==
  /\ pc = "write"
  /\ pc' = "save"
  /\ files' = [files EXCEPT ![target] = fragment.content_hash]
  /\ index' = [index EXCEPT ![target] = fragment]
  /\ used' = used + FragmentSize(fragment)
  /\ UNCHANGED <<phase, diskIndex, target, fragment, todo, now, acked>>

-----------------------------------------------------------------------------
\* delete_fragment up to the removal of the file.
DeleteBegin(i) ==
  /\ index[i] # Absent
  /\ pc' = "unlink"
  /\ target' = i
  /\ fragment' = index[i]
  /\ index' = [index EXCEPT ![i] = Absent]
  /\ acked' = [acked EXCEPT ![i] = Absent]
  /\ UNCHANGED <<phase, used, files, diskIndex, now>>

DeleteFragment(i) == Ready /\ DeleteBegin(i) /\ UNCHANGED todo

\* retrieve_fragment of an expired fragment deletes it.
RetrieveExpired(i) ==
  /\ Ready
  /\ index[i] # Absent
  /\ Expired(index[i])
  /\ DeleteBegin(i)
  /\ UNCHANGED todo

\* The file is gone (or was not there): give its bytes back.
Unlink ==
  /\ pc = "unlink"
  /\ pc' = "save"
  /\ files' = [files EXCEPT ![target] = NoFile]
  /\ used' = IF used >= FragmentSize(fragment)
               THEN used - FragmentSize(fragment)
               ELSE 0
  /\ UNCHANGED <<phase, index, diskIndex, target, fragment, todo, now, acked>>

\* What retrieve_fragment answers; the answers below but "expired" change
\* nothing here (access counts are left out).
Retrieve(i) ==
  IF index[i] = Absent THEN "not found"
  ELSE IF Expired(index[i]) THEN "expired"
  ELSE IF files[i] = NoFile THEN "read failed"
  ELSE IF files[i] # index[i].content_hash THEN "integrity"
  ELSE "ok"

\* The bytes prove_storage hashes with a challenge: those of the file, whether
\* or not the fragment has expired and without comparing them with its hash.
ProvenBytes(i) ==
  IF index[i] # Absent /\ files[i] # NoFile THEN files[i] ELSE Absent

-----------------------------------------------------------------------------
\* extend_fragment: the deadline becomes the caller's, whatever it was.
ExtendFragment(i, e) ==
  /\ Ready
  /\ index[i] # Absent
  /\ pc' = "save"
  /\ index' = [index EXCEPT ![i].expires_at = e]
  /\ UNCHANGED <<phase, used, files, diskIndex, target, fragment, todo, now,
                 acked>>

\* extend_owner_fragments: every fragment of the owner, counted from now.
ExtendOwnerFragments(o, days) ==
  LET mine == {i \in Indexed(index) : index[i].owner_id = o}
  IN /\ Ready
     /\ mine # {}
     /\ pc' = "save"
     /\ index' = [i \in FragmentIds |->
                    IF i \in mine
                      THEN [index[i] EXCEPT !.expires_at = now + days]
                      ELSE index[i]]
     /\ UNCHANGED <<phase, used, files, diskIndex, target, fragment, todo,
                    now, acked>>

\* cleanup_expired picks the expired ids, then deletes them one by one in
\* whatever order the map gave them.
CleanupExpired ==
  /\ Ready
  /\ todo' = {i \in Indexed(index) : Expired(index[i])}
  /\ todo' # {}
  /\ pc' = "sweep"
  /\ UNCHANGED <<phase, index, used, files, diskIndex, target, fragment, now,
                 acked>>

Sweep(i) ==
  /\ pc = "sweep"
  /\ i \in todo
  /\ DeleteBegin(i)
  /\ todo' = todo \ {i}

-----------------------------------------------------------------------------
\* save_index truncates index.json ...
SaveBegin ==
  /\ pc = "save"
  /\ pc' = "truncated"
  /\ diskIndex' = Torn
  /\ UNCHANGED <<phase, index, used, files, target, fragment, todo, now,
                 acked>>

\* ... and fills it.  A store, delete or extension then returns Ok; a cleanup
\* goes on with its next id.
SaveEnd ==
  /\ pc = "truncated"
  /\ diskIndex' = index
  /\ acked' = IF target \in Indexed(index)
                THEN [acked EXCEPT ![target] = index[target].content_hash]
                ELSE acked
  /\ IF todo = {}
       THEN Return
       ELSE /\ pc' = "sweep"
            /\ target' = NoId
            /\ fragment' = Absent
            /\ UNCHANGED todo
  /\ UNCHANGED <<phase, index, used, files, now>>

-----------------------------------------------------------------------------
\* The awaited call fails and `?` returns from the operation, from a cleanup
\* too.  A missing file is not removed, so its removal cannot fail.
IOError ==
  /\ "io" \in Faults
  /\ \/ pc \in {"create", "write", "save", "truncated"}
     \/ pc = "unlink" /\ files[target] # NoFile
  /\ Return
  /\ UNCHANGED <<phase, index, used, files, diskIndex, now, acked>>

\* The process dies: what is in memory is lost, what is on disk stays.
Crash ==
  /\ "crash" \in Faults
  /\ phase = "up"
  /\ phase' = "down"
  /\ index' = EmptyIndex
  /\ used' = 0
  /\ Return
  /\ UNCHANGED <<files, diskIndex, now, acked>>

Tick ==
  /\ now < MaxTime
  /\ now' = now + 1
  /\ UNCHANGED <<phase, index, used, files, diskIndex, pc, target, fragment,
                 todo, acked>>

-----------------------------------------------------------------------------
\* What the runtime does by itself once an operation is called.
Progress ==
  \/ WriteBegin \/ WriteEnd \/ Unlink \/ SaveBegin \/ SaveEnd
  \/ \E i \in FragmentIds : Sweep(i)

Next ==
  \/ Initialize
  \/ \E i \in FragmentIds, o \in Owners, c \in Contents, e \in Expiries :
       StoreFragment(i, o, c, e)
  \/ \E i \in FragmentIds : DeleteFragment(i)
  \/ \E i \in FragmentIds : RetrieveExpired(i)
  \/ \E i \in FragmentIds, e \in Expiries : ExtendFragment(i, e)
  \/ \E o \in Owners, days \in Extensions : ExtendOwnerFragments(o, days)
  \/ CleanupExpired
  \/ Progress
  \/ IOError
  \/ Crash
  \/ Tick

Spec == Init /\ [][Next]_vars

\* An awaited file-system call ends, one way or the other.
FairSpec == Spec /\ WF_vars(Progress)

-----------------------------------------------------------------------------
(* Properties *)

TypeOK ==
  /\ phase \in {"down", "up"}
  /\ index \in Index
  /\ used \in Nat
  /\ files \in [FragmentIds -> Contents \cup {NoFile, Torn}]
  /\ diskIndex \in Index \cup {NoFile, Torn}
  /\ pc \in {"idle", "create", "write", "unlink", "save", "truncated",
             "sweep"}
  /\ target \in FragmentIds \cup {NoId}
  /\ fragment \in Fragment \cup {Absent}
  /\ pc \in {"create", "write", "unlink"} =>
       target \in FragmentIds /\ fragment \in Fragment
  /\ todo \subseteq FragmentIds
  /\ now \in Nat
  /\ acked \in [FragmentIds -> Contents \cup {Absent}]

\* The counter never falls below what the index holds and never passes the
\* offered maximum, whatever fails and whenever the process dies: admitting a
\* fragment on the counter alone (store_fragment's check) keeps the promise of
\* max_storage_bytes for the indexed fragments.
CapacityRespected == Bytes(index) <= used /\ used <= MaxStorage

\* The saturating subtraction of delete_fragment never has to saturate: the
\* bytes of the fragment being deleted are still in the counter.
NeverSaturates ==
  pc = "unlink" => Bytes(index) + FragmentSize(fragment) <= used

\* index.json never describes more than the offered maximum, so a restart
\* never comes up over its limit.
SavedIndexFits == diskIndex \in Index => Bytes(diskIndex) <= MaxStorage

\* A store that returned Ok is served, byte for byte, until its deadline, by
\* every life of the node that comes up: no failed call, no operation on
\* another id and no stop loses it, as long as index.json is not torn.  While
\* the node is down, the index a start would load has it.
AckedIsServed ==
  \A i \in FragmentIds : acked[i] # Absent =>
    /\ phase = "up" =>
         /\ Retrieve(i) \in {"ok", "expired"}
         /\ index[i].content_hash = acked[i]
    /\ phase = "down" /\ diskIndex # Torn =>
         /\ diskIndex # NoFile /\ diskIndex[i] # Absent
         /\ diskIndex[i].content_hash = acked[i]
         /\ files[i] = acked[i]

\* storage_protocol.rs:87: "Load existing index if present": the next start of
\* a node can load what it acknowledged.  False of the code: a process that
\* dies while index.json is written, or after a write of it failed, leaves it
\* torn, see the run storage_torn_index.
AckedIsLoadable ==
  phase = "down" =>
    \A i \in FragmentIds : acked[i] # Absent =>
      diskIndex \notin {NoFile, Torn} /\ diskIndex[i] # Absent

\* Every operation returns: no failed call or crash leaves the manager inside
\* an operation, and a cleanup runs out of ids.
OperationsReturn == (pc # "idle") ~> (pc = "idle")

\* The manager is a FragmentStore: what it acknowledged is what it keeps, a
\* proof of storage is computed from exactly those bytes, also past the
\* deadline, and a crash is no more than a stop, though one with a torn
\* index.json is a stop for good.
Store == INSTANCE FragmentStore WITH
           up <- phase = "up",
           kept <- acked,
           reads <- [i \in FragmentIds |-> ProvenBytes(i)]

ImplementsStore == Store!Spec
=============================================================================
