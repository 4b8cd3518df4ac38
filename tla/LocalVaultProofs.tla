-------------------------- MODULE LocalVaultProofs --------------------------
(***************************************************************************)
(* The safety of LocalVault for every number of calls, files, folders and  *)
(* shards and every choice of faults.                                      *)
(***************************************************************************)
EXTENDS LocalVault, FiniteSetTheorems, TLAPS

\* The files an upload has yet to record.
Pending(r) ==
  IF r.op # "upload" THEN {}
  ELSE r.rest \cup (IF r.at \in {"shard", "meta", "record"} THEN {r.file} ELSE {})

NotPending(f) == \A c \in Calls : f \notin Pending(call[c])

Listed == IF list = Failed THEN {} ELSE list

Spoiled == cut \cup swallowed

-----------------------------------------------------------------------------
(* The inductive invariant *)

\* What a call may have in its hands at each of its awaits.
WellFormed(r) ==
  /\ r.op = "upload" =>
       /\ r.at \in {"pick", "next", "shard", "meta", "record"}
       /\ r.at = "pick" => r.rest = {}
       /\ r.at # "shard" => r.step = 1
       /\ r.at \in {"shard", "meta", "record"} => r.file \in Files \ r.rest
  /\ r.op = "delete" =>
       /\ r.at \in {"shard", "meta", "record", "record2", "list"}
       /\ r.file \in Files
  /\ r.op = "rmdir" => r.at \in {"start", "next"}
  /\ r.op = "rmdir" /\ r.at = "start" => r.rest = {}

Shape == \A c \in Calls : WellFormed(call[c])

\* A file is recorded, listed or deleted only after its upload recorded it,
\* and no two uploads are of one file.
Settled == Recorded \cup condemned \cup Listed

Fresh ==
  /\ Settled \subseteq born
  /\ \A c \in Calls : Pending(call[c]) \subseteq born \ Settled
  /\ \A c, d \in Calls : c # d => Pending(call[c]) \cap Pending(call[d]) = {}

\* How far an upload is with the file it is at.
SavedBy(r) ==
  r.op = "upload" =>
    /\ r.at = "shard" => 1 .. r.step - 1 \subseteq shards[r.file]
    /\ r.at \in {"meta", "record"} => shards[r.file] = Shards
    /\ r.at = "record" => r.file \in meta

Saved == \A c \in Calls : SavedBy(call[c])

\* Deletions are of files that were asked to be deleted.
AskedOf(r) ==
  /\ r.op = "delete" => r.file \in condemned
  /\ r.op = "rmdir" => r.rest \subseteq condemned

Asked == \A c \in Calls : AskedOf(call[c])

\* A file still recorded although its deletion was asked for has a call that
\* is going to delete the record, or had one that was cut short.
Dooms(r, f) ==
  \/ /\ r.op = "delete" /\ r.file = f
     /\ r.at \in {"shard", "meta", "record", "record2"}
  \/ r.op = "rmdir" /\ f \in r.rest

Final ==
  \A f \in condemned \cap Recorded :
    f \in cut \/ \E c \in Calls : Dooms(call[c], f)

\* How far a deletion is with its file.
ErasedBy(r) ==
  r.op = "delete" /\ r.file \notin Spoiled =>
    /\ r.at = "shard" => \A s \in shards[r.file] : s >= r.step
    /\ r.at \in {"meta", "record", "record2", "list"} => shards[r.file] = {}
    /\ r.at \in {"record", "record2", "list"} => r.file \notin meta

Erased == \A c \in Calls : ErasedBy(call[c])

\* No shards without metadata, and neither without a record, but for uploads
\* on their way and what was spoiled or swept.
Accounted ==
  \A f \in Files : NotPending(f) /\ f \notin Spoiled =>
    /\ f \notin meta => shards[f] = {}
    /\ f \notin swept /\ (shards[f] # {} \/ f \in meta) => f \in Recorded

\* What the list misses an upload will load, and what it has too many of a
\* deletion will.
Loads(r) == r.op = "upload" /\ r.at # "pick"
Unlists(r, f) == r.op = "delete" /\ r.file = f /\ r.at \in {"record2", "list"}

Stale ==
  list # Failed =>
    \A f \in Files \ swept :
      /\ f \in Recorded \ list => \E c \in Calls : Loads(call[c])
      /\ f \in list \ Recorded => \E c \in Calls : Unlists(call[c], f)

IInv ==
  /\ TypeOK /\ Shape /\ Fresh /\ Saved /\ Asked /\ RecordedIsComplete
  /\ Final /\ Erased /\ Accounted /\ Stale

-----------------------------------------------------------------------------
LEMMA IdleCall ==
  /\ Idle \in Call
  /\ Idle.op = "idle" /\ Idle.rest = {} /\ Idle.at = "start" /\ Idle.step = 1
  /\ Idle.file = NoFile /\ Idle.folder = Root
  BY VaultAssumption DEF Idle, Call, Positions, Shards

LEMMA InitIInv == Init => IInv
  <1> SUFFICES ASSUME Init PROVE IInv
    OBVIOUS
  <1> USE IdleCall, VaultAssumption DEF Init
  <1>1. TypeOK
    BY DEF TypeOK
  <1>2. Recorded = {}
    BY DEF Recorded
  <1>3. \A c \in Calls : /\ call[c].op = "idle" /\ Pending(call[c]) = {}
    BY DEF Pending
  <1>4. Shape /\ Saved /\ Asked /\ Erased
    BY <1>3 DEF Shape, WellFormed, Saved, SavedBy, Asked, AskedOf, Erased, ErasedBy
  <1>5. Fresh
    BY <1>2, <1>3 DEF Fresh, Settled, Listed
  <1>6. RecordedIsComplete /\ Final /\ Stale
    BY <1>2 DEF RecordedIsComplete, Final, Stale
  <1>7. Accounted
    BY DEF Accounted
  <1> QED BY <1>1, <1>4, <1>5, <1>6, <1>7 DEF IInv

-----------------------------------------------------------------------------
(* Uploads *)

LEMMA OpenPickerStep ==
  ASSUME IInv, NEW c \in Calls, NEW d \in Folders \cup {Root}, OpenPicker(c, d)
  PROVE  IInv'
  <1> USE DEF IInv
  <1> DEFINE r == call'[c]
  <1>1. /\ r \in Call /\ r.op = "upload" /\ r.at = "pick" /\ r.rest = {} /\ r.step = 1
        /\ \A e \in Calls : e # c => call'[e] = call[e]
        /\ call' \in [Calls -> Call]
    BY IdleCall DEF OpenPicker, TypeOK, Idle, Call, Positions
  <1>2. call[c].op = "idle"
    BY IdleCall DEF OpenPicker
  <1> HIDE DEF r
  <1> USE DEF OpenPicker
  <1>3. TypeOK'
    BY <1>1 DEF TypeOK, history
  <1>4. Pending(r) = {} /\ Recorded' = Recorded /\ Settled' = Settled /\ Spoiled' = Spoiled
    BY <1>1 DEF Pending, Recorded, Settled, Listed, Spoiled, history
  <1>5. Shape'
    BY <1>1 DEF Shape, WellFormed, r
  <1>6. Fresh'
    BY <1>1, <1>4 DEF Fresh, history, r
  <1>7. Saved' /\ Asked' /\ Erased'
    BY <1>1, <1>4 DEF Saved, SavedBy, Asked, AskedOf, Erased, ErasedBy, history, r
  <1>8. RecordedIsComplete'
    BY <1>4 DEF RecordedIsComplete, Complete, history
  <1>9. Final'
    BY <1>1, <1>2, <1>4 DEF Final, Dooms, history
  <1>10. Accounted'
    BY <1>1, <1>2, <1>4 DEF Accounted, NotPending, Pending, history, r
  <1>11. Stale'
    BY <1>1, <1>2, <1>4 DEF Stale, Loads, Unlists, history
  <1> QED BY <1>3, <1>5, <1>6, <1>7, <1>8, <1>9, <1>10, <1>11

LEMMA PickFilesStep ==
  ASSUME IInv, NEW c \in Calls, NEW fs \in SUBSET Files, PickFiles(c, fs)
  PROVE  IInv'
  <1> USE DEF IInv
  <1> DEFINE r == call'[c]
  <1>1. /\ call[c] \in Call /\ call[c].op = "upload" /\ call[c].at = "pick"
        /\ call[c].rest = {} /\ call[c].step = 1
    BY DEF PickFiles, At, TypeOK, Shape, WellFormed
  <1>2. /\ \A e \in Calls : e # c => call'[e] = call[e]
        /\ call' \in [Calls -> Call]
        /\ \/ fs = {} /\ r = Idle
           \/ /\ fs # {} /\ r.op = "upload" /\ r.at = "next" /\ r.rest = fs
              /\ r.step = 1
    BY <1>1, IdleCall DEF PickFiles, Return, TypeOK, Call, Positions
  <1> HIDE DEF r
  <1>u. /\ fs \cap born = {} /\ born' = born \cup fs
        /\ UNCHANGED <<shards, meta, record, folders, list, folderList,
                       condemned, swept, cut, swallowed>>
    BY DEF PickFiles
  <1>3. TypeOK'
    BY <1>2, <1>u DEF TypeOK
  <1>4. /\ Pending(call[c]) = {} /\ Pending(r) = fs
        /\ Recorded' = Recorded /\ Settled' = Settled /\ Spoiled' = Spoiled
    BY <1>1, <1>2, <1>u, IdleCall DEF Pending, Recorded, Settled, Listed, Spoiled
  <1>5. Shape'
    BY <1>2, IdleCall DEF Shape, WellFormed, r
  <1>6. Fresh'
    <2>1. Settled' \subseteq born' /\ fs \subseteq born' \ Settled'
      BY <1>4, <1>u DEF Fresh
    <2>2. \A e \in Calls : e # c => Pending(call'[e]) \subseteq born \ Settled
      BY <1>2 DEF Fresh
    <2>3. \A d, e \in Calls : d # e => Pending(call'[d]) \cap Pending(call'[e]) = {}
      BY <1>2, <1>4, <1>u, <2>2 DEF Fresh, r
    <2> QED BY <1>4, <1>u, <2>1, <2>2, <2>3 DEF Fresh, r
  <1>7. Saved' /\ Asked' /\ Erased'
    BY <1>2, <1>4, <1>u, IdleCall
       DEF Saved, SavedBy, Asked, AskedOf, Erased, ErasedBy, r
  <1>8. RecordedIsComplete'
    BY <1>4, <1>u DEF RecordedIsComplete, Complete
  <1>9. Final'
    BY <1>1, <1>2, <1>4, <1>u DEF Final, Dooms
  <1>10. Accounted'
    BY <1>2, <1>4, <1>u DEF Accounted, NotPending, r
  <1>11. Stale'
    BY <1>1, <1>2, <1>4, <1>u DEF Stale, Loads, Unlists
  <1> QED BY <1>3, <1>5, <1>6, <1>7, <1>8, <1>9, <1>10, <1>11

LEMMA NextUploadStep ==
  ASSUME IInv, NEW c \in Calls, NextUpload(c)
  PROVE  IInv'
  <1> USE DEF IInv
  <1> DEFINE r == call'[c]
  <1>1. /\ call[c] \in Call /\ call[c].op = "upload" /\ call[c].at = "next"
        /\ call[c].step = 1
    BY DEF NextUpload, At, TypeOK, Shape, WellFormed
  <1>2. PICK f \in call[c].rest :
          call' = [call EXCEPT ![c].file = f, ![c].rest = @ \ {f},
                               ![c].at = "shard"]
    BY DEF NextUpload
  <1>3. /\ \A e \in Calls : e # c => call'[e] = call[e]
        /\ call' \in [Calls -> Call]
        /\ r.op = "upload" /\ r.at = "shard" /\ r.rest = call[c].rest \ {f}
        /\ r.file = f /\ r.step = 1 /\ f \in Files
    BY <1>1, <1>2 DEF TypeOK, Call, Positions
  <1> HIDE DEF r
  <1>u. UNCHANGED <<shards, meta, record, folders, list, folderList, born,
                    condemned, swept, cut, swallowed>>
    BY DEF NextUpload, history
  <1>4. TypeOK'
    BY <1>3, <1>u DEF TypeOK
  <1>5. /\ Pending(r) = Pending(call[c]) /\ Recorded' = Recorded
        /\ Settled' = Settled /\ Spoiled' = Spoiled
    BY <1>1, <1>2, <1>3, <1>u DEF Pending, Recorded, Settled, Listed, Spoiled
  <1>6. Shape'
    BY <1>3 DEF Shape, WellFormed, r
  <1>7. Fresh'
    BY <1>3, <1>5, <1>u DEF Fresh, r
  <1>8. Saved' /\ Asked' /\ Erased'
    BY <1>3, <1>5, <1>u DEF Saved, SavedBy, Asked, AskedOf, Erased, ErasedBy, r
  <1>9. RecordedIsComplete'
    BY <1>5, <1>u DEF RecordedIsComplete, Complete
  <1>10. Final'
    BY <1>1, <1>3, <1>5, <1>u DEF Final, Dooms
  <1>11. Accounted'
    BY <1>3, <1>5, <1>u DEF Accounted, NotPending, r
  <1>12. Stale'
    BY <1>1, <1>3, <1>5, <1>u DEF Stale, Loads, Unlists, r
  <1> QED BY <1>4, <1>6, <1>7, <1>8, <1>9, <1>10, <1>11, <1>12

\* NextShard moves on by one shard, or to the metadata after the last one.
LEMMA NextShardCall ==
  ASSUME TypeOK, NEW c \in Calls, call[c].at = "shard", NextShard(c)
  PROVE  /\ \A e \in Calls : e # c => call'[e] = call[e]
         /\ call' \in [Calls -> Call]
         /\ call'[c].op = call[c].op /\ call'[c].rest = call[c].rest
         /\ call'[c].file = call[c].file
         /\ \/ /\ call[c].step = TotalShards
               /\ call'[c].at = "meta" /\ call'[c].step = 1
            \/ /\ call[c].step # TotalShards
               /\ call'[c].at = "shard" /\ call'[c].step = call[c].step + 1
  <1>1. call[c] \in Call /\ call \in [Calls -> Call] /\ call[c].step \in 1 .. TotalShards
    BY DEF TypeOK, Call, Shards
  <1>2. TotalShards \in Nat \ {0}
    BY VaultAssumption
  <1>3. CASE call[c].step = TotalShards
    BY <1>1, <1>2, <1>3 DEF NextShard, Call, Positions, Shards
  <1>4. CASE call[c].step # TotalShards
    <2>1. call[c].step + 1 \in Shards
      BY <1>1, <1>2, <1>4 DEF Shards
    <2> QED BY <1>1, <1>4, <2>1 DEF NextShard, Call, Positions
  <1> QED BY <1>3, <1>4

LEMMA SaveShardStep ==
  ASSUME IInv, NEW c \in Calls, SaveShard(c)
  PROVE  IInv'
  <1> USE DEF IInv
  <1> DEFINE r == call'[c]
             f == call[c].file
             s == call[c].step
  <1>1. /\ call[c] \in Call /\ call[c].op = "upload" /\ call[c].at = "shard"
        /\ f \in Files \ call[c].rest /\ s \in Shards
        /\ 1 .. s - 1 \subseteq shards[f] /\ shards[f] \subseteq Shards
    BY DEF SaveShard, At, TypeOK, Shape, WellFormed, Call, Saved, SavedBy
  <1>2. /\ \A e \in Calls : e # c => call'[e] = call[e]
        /\ call' \in [Calls -> Call]
        /\ r.op = "upload" /\ r.rest = call[c].rest /\ r.file = f
        /\ \/ s = TotalShards /\ r.at = "meta" /\ r.step = 1
           \/ s # TotalShards /\ r.at = "shard" /\ r.step = s + 1
    BY <1>1, NextShardCall DEF SaveShard
  <1> HIDE DEF r
  <1>u. /\ shards' = [shards EXCEPT ![f] = @ \cup {s}]
        /\ UNCHANGED <<meta, record, folders, list, folderList, born,
                       condemned, swept, cut, swallowed>>
    BY DEF SaveShard, history
  <1>3. /\ shards'[f] = shards[f] \cup {s}
        /\ \A g \in Files : g # f => shards'[g] = shards[g]
        /\ shards' \in [Files -> SUBSET Shards]
    BY <1>1, <1>u DEF TypeOK
  <1>4. TypeOK'
    BY <1>2, <1>3, <1>u DEF TypeOK
  <1>5. /\ Pending(r) = Pending(call[c]) /\ Recorded' = Recorded
        /\ Settled' = Settled /\ Spoiled' = Spoiled
        /\ f \in Pending(call[c])
    BY <1>1, <1>2, <1>u DEF Pending, Recorded, Settled, Listed, Spoiled
  <1> HIDE DEF f, s
  <1>6. Shape'
    <2>1. WellFormed(r)
      BY <1>1, <1>2 DEF WellFormed
    <2> QED BY <1>2, <2>1 DEF Shape, r
  <1>7. Fresh'
    BY <1>2, <1>5, <1>u DEF Fresh, r
  <1>8. Saved'
    <2>1. /\ r.at = "shard" => 1 .. r.step - 1 \subseteq shards'[f]
          /\ r.at = "meta" => shards'[f] = Shards
      <3>1. 1 .. s \subseteq shards'[f] /\ shards'[f] \subseteq Shards
        BY <1>1, <1>3 DEF Shards
      <3>2. TotalShards \in Nat /\ s \in Nat
        BY <1>1, VaultAssumption DEF Shards
      <3>3. CASE s = TotalShards
        <4>1. r.at = "meta" /\ shards'[f] = Shards
          BY <1>2, <3>1, <3>3 DEF Shards
        <4> QED BY <4>1
      <3>4. CASE s # TotalShards
        <4>1. r.at = "shard" /\ r.step - 1 = s
          BY <1>2, <3>2, <3>4
        <4> QED BY <3>1, <4>1
      <3> QED BY <3>3, <3>4
    <2>2. ASSUME NEW e \in Calls, e # c, call[e].op = "upload",
                 call[e].at \in {"shard", "meta", "record"}
          PROVE  call[e].file # f /\ call[e].file \in Files
      <3>1. call[e].file \in Pending(call[e])
        BY <2>2 DEF Pending
      <3> QED BY <1>5, <2>2, <3>1 DEF Fresh, Shape, WellFormed
    <2>3. ASSUME NEW e \in Calls, e # c PROVE SavedBy(call[e])'
      BY <1>2, <1>3, <1>u, <2>2, <2>3 DEF Saved, SavedBy
    <2>4. SavedBy(call[c])'
      BY <1>2, <2>1 DEF SavedBy, r
    <2> QED BY <2>3, <2>4 DEF Saved
  <1>9. Asked'
    BY <1>2, <1>u DEF Asked, AskedOf, r
  <1>10. f \notin Settled
    BY <1>5 DEF Fresh
  <1>11. Erased'
    <2>1. ASSUME NEW e \in Calls, call[e].op = "delete"
          PROVE  call[e].file # f /\ call[e].file \in Files
      BY <1>10, <2>1 DEF Asked, AskedOf, Settled, Shape, WellFormed
    <2> QED BY <1>2, <1>3, <1>5, <1>u, <2>1 DEF Erased, ErasedBy, r
  <1>12. RecordedIsComplete'
    <2>1. \A g \in Recorded : g \in Files /\ g # f
      BY <1>10 DEF Recorded, Settled
    <2> QED BY <1>3, <1>5, <1>u, <2>1 DEF RecordedIsComplete, Complete
  <1>13. Final'
    BY <1>1, <1>2, <1>5, <1>u DEF Final, Dooms
  <1>14. Accounted'
    BY <1>2, <1>3, <1>5, <1>u DEF Accounted, NotPending, r
  <1>15. Stale'
    BY <1>1, <1>2, <1>5, <1>u DEF Stale, Loads, Unlists, r
  <1> QED BY <1>4, <1>6, <1>7, <1>8, <1>9, <1>11, <1>12, <1>13, <1>14, <1>15

LEMMA SaveMetadataStep ==
  ASSUME IInv, NEW c \in Calls, SaveMetadata(c)
  PROVE  IInv'
  <1> USE DEF IInv
  <1> DEFINE r == call'[c]
             f == call[c].file
  <1>1. /\ call[c] \in Call /\ call[c].op = "upload" /\ call[c].at = "meta"
        /\ f \in Files \ call[c].rest /\ call[c].step = 1
        /\ shards[f] = Shards
    BY DEF SaveMetadata, At, TypeOK, Shape, WellFormed, Saved, SavedBy
  <1>2. /\ \A e \in Calls : e # c => call'[e] = call[e]
        /\ call' \in [Calls -> Call]
        /\ r.op = "upload" /\ r.rest = call[c].rest /\ r.file = f
        /\ r.at = "record" /\ r.step = 1
    BY <1>1 DEF SaveMetadata, Goto, TypeOK, Call, Positions
  <1> HIDE DEF r
  <1>u. /\ meta' = meta \cup {f}
        /\ UNCHANGED <<shards, record, folders, list, folderList, born,
                       condemned, swept, cut, swallowed>>
    BY DEF SaveMetadata, history
  <1>3. TypeOK'
    BY <1>1, <1>2, <1>u DEF TypeOK
  <1>4. /\ Pending(r) = Pending(call[c]) /\ Recorded' = Recorded
        /\ Settled' = Settled /\ Spoiled' = Spoiled
        /\ f \in Pending(call[c])
    BY <1>1, <1>2, <1>u DEF Pending, Recorded, Settled, Listed, Spoiled
  <1> HIDE DEF f
  <1>5. Shape'
    <2>1. WellFormed(r)
      BY <1>1, <1>2 DEF WellFormed
    <2> QED BY <1>2, <2>1 DEF Shape, r
  <1>6. Fresh'
    BY <1>2, <1>4, <1>u DEF Fresh, r
  <1>7. Saved' /\ Asked'
    BY <1>1, <1>2, <1>u DEF Saved, SavedBy, Asked, AskedOf, r
  <1>8. f \notin Settled
    BY <1>4 DEF Fresh
  <1>9. Erased'
    <2>1. ASSUME NEW e \in Calls, call[e].op = "delete"
          PROVE  call[e].file # f
      BY <1>8, <2>1 DEF Asked, AskedOf, Settled
    <2> QED BY <1>2, <1>4, <1>u, <2>1 DEF Erased, ErasedBy, r
  <1>10. RecordedIsComplete'
    BY <1>4, <1>u DEF RecordedIsComplete, Complete
  <1>11. Final'
    BY <1>1, <1>2, <1>4, <1>u DEF Final, Dooms
  <1>12. Accounted'
    BY <1>2, <1>4, <1>u DEF Accounted, NotPending, r
  <1>13. Stale'
    BY <1>1, <1>2, <1>4, <1>u DEF Stale, Loads, Unlists, r
  <1> QED BY <1>3, <1>5, <1>6, <1>7, <1>9, <1>10, <1>11, <1>12, <1>13

LEMMA SaveRecordStep ==
  ASSUME IInv, NEW c \in Calls, SaveRecord(c)
  PROVE  IInv'
  <1> USE DEF IInv
  <1> DEFINE r == call'[c]
             f == call[c].file
  <1>1. /\ call[c] \in Call /\ call[c].op = "upload" /\ call[c].at = "record"
        /\ f \in Files \ call[c].rest /\ call[c].step = 1
        /\ Complete(f)
    BY DEF SaveRecord, At, TypeOK, Shape, WellFormed, Saved, SavedBy, Complete
  <1>2. /\ \A e \in Calls : e # c => call'[e] = call[e]
        /\ call' \in [Calls -> Call]
        /\ r.op = "upload" /\ r.rest = call[c].rest /\ r.file = f
        /\ r.at = "next" /\ r.step = 1
    BY <1>1 DEF SaveRecord, Goto, TypeOK, Call, Positions
  <1> HIDE DEF r
  <1>u. /\ record' = [record EXCEPT ![f] = call[c].folder]
        /\ call[c].folder \in Folders \cup {Root}
        /\ UNCHANGED <<shards, meta, folders, list, folderList, born,
                       condemned, swept, cut, swallowed>>
    BY <1>1 DEF SaveRecord, history, Call
  <1>3. TypeOK'
    BY <1>1, <1>2, <1>u DEF TypeOK
  <1>4. /\ Pending(call[c]) = Pending(r) \cup {f}
        /\ f \notin Pending(r)
        /\ Recorded' = Recorded \cup {f}
        /\ Settled' = Settled \cup {f} /\ Spoiled' = Spoiled
    <2>1. Pending(call[c]) = Pending(r) \cup {f} /\ f \notin Pending(r)
      BY <1>1, <1>2 DEF Pending
    <2>2. Recorded' = Recorded \cup {f}
      BY <1>1, <1>u, VaultAssumption DEF Recorded, TypeOK
    <2> QED BY <1>u, <2>1, <2>2 DEF Settled, Listed, Spoiled
  <1> HIDE DEF f
  <1>5. Shape'
    <2>1. WellFormed(r)
      BY <1>1, <1>2 DEF WellFormed
    <2> QED BY <1>2, <2>1 DEF Shape, r
  <1>6. f \notin Settled /\ \A e \in Calls : f \notin Pending(call'[e])
    <2>1. f \notin Settled
      BY <1>4 DEF Fresh
    <2>2. ASSUME NEW e \in Calls, e # c PROVE f \notin Pending(call'[e])
      BY <1>2, <1>4, <2>2 DEF Fresh
    <2> QED BY <1>4, <2>1, <2>2 DEF r
  <1>7. Fresh'
    <2>1. Settled' \subseteq born'
      BY <1>4, <1>u DEF Fresh
    <2>2. \A e \in Calls : Pending(call'[e]) \subseteq Pending(call[e])
      BY <1>2, <1>4 DEF r
    <2>3. \A e \in Calls : Pending(call'[e]) \subseteq born' \ Settled'
      BY <1>4, <1>6, <1>u, <2>2 DEF Fresh
    <2> QED BY <2>1, <2>2, <2>3 DEF Fresh
  <1>8. Saved' /\ Asked'
    BY <1>1, <1>2, <1>u DEF Saved, SavedBy, Asked, AskedOf, r
  <1>9. Erased'
    BY <1>2, <1>4, <1>u DEF Erased, ErasedBy, r
  <1>10. RecordedIsComplete'
    BY <1>1, <1>4, <1>u DEF RecordedIsComplete, Complete
  <1>11. Final'
    <2>1. f \notin condemned
      BY <1>6 DEF Settled
    <2> QED BY <1>1, <1>2, <1>4, <1>u, <2>1 DEF Final, Dooms
  <1>12. Accounted'
    <2>1. ASSUME NEW g \in Files, g # f, NotPending(g)'
          PROVE  NotPending(g)
      BY <1>2, <1>4, <2>1 DEF NotPending, r
    <2>2. Complete(f)
      BY <1>1
    <2> QED BY <1>4, <1>u, <2>1, <2>2 DEF Accounted, Complete
  <1>13. Stale'
    <2>1. Loads(r)
      BY <1>2 DEF Loads
    <2>2. \A g, e : e \in Calls /\ Unlists(call[e], g) => Unlists(call'[e], g)
      BY <1>1, <1>2 DEF Unlists
    <2> QED BY <1>4, <1>u, <2>1, <2>2 DEF Stale, r
  <1> QED BY <1>3, <1>5, <1>7, <1>8, <1>9, <1>10, <1>11, <1>12, <1>13

LEMMA UploadReturnStep ==
  ASSUME IInv, NEW c \in Calls, UploadReturn(c)
  PROVE  IInv'
  <1> USE DEF IInv
  <1>1. /\ call[c] \in Call /\ call[c].op = "upload" /\ call[c].at = "next"
        /\ call[c].rest = {}
    BY DEF UploadReturn, At, TypeOK
  <1>2. /\ \A e \in Calls : e # c => call'[e] = call[e]
        /\ call' \in [Calls -> Call] /\ call'[c] = Idle
    BY IdleCall DEF UploadReturn, Return, TypeOK
  <1>u. /\ list' = Recorded
        /\ UNCHANGED <<shards, meta, record, folders, folderList, born,
                       condemned, swept, cut, swallowed>>
    BY DEF UploadReturn, history
  <1>3. TypeOK'
    BY <1>2, <1>u DEF TypeOK, Recorded
  <1>4. /\ Pending(call[c]) = {} /\ Pending(Idle) = {}
        /\ Recorded' = Recorded /\ Spoiled' = Spoiled
        /\ Settled' \subseteq Settled
    BY <1>1, <1>u, IdleCall DEF Pending, Recorded, Settled, Listed, Spoiled
  <1>5. Shape'
    BY <1>2, IdleCall DEF Shape, WellFormed
  <1>6. Fresh'
    BY <1>2, <1>4, <1>u DEF Fresh
  <1>7. Saved' /\ Asked' /\ Erased'
    BY <1>2, <1>4, <1>u, IdleCall
       DEF Saved, SavedBy, Asked, AskedOf, Erased, ErasedBy
  <1>8. RecordedIsComplete'
    BY <1>4, <1>u DEF RecordedIsComplete, Complete
  <1>9. Final'
    BY <1>1, <1>2, <1>4, <1>u DEF Final, Dooms
  <1>10. Accounted'
    BY <1>2, <1>4, <1>u DEF Accounted, NotPending
  <1>11. Stale'
    BY <1>4, <1>u DEF Stale
  <1> QED BY <1>3, <1>5, <1>6, <1>7, <1>8, <1>9, <1>10, <1>11

LEMMA UploadThrowsStep ==
  ASSUME IInv, NEW c \in Calls, UploadThrows(c)
  PROVE  IInv'
  <1> USE DEF IInv
  <1>1. /\ call[c] \in Call /\ call[c].op = "upload"
        /\ call[c].at \in {"pick", "shard", "meta", "record"}
    BY DEF UploadThrows, TypeOK
  <1>2. /\ \A e \in Calls : e # c => call'[e] = call[e]
        /\ call' \in [Calls -> Call] /\ call'[c] = Idle
    BY IdleCall DEF UploadThrows, Return, TypeOK
  <1>u. /\ list' = Failed /\ cut' = cut \cup FilesOf(c)
        /\ UNCHANGED <<shards, meta, record, folders, folderList, born,
                       condemned, swept, swallowed>>
    BY DEF UploadThrows
  <1>3. Pending(call[c]) \subseteq FilesOf(c) /\ FilesOf(c) \subseteq Files
    BY <1>1 DEF Pending, FilesOf, Shape, WellFormed, Call
  <1>4. TypeOK'
    BY <1>2, <1>3, <1>u DEF TypeOK
  <1>5. /\ Pending(Idle) = {} /\ Recorded' = Recorded
        /\ Spoiled' = Spoiled \cup FilesOf(c) /\ Settled' \subseteq Settled
    BY <1>u, IdleCall DEF Pending, Recorded, Settled, Listed, Spoiled
  <1>6. Shape'
    BY <1>2, IdleCall DEF Shape, WellFormed
  <1>7. Fresh'
    BY <1>2, <1>5, <1>u DEF Fresh
  <1>8. Saved' /\ Asked' /\ Erased'
    BY <1>2, <1>5, <1>u, IdleCall
       DEF Saved, SavedBy, Asked, AskedOf, Erased, ErasedBy
  <1>9. RecordedIsComplete'
    BY <1>5, <1>u DEF RecordedIsComplete, Complete
  <1>10. Final'
    BY <1>1, <1>2, <1>5, <1>u DEF Final, Dooms
  <1>11. Accounted'
    <2>1. ASSUME NEW g \in Files, NotPending(g)', g \notin Spoiled'
          PROVE  NotPending(g) /\ g \notin Spoiled
      BY <1>2, <1>3, <1>5, <2>1 DEF NotPending
    <2> QED BY <1>5, <1>u, <2>1 DEF Accounted
  <1>12. Stale'
    BY <1>u DEF Stale
  <1> QED BY <1>4, <1>6, <1>7, <1>8, <1>9, <1>10, <1>11, <1>12

-----------------------------------------------------------------------------
(* Deletions *)

LEMMA DeleteFileStep ==
  ASSUME IInv, NEW c \in Calls, NEW f \in Files, DeleteFile(c, f)
  PROVE  IInv'
  <1> USE DEF IInv
  <1> DEFINE r == call'[c]
  <1>1. /\ call[c].op = "idle" /\ f \in Listed
        /\ Pending(call[c]) = {}
    BY IdleCall DEF DeleteFile, Listed, Pending
  <1>2. /\ \A e \in Calls : e # c => call'[e] = call[e]
        /\ call' \in [Calls -> Call]
        /\ r.op = "delete" /\ r.file = f /\ r.rest = {} /\ r.step = 1
        /\ \/ f \in meta /\ r.at = "shard"
           \/ f \notin meta /\ r.at = "record2"
    BY IdleCall DEF DeleteFile, TypeOK, Idle, Call, Positions
  <1> HIDE DEF r
  <1>u. /\ condemned' = condemned \cup {f}
        /\ UNCHANGED <<shards, meta, record, folders, list, folderList,
                       born, swept, cut, swallowed>>
    BY DEF DeleteFile
  <1>3. TypeOK'
    BY <1>2, <1>u DEF TypeOK
  <1>4. /\ Pending(r) = {} /\ Recorded' = Recorded /\ Spoiled' = Spoiled
        /\ Settled' = Settled /\ NotPending(f)
    BY <1>1, <1>2, <1>u
       DEF Pending, Recorded, Settled, Listed, Spoiled, NotPending, Fresh
  <1>5. Shape'
    <2>1. WellFormed(r)
      BY <1>2 DEF WellFormed
    <2> QED BY <1>2, <2>1 DEF Shape, r
  <1>6. Fresh'
    BY <1>1, <1>2, <1>4, <1>u DEF Fresh, r
  <1>7. Saved' /\ Asked'
    BY <1>2, <1>u DEF Saved, SavedBy, Asked, AskedOf, r
  <1>8. Erased'
    <2>1. ErasedBy(call[c])'
      <3>1. \A s \in shards[f] : s \in Nat /\ s >= 1
        BY VaultAssumption DEF TypeOK, Shards
      <3>2. f \notin Spoiled /\ f \notin meta => shards[f] = {}
        BY <1>4 DEF Accounted
      <3> QED BY <1>2, <1>4, <1>u, <3>1, <3>2 DEF ErasedBy, r
    <2> QED BY <1>2, <1>4, <1>u, <2>1 DEF Erased, ErasedBy
  <1>9. RecordedIsComplete'
    BY <1>4, <1>u DEF RecordedIsComplete, Complete
  <1>10. Final'
    <2>1. Dooms(r, f)
      BY <1>2 DEF Dooms
    <2>2. \A e \in Calls, g \in Files : Dooms(call[e], g) => Dooms(call'[e], g)
      BY <1>1, <1>2 DEF Dooms
    <2> QED BY <1>4, <1>u, <2>1, <2>2 DEF Final, TypeOK, Recorded, r
  <1>11. Accounted'
    BY <1>1, <1>2, <1>4, <1>u DEF Accounted, NotPending, r
  <1>12. Stale'
    BY <1>1, <1>2, <1>4, <1>u DEF Stale, Loads, Unlists
  <1> QED BY <1>3, <1>5, <1>6, <1>7, <1>8, <1>9, <1>10, <1>11, <1>12

LEMMA DeleteShardStep ==
  ASSUME IInv, NEW c \in Calls, DeleteShard(c)
  PROVE  IInv'
  <1> USE DEF IInv
  <1> DEFINE r == call'[c]
             f == call[c].file
             s == call[c].step
  <1>1. /\ call[c] \in Call /\ call[c].op = "delete" /\ call[c].at = "shard"
        /\ f \in Files /\ s \in Shards /\ f \in condemned
        /\ shards[f] \subseteq Shards
    BY DEF DeleteShard, At, TypeOK, Shape, WellFormed, Call, Asked, AskedOf
  <1>2. /\ \A e \in Calls : e # c => call'[e] = call[e]
        /\ call' \in [Calls -> Call]
        /\ r.op = "delete" /\ r.rest = call[c].rest /\ r.file = f
        /\ \/ s = TotalShards /\ r.at = "meta" /\ r.step = 1
           \/ s # TotalShards /\ r.at = "shard" /\ r.step = s + 1
    BY <1>1, NextShardCall DEF DeleteShard
  <1> HIDE DEF r
  <1>u. /\ shards' = [shards EXCEPT ![f] = @ \ {s}]
        /\ UNCHANGED <<meta, record, folders, list, folderList, born,
                       condemned, swept, cut, swallowed>>
    BY DEF DeleteShard, history
  <1>3. /\ shards'[f] = shards[f] \ {s}
        /\ \A g \in Files : g # f => shards'[g] = shards[g]
        /\ shards' \in [Files -> SUBSET Shards]
    BY <1>1, <1>u DEF TypeOK
  <1>4. TypeOK'
    BY <1>2, <1>3, <1>u DEF TypeOK
  <1>5. /\ Pending(r) = {} /\ Pending(call[c]) = {} /\ Recorded' = Recorded
        /\ Settled' = Settled /\ Spoiled' = Spoiled /\ f \in Settled
    BY <1>1, <1>2, <1>u DEF Pending, Recorded, Settled, Listed, Spoiled
  <1> HIDE DEF f, s
  <1>6. Shape'
    <2>1. WellFormed(r)
      BY <1>1, <1>2 DEF WellFormed
    <2> QED BY <1>2, <2>1 DEF Shape, r
  <1>7. Fresh'
    BY <1>2, <1>5, <1>u DEF Fresh, r
  <1>8. Saved'
    <2>1. ASSUME NEW e \in Calls, call[e].op = "upload",
                 call[e].at \in {"shard", "meta", "record"}
          PROVE  call[e].file # f /\ call[e].file \in Files
      <3>1. call[e].file \in Pending(call[e])
        BY <2>1 DEF Pending
      <3> QED BY <1>5, <2>1, <3>1 DEF Fresh, Shape, WellFormed
    <2> QED BY <1>2, <1>3, <1>u, <2>1 DEF Saved, SavedBy, r
  <1>9. Asked'
    BY <1>1, <1>2, <1>u DEF Asked, AskedOf, r
  <1>10. Erased'
    <2>1. ASSUME NEW e \in Calls, e # c, call[e].op = "delete",
                 call[e].file \notin Spoiled
          PROVE  ErasedBy(call[e])'
      <3>1. ErasedBy(call[e]) /\ call[e].file \in Files
        BY <2>1 DEF Erased, Shape, WellFormed
      <3>2. shards'[call[e].file] \subseteq shards[call[e].file]
        BY <1>3, <3>1
      <3> QED BY <1>2, <1>5, <1>u, <2>1, <3>1, <3>2 DEF ErasedBy
    <2>2. ErasedBy(call[c])'
      <3>1. SUFFICES ASSUME f \notin Spoiled
                     PROVE  /\ r.at = "shard" => \A t \in shards'[f] : t >= r.step
                            /\ r.at = "meta" => shards'[f] = {}
        BY <1>2, <1>5, <1>u DEF ErasedBy, r
      <3>2. \A t \in shards[f] : t >= s
        BY <1>1, <3>1 DEF Erased, ErasedBy, f, s
      <3>3. \A t \in shards'[f] : t \in Nat /\ t >= s + 1 /\ t <= TotalShards
        BY <1>1, <1>3, <3>2, VaultAssumption DEF Shards
      <3>4. CASE s = TotalShards
        <4>1. r.at = "meta" /\ shards'[f] = {}
          BY <1>2, <3>3, <3>4, VaultAssumption
        <4> QED BY <4>1
      <3>5. CASE s # TotalShards
        BY <1>2, <3>3, <3>5
      <3> QED BY <3>4, <3>5
    <2>3. ASSUME NEW e \in Calls, e # c, call[e].file \in Spoiled PROVE ErasedBy(call[e])'
      BY <1>2, <1>5, <2>3 DEF ErasedBy
    <2>4. ASSUME NEW e \in Calls, e # c, call[e].op # "delete" PROVE ErasedBy(call[e])'
      BY <1>2, <2>4 DEF ErasedBy
    <2> QED BY <2>1, <2>2, <2>3, <2>4 DEF Erased
  <1>11. RecordedIsComplete'
    BY <1>1, <1>3, <1>5, <1>u DEF RecordedIsComplete, Complete, Recorded
  <1>12. Final'
    BY <1>1, <1>2, <1>5, <1>u DEF Final, Dooms, r, f
  <1>13. Accounted'
    <2>1. \A g \in Files : shards'[g] \subseteq shards[g]
      BY <1>1, <1>3
    <2>2. ASSUME NEW g \in Files, NotPending(g)' PROVE NotPending(g)
      BY <1>2, <1>5, <2>2 DEF NotPending
    <2> QED BY <1>5, <1>u, <2>1, <2>2 DEF Accounted
  <1>14. Stale'
    BY <1>1, <1>2, <1>5, <1>u DEF Stale, Loads, Unlists
  <1> QED BY <1>4, <1>6, <1>7, <1>8, <1>9, <1>10, <1>11, <1>12, <1>13, <1>14

LEMMA DeleteMetadataStep ==
  ASSUME IInv, NEW c \in Calls, DeleteMetadata(c)
  PROVE  IInv'
  <1> USE DEF IInv
  <1> DEFINE r == call'[c]
             f == call[c].file
  <1>1. /\ call[c] \in Call /\ call[c].op = "delete" /\ call[c].at = "meta"
        /\ f \in Files /\ f \in condemned
    BY DEF DeleteMetadata, At, TypeOK, Shape, WellFormed, Asked, AskedOf
  <1>2. /\ \A e \in Calls : e # c => call'[e] = call[e]
        /\ call' \in [Calls -> Call]
        /\ r.op = "delete" /\ r.rest = call[c].rest /\ r.file = f
        /\ r.at = "record"
    BY <1>1 DEF DeleteMetadata, Goto, TypeOK, Call, Positions
  <1> HIDE DEF r
  <1>u. /\ meta' = meta \ {f}
        /\ UNCHANGED <<shards, record, folders, list, folderList, born,
                       condemned, swept, cut, swallowed>>
    BY DEF DeleteMetadata, history
  <1>3. TypeOK'
    BY <1>2, <1>u DEF TypeOK
  <1>4. /\ Pending(r) = {} /\ Pending(call[c]) = {} /\ Recorded' = Recorded
        /\ Settled' = Settled /\ Spoiled' = Spoiled /\ f \in Settled
    BY <1>1, <1>2, <1>u DEF Pending, Recorded, Settled, Listed, Spoiled
  <1>5. f \notin Spoiled => shards[f] = {}
    BY <1>1 DEF Erased, ErasedBy
  <1> HIDE DEF f
  <1>6. Shape'
    <2>1. WellFormed(r)
      BY <1>1, <1>2 DEF WellFormed
    <2> QED BY <1>2, <2>1 DEF Shape, r
  <1>7. Fresh'
    BY <1>2, <1>4, <1>u DEF Fresh, r
  <1>8. Saved'
    <2>1. ASSUME NEW e \in Calls, call[e].op = "upload", call[e].at = "record"
          PROVE  call[e].file # f
      <3>1. call[e].file \in Pending(call[e])
        BY <2>1 DEF Pending
      <3> QED BY <1>4, <2>1, <3>1 DEF Fresh
    <2> QED BY <1>2, <1>u, <2>1 DEF Saved, SavedBy, r
  <1>9. Asked'
    BY <1>1, <1>2, <1>u DEF Asked, AskedOf, r
  <1>10. Erased'
    BY <1>2, <1>4, <1>5, <1>u DEF Erased, ErasedBy, r
  <1>11. RecordedIsComplete'
    BY <1>1, <1>4, <1>u DEF RecordedIsComplete, Complete
  <1>12. Final'
    BY <1>1, <1>2, <1>4, <1>u DEF Final, Dooms, r, f
  <1>13. Accounted'
    <2>1. ASSUME NEW g \in Files, NotPending(g)' PROVE NotPending(g)
      BY <1>2, <1>4, <2>1 DEF NotPending
    <2> QED BY <1>4, <1>5, <1>u, <2>1 DEF Accounted
  <1>14. Stale'
    BY <1>1, <1>2, <1>4, <1>u DEF Stale, Loads, Unlists
  <1> QED BY <1>3, <1>6, <1>7, <1>8, <1>9, <1>10, <1>11, <1>12, <1>13, <1>14

LEMMA DeleteRecordStep ==
  ASSUME IInv, NEW c \in Calls, DeleteRecord(c)
  PROVE  IInv'
  <1> USE DEF IInv
  <1> DEFINE r == call'[c]
             f == call[c].file
  <1>1. /\ call[c] \in Call /\ call[c].op = "delete"
        /\ call[c].at \in {"record", "record2"}
        /\ f \in Files /\ f \in condemned
        /\ f \notin Spoiled => shards[f] = {} /\ f \notin meta
    BY DEF DeleteRecord, TypeOK, Shape, WellFormed, Asked, AskedOf, Erased, ErasedBy
  <1>2. /\ \A e \in Calls : e # c => call'[e] = call[e]
        /\ call' \in [Calls -> Call]
        /\ r.op = "delete" /\ r.rest = call[c].rest /\ r.file = f
        /\ \/ call[c].at = "record" /\ r.at = "record2"
           \/ call[c].at = "record2" /\ r.at = "list"
    BY <1>1 DEF DeleteRecord, Goto, TypeOK, Call, Positions
  <1> HIDE DEF r
  <1>u. /\ record' = [record EXCEPT ![f] = NoRecord]
        /\ UNCHANGED <<shards, meta, folders, list, folderList, born,
                       condemned, swept, cut, swallowed>>
    BY DEF DeleteRecord, history
  <1>3. TypeOK'
    BY <1>2, <1>u DEF TypeOK
  <1>4. /\ Pending(r) = {} /\ Pending(call[c]) = {}
        /\ Recorded' = Recorded \ {f} /\ f \in Settled
        /\ Settled' \subseteq Settled /\ Spoiled' = Spoiled
    <2>1. Recorded' = Recorded \ {f}
      BY <1>1, <1>u DEF Recorded, TypeOK
    <2> QED BY <1>1, <1>2, <1>u, <2>1 DEF Pending, Settled, Listed, Spoiled
  <1> HIDE DEF f
  <1>5. Shape'
    <2>1. WellFormed(r)
      BY <1>1, <1>2 DEF WellFormed
    <2> QED BY <1>2, <2>1 DEF Shape, r
  <1>6. Fresh'
    BY <1>2, <1>4, <1>u DEF Fresh, r
  <1>7. Saved' /\ Asked'
    BY <1>1, <1>2, <1>u DEF Saved, SavedBy, Asked, AskedOf, r
  <1>8. Erased'
    BY <1>1, <1>2, <1>4, <1>u DEF Erased, ErasedBy, r
  <1>9. RecordedIsComplete'
    BY <1>4, <1>u DEF RecordedIsComplete, Complete
  <1>10. Final'
    <2>1. \A e \in Calls, g \in Files \ {f} : Dooms(call[e], g) => Dooms(call'[e], g)
      BY <1>1, <1>2 DEF Dooms, f
    <2> QED BY <1>4, <1>u, <2>1 DEF Final, Recorded
  <1>11. Accounted'
    <2>1. ASSUME NEW g \in Files, NotPending(g)' PROVE NotPending(g)
      BY <1>2, <1>4, <2>1 DEF NotPending
    <2> QED BY <1>1, <1>4, <1>u, <2>1 DEF Accounted
  <1>12. Stale'
    <2>1. \A e \in Calls, g \in Files : Unlists(call[e], g) => Unlists(call'[e], g)
      BY <1>1, <1>2 DEF Unlists, f, r
    <2>2. \A e \in Calls : Loads(call[e]) => Loads(call'[e])
      BY <1>1, <1>2 DEF Loads
    <2>3. Unlists(r, f)
      BY <1>2 DEF Unlists
    <2> QED BY <1>4, <1>u, <2>1, <2>2, <2>3 DEF Stale, r
  <1> QED BY <1>3, <1>5, <1>6, <1>7, <1>8, <1>9, <1>10, <1>11, <1>12

LEMMA DeleteReturnStep ==
  ASSUME IInv, NEW c \in Calls, DeleteReturn(c)
  PROVE  IInv'
  <1> USE DEF IInv
  <1>1. call[c].op = "delete" /\ call[c].at = "list"
    BY DEF DeleteReturn, At
  <1>2. /\ \A e \in Calls : e # c => call'[e] = call[e]
        /\ call' \in [Calls -> Call] /\ call'[c] = Idle
    BY IdleCall DEF DeleteReturn, Return, TypeOK
  <1>u. /\ list' = Recorded
        /\ UNCHANGED <<shards, meta, record, folders, folderList, born,
                       condemned, swept, cut, swallowed>>
    BY DEF DeleteReturn, history
  <1>3. TypeOK'
    BY <1>2, <1>u DEF TypeOK, Recorded
  <1>4. /\ Pending(call[c]) = {} /\ Pending(Idle) = {}
        /\ Recorded' = Recorded /\ Spoiled' = Spoiled
        /\ Settled' \subseteq Settled
    BY <1>1, <1>u, IdleCall DEF Pending, Recorded, Settled, Listed, Spoiled
  <1>5. Shape'
    BY <1>2, IdleCall DEF Shape, WellFormed
  <1>6. Fresh'
    BY <1>2, <1>4, <1>u DEF Fresh
  <1>7. Saved' /\ Asked' /\ Erased'
    BY <1>2, <1>4, <1>u, IdleCall
       DEF Saved, SavedBy, Asked, AskedOf, Erased, ErasedBy
  <1>8. RecordedIsComplete'
    BY <1>4, <1>u DEF RecordedIsComplete, Complete
  <1>9. Final'
    BY <1>1, <1>2, <1>4, <1>u DEF Final, Dooms
  <1>10. Accounted'
    BY <1>2, <1>4, <1>u DEF Accounted, NotPending
  <1>11. Stale'
    BY <1>4, <1>u DEF Stale
  <1> QED BY <1>3, <1>5, <1>6, <1>7, <1>8, <1>9, <1>10, <1>11

LEMMA DeleteThrowsStep ==
  ASSUME IInv, NEW c \in Calls, DeleteThrows(c)
  PROVE  IInv'
  <1> USE DEF IInv
  <1> DEFINE r == call'[c]
             f == call[c].file
  <1>1. /\ call[c] \in Call /\ call[c].op = "delete"
        /\ call[c].at \in {"shard", "meta", "record", "record2"}
        /\ call[c].at = "record2" => f \in Recorded
        /\ f \in Files /\ f \in condemned /\ f \in FilesOf(c)
        /\ FilesOf(c) \subseteq Files
    BY DEF DeleteThrows, DeleteCanFail, TypeOK, Shape, WellFormed, Asked, AskedOf,
           FilesOf, Call
  <1>2. /\ \A e \in Calls : e # c => call'[e] = call[e]
        /\ call' \in [Calls -> Call]
        /\ \/ /\ call[c].at = "record2" /\ r = Idle
              /\ cut' = cut \cup FilesOf(c) /\ swallowed' = swallowed
           \/ /\ call[c].at # "record2" /\ cut' = cut
              /\ swallowed' = swallowed \cup FilesOf(c)
              /\ r.op = "delete" /\ r.rest = call[c].rest /\ r.file = f
              /\ r.at = "record2" /\ r.step = call[c].step
    BY <1>1, IdleCall DEF DeleteThrows, Return, Goto, TypeOK, Call, Positions
  <1> HIDE DEF r
  <1>u. UNCHANGED <<shards, meta, record, folders, list, folderList, born,
                    condemned, swept>>
    BY DEF DeleteThrows
  <1>3. TypeOK'
    BY <1>1, <1>2, <1>u DEF TypeOK
  <1>4. /\ Pending(r) = {} /\ Pending(call[c]) = {} /\ Recorded' = Recorded
        /\ Settled' = Settled /\ Spoiled' = Spoiled \cup FilesOf(c)
    BY <1>1, <1>2, <1>u, IdleCall DEF Pending, Recorded, Settled, Listed, Spoiled
  <1> HIDE DEF f
  <1>5. Shape'
    <2>1. WellFormed(r)
      BY <1>1, <1>2, IdleCall DEF WellFormed
    <2> QED BY <1>2, <2>1 DEF Shape, r
  <1>6. Fresh'
    BY <1>2, <1>4, <1>u DEF Fresh, r
  <1>7. Saved' /\ Asked'
    BY <1>1, <1>2, <1>u, IdleCall DEF Saved, SavedBy, Asked, AskedOf, r
  <1>8. Erased'
    BY <1>1, <1>2, <1>4, <1>u, IdleCall DEF Erased, ErasedBy, r
  <1>9. RecordedIsComplete'
    BY <1>4, <1>u DEF RecordedIsComplete, Complete
  <1>10. Final'
    <2>1. \A e \in Calls, g \in Files :
            Dooms(call[e], g) => Dooms(call'[e], g) \/ g \in cut'
      BY <1>1, <1>2 DEF Dooms, r, f
    <2> QED BY <1>2, <1>4, <1>u, <2>1 DEF Final, Recorded
  <1>11. Accounted'
    <2>1. ASSUME NEW g \in Files, NotPending(g)' PROVE NotPending(g)
      BY <1>2, <1>4, <2>1 DEF NotPending
    <2> QED BY <1>4, <1>u, <2>1 DEF Accounted
  <1>12. Stale'
    <2>1. \A e \in Calls, g \in Files \ Recorded :
            Unlists(call[e], g) => Unlists(call'[e], g)
      BY <1>1, <1>2 DEF Unlists, f
    <2>2. \A e \in Calls : Loads(call[e]) => Loads(call'[e])
      BY <1>1, <1>2 DEF Loads
    <2> QED BY <1>4, <1>u, <2>1, <2>2 DEF Stale
  <1> QED BY <1>3, <1>5, <1>6, <1>7, <1>8, <1>9, <1>10, <1>11, <1>12

-----------------------------------------------------------------------------
(* Folders *)

LEMMA CreateFolderStep ==
  ASSUME IInv, NEW c \in Calls, NEW d \in Folders, CreateFolder(c, d)
  PROVE  IInv'
  <1> USE DEF IInv
  <1> DEFINE r == call'[c]
  <1>1. call[c].op = "idle"
    BY IdleCall DEF CreateFolder
  <1>2. /\ \A e \in Calls : e # c => call'[e] = call[e]
        /\ call' \in [Calls -> Call]
        /\ r.op = "mkdir"
    BY IdleCall DEF CreateFolder, TypeOK, Idle, Call, Positions
  <1> HIDE DEF r
  <1>u. /\ born' = born \cup {d} /\ folders' = folders \cup {d}
        /\ UNCHANGED <<shards, meta, record, list, folderList,
                       condemned, swept, cut, swallowed>>
    BY DEF CreateFolder
  <1>3. TypeOK'
    BY <1>2, <1>u DEF TypeOK
  <1>4. /\ Pending(r) = {} /\ Pending(call[c]) = {} /\ Recorded' = Recorded
        /\ Settled' = Settled /\ Spoiled' = Spoiled
    BY <1>1, <1>2, <1>u DEF Pending, Recorded, Settled, Listed, Spoiled
  <1>5. Shape'
    BY <1>2 DEF Shape, WellFormed, r
  <1>6. Fresh'
    BY <1>2, <1>4, <1>u DEF Fresh, r
  <1>7. Saved' /\ Asked' /\ Erased'
    BY <1>2, <1>4, <1>u DEF Saved, SavedBy, Asked, AskedOf, Erased, ErasedBy, r
  <1>8. RecordedIsComplete'
    BY <1>4, <1>u DEF RecordedIsComplete, Complete
  <1>9. Final'
    BY <1>1, <1>2, <1>4, <1>u DEF Final, Dooms
  <1>10. Accounted'
    BY <1>2, <1>4, <1>u DEF Accounted, NotPending, r
  <1>11. Stale'
    BY <1>1, <1>2, <1>4, <1>u DEF Stale, Loads, Unlists
  <1> QED BY <1>3, <1>5, <1>6, <1>7, <1>8, <1>9, <1>10, <1>11

LEMMA DeleteFolderStep ==
  ASSUME IInv, NEW c \in Calls, NEW d \in Folders, DeleteFolder(c, d)
  PROVE  IInv'
  <1> USE DEF IInv
  <1> DEFINE r == call'[c]
  <1>1. call[c].op = "idle"
    BY IdleCall DEF DeleteFolder
  <1>2. /\ \A e \in Calls : e # c => call'[e] = call[e]
        /\ call' \in [Calls -> Call]
        /\ r.op = "rmdir" /\ r.at = "start" /\ r.rest = {}
    BY IdleCall DEF DeleteFolder, TypeOK, Idle, Call, Positions
  <1> HIDE DEF r
  <1>u. /\ folders' = folders \ {d}
        /\ UNCHANGED <<shards, meta, record, list, folderList, born,
                       condemned, swept, cut, swallowed>>
    BY DEF DeleteFolder, history
  <1>3. TypeOK'
    BY <1>2, <1>u DEF TypeOK
  <1>4. /\ Pending(r) = {} /\ Pending(call[c]) = {} /\ Recorded' = Recorded
        /\ Settled' = Settled /\ Spoiled' = Spoiled
    BY <1>1, <1>2, <1>u DEF Pending, Recorded, Settled, Listed, Spoiled
  <1>5. Shape'
    BY <1>2 DEF Shape, WellFormed, r
  <1>6. Fresh'
    BY <1>2, <1>4, <1>u DEF Fresh, r
  <1>7. Saved' /\ Asked' /\ Erased'
    BY <1>2, <1>4, <1>u DEF Saved, SavedBy, Asked, AskedOf, Erased, ErasedBy, r
  <1>8. RecordedIsComplete'
    BY <1>4, <1>u DEF RecordedIsComplete, Complete
  <1>9. Final'
    BY <1>1, <1>2, <1>4, <1>u DEF Final, Dooms
  <1>10. Accounted'
    BY <1>2, <1>4, <1>u DEF Accounted, NotPending, r
  <1>11. Stale'
    BY <1>1, <1>2, <1>4, <1>u DEF Stale, Loads, Unlists
  <1> QED BY <1>3, <1>5, <1>6, <1>7, <1>8, <1>9, <1>10, <1>11

LEMMA ListFolderStep ==
  ASSUME IInv, NEW c \in Calls, ListFolder(c)
  PROVE  IInv'
  <1> USE DEF IInv
  <1> DEFINE r == call'[c]
             in == InFolder(call[c].folder)
  <1>1. /\ call[c] \in Call /\ call[c].op = "rmdir" /\ call[c].at = "start"
        /\ call[c].rest = {}
    BY DEF ListFolder, At, TypeOK, Shape, WellFormed
  <1>2. /\ \A e \in Calls : e # c => call'[e] = call[e]
        /\ call' \in [Calls -> Call]
        /\ r.op = "rmdir" /\ r.at = "next" /\ r.rest = in
    BY <1>1 DEF ListFolder, TypeOK, Call, Positions, InFolder
  <1>3. in \subseteq Recorded /\ in \subseteq Files
    BY <1>1, VaultAssumption DEF InFolder, Recorded, Call
  <1> HIDE DEF r
  <1>u. /\ condemned' = condemned \cup in
        /\ UNCHANGED <<shards, meta, record, folders, list, folderList, born,
                       swept, cut, swallowed>>
    BY DEF ListFolder
  <1> HIDE DEF in
  <1>4. TypeOK'
    BY <1>2, <1>3, <1>u DEF TypeOK
  <1>5. /\ Pending(r) = {} /\ Pending(call[c]) = {} /\ Recorded' = Recorded
        /\ Settled' = Settled /\ Spoiled' = Spoiled
    BY <1>1, <1>2, <1>3, <1>u DEF Pending, Recorded, Settled, Listed, Spoiled
  <1>6. Shape'
    BY <1>2 DEF Shape, WellFormed, r
  <1>7. Fresh'
    BY <1>2, <1>5, <1>u DEF Fresh, r
  <1>8. Saved' /\ Asked' /\ Erased'
    BY <1>2, <1>5, <1>u DEF Saved, SavedBy, Asked, AskedOf, Erased, ErasedBy, r
  <1>9. RecordedIsComplete'
    BY <1>5, <1>u DEF RecordedIsComplete, Complete
  <1>10. Final'
    <2>1. \A e \in Calls, g \in Files : Dooms(call[e], g) => Dooms(call'[e], g)
      BY <1>1, <1>2 DEF Dooms
    <2>2. \A g \in in : Dooms(r, g)
      BY <1>2 DEF Dooms
    <2> QED BY <1>5, <1>u, <2>1, <2>2 DEF Final, Recorded, r
  <1>11. Accounted'
    BY <1>2, <1>5, <1>u DEF Accounted, NotPending, r
  <1>12. Stale'
    BY <1>1, <1>2, <1>5, <1>u DEF Stale, Loads, Unlists
  <1> QED BY <1>4, <1>6, <1>7, <1>8, <1>9, <1>10, <1>11, <1>12

LEMMA DeleteFolderFileStep ==
  ASSUME IInv, NEW c \in Calls, NEW f \in Files, DeleteFolderFile(c, f)
  PROVE  IInv'
  <1> USE DEF IInv
  <1> DEFINE r == call'[c]
  <1>1. /\ call[c] \in Call /\ call[c].op = "rmdir" /\ call[c].at = "next"
        /\ f \in call[c].rest /\ f \in condemned
    BY DEF DeleteFolderFile, At, TypeOK, Asked, AskedOf
  <1>2. /\ \A e \in Calls : e # c => call'[e] = call[e]
        /\ call' \in [Calls -> Call]
        /\ r.op = "rmdir" /\ r.at = "next" /\ r.rest = call[c].rest \ {f}
    BY <1>1 DEF DeleteFolderFile, TypeOK, Call, Positions
  <1> HIDE DEF r
  <1>u. /\ record' = [record EXCEPT ![f] = NoRecord]
        /\ swept' = swept \cup {f}
        /\ UNCHANGED <<shards, meta, folders, list, folderList, born,
                       condemned, cut, swallowed>>
    BY DEF DeleteFolderFile
  <1>3. TypeOK'
    BY <1>2, <1>u DEF TypeOK
  <1>4. /\ Pending(r) = {} /\ Pending(call[c]) = {}
        /\ Recorded' = Recorded \ {f} /\ Settled' \subseteq Settled
        /\ Spoiled' = Spoiled
    <2>1. Recorded' = Recorded \ {f}
      BY <1>u DEF Recorded, TypeOK
    <2> QED BY <1>1, <1>2, <1>u, <2>1 DEF Pending, Settled, Listed, Spoiled
  <1>5. Shape'
    BY <1>2 DEF Shape, WellFormed, r
  <1>6. Fresh'
    BY <1>2, <1>4, <1>u DEF Fresh, r
  <1>7. Saved' /\ Asked' /\ Erased'
    BY <1>1, <1>2, <1>4, <1>u
       DEF Saved, SavedBy, Asked, AskedOf, Erased, ErasedBy, r
  <1>8. RecordedIsComplete'
    BY <1>4, <1>u DEF RecordedIsComplete, Complete
  <1>9. Final'
    <2>1. \A e \in Calls, g \in Files \ {f} : Dooms(call[e], g) => Dooms(call'[e], g)
      BY <1>1, <1>2 DEF Dooms, r
    <2> QED BY <1>4, <1>u, <2>1 DEF Final, Recorded
  <1>10. Accounted'
    <2>1. ASSUME NEW g \in Files, NotPending(g)' PROVE NotPending(g)
      BY <1>2, <1>4, <2>1 DEF NotPending
    <2> QED BY <1>4, <1>u, <2>1 DEF Accounted
  <1>11. Stale'
    <2>1. \A e \in Calls, g \in Files : Unlists(call[e], g) => Unlists(call'[e], g)
      BY <1>1, <1>2 DEF Unlists
    <2>2. \A e \in Calls : Loads(call[e]) => Loads(call'[e])
      BY <1>1, <1>2 DEF Loads
    <2> QED BY <1>4, <1>u, <2>1, <2>2 DEF Stale
  <1> QED BY <1>3, <1>5, <1>6, <1>7, <1>8, <1>9, <1>10, <1>11

LEMMA FolderReturnStep ==
  ASSUME IInv, NEW c \in Calls, FolderReturn(c)
  PROVE  IInv'
  <1> USE DEF IInv
  <1>1. \/ call[c].op = "rmdir" /\ call[c].rest = {}
        \/ call[c].op = "mkdir"
    BY DEF FolderReturn, At
  <1>2. /\ \A e \in Calls : e # c => call'[e] = call[e]
        /\ call' \in [Calls -> Call] /\ call'[c] = Idle
    BY IdleCall DEF FolderReturn, Return, TypeOK
  <1>u. /\ folderList' = folders
        /\ UNCHANGED <<shards, meta, record, folders, list, born,
                       condemned, swept, cut, swallowed>>
    BY DEF FolderReturn, history
  <1>3. TypeOK'
    BY <1>2, <1>u DEF TypeOK
  <1>4. /\ Pending(call[c]) = {} /\ Pending(Idle) = {}
        /\ Recorded' = Recorded /\ Spoiled' = Spoiled /\ Settled' = Settled
    BY <1>1, <1>u, IdleCall DEF Pending, Recorded, Settled, Listed, Spoiled
  <1>5. Shape'
    BY <1>2, IdleCall DEF Shape, WellFormed
  <1>6. Fresh'
    BY <1>2, <1>4, <1>u DEF Fresh
  <1>7. Saved' /\ Asked' /\ Erased'
    BY <1>2, <1>4, <1>u, IdleCall
       DEF Saved, SavedBy, Asked, AskedOf, Erased, ErasedBy
  <1>8. RecordedIsComplete'
    BY <1>4, <1>u DEF RecordedIsComplete, Complete
  <1>9. Final'
    BY <1>1, <1>2, <1>4, <1>u DEF Final, Dooms
  <1>10. Accounted'
    BY <1>2, <1>4, <1>u DEF Accounted, NotPending
  <1>11. Stale'
    BY <1>1, <1>2, <1>4, <1>u DEF Stale, Loads, Unlists
  <1> QED BY <1>3, <1>5, <1>6, <1>7, <1>8, <1>9, <1>10, <1>11

LEMMA FolderThrowsStep ==
  ASSUME IInv, NEW c \in Calls, FolderThrows(c)
  PROVE  IInv'
  <1> USE DEF IInv
  <1>1. call[c] \in Call /\ call[c].op = "rmdir" /\ call[c].at = "next"
    BY DEF FolderThrows, At, TypeOK
  <1>2. /\ \A e \in Calls : e # c => call'[e] = call[e]
        /\ call' \in [Calls -> Call] /\ call'[c] = Idle
    BY IdleCall DEF FolderThrows, Return, TypeOK
  <1>u. /\ cut' = cut \cup FilesOf(c)
        /\ UNCHANGED <<shards, meta, record, folders, list, folderList, born,
                       condemned, swept, swallowed>>
    BY DEF FolderThrows
  <1>3. /\ Pending(call[c]) = {} /\ Pending(Idle) = {}
        /\ FilesOf(c) \subseteq Files /\ call[c].rest \subseteq FilesOf(c)
        /\ Recorded' = Recorded /\ Settled' = Settled
        /\ Spoiled' = Spoiled \cup FilesOf(c)
    BY <1>1, <1>u, IdleCall
       DEF Pending, Recorded, Settled, Listed, Spoiled, FilesOf, Call
  <1>4. TypeOK'
    BY <1>2, <1>3, <1>u DEF TypeOK
  <1>5. Shape'
    BY <1>2, IdleCall DEF Shape, WellFormed
  <1>6. Fresh'
    BY <1>2, <1>3, <1>u DEF Fresh
  <1>7. Saved' /\ Asked' /\ Erased'
    BY <1>2, <1>3, <1>u, IdleCall
       DEF Saved, SavedBy, Asked, AskedOf, Erased, ErasedBy
  <1>8. RecordedIsComplete'
    BY <1>3, <1>u DEF RecordedIsComplete, Complete
  <1>9. Final'
    <2>1. \A e \in Calls, g \in Files :
            Dooms(call[e], g) => Dooms(call'[e], g) \/ g \in cut'
      BY <1>1, <1>2, <1>3, <1>u DEF Dooms
    <2> QED BY <1>3, <1>u, <2>1 DEF Final, Recorded
  <1>10. Accounted'
    BY <1>2, <1>3, <1>u DEF Accounted, NotPending
  <1>11. Stale'
    BY <1>1, <1>2, <1>3, <1>u DEF Stale, Loads, Unlists
  <1> QED BY <1>4, <1>5, <1>6, <1>7, <1>8, <1>9, <1>10, <1>11

-----------------------------------------------------------------------------
(* The theorems *)

LEMMA RestartStep ==
  ASSUME IInv, Restart
  PROVE  IInv'
  <1> USE DEF IInv
  <1>1. /\ call' \in [Calls -> Call] /\ \A e \in Calls : call'[e] = Idle
    BY IdleCall DEF Restart
  <1>2. /\ \A e \in Calls : FilesOf(e) \subseteq Files /\ FilesOf(e) \subseteq cut'
        /\ cut \subseteq cut' /\ cut' \subseteq Files
    <2>1. \A e \in Calls : FilesOf(e) \subseteq Files
      BY DEF FilesOf, TypeOK, Call
    <2> QED BY <2>1 DEF Restart, TypeOK
  <1>u. /\ list' = Recorded /\ folderList' = folders
        /\ UNCHANGED <<shards, meta, record, folders, born, condemned, swept,
                       swallowed>>
    BY DEF Restart
  <1>3. TypeOK'
    BY <1>1, <1>2, <1>u DEF TypeOK, Recorded
  <1>4. /\ Pending(Idle) = {} /\ Recorded' = Recorded
        /\ Settled' \subseteq Settled /\ Spoiled \subseteq Spoiled'
    BY <1>2, <1>u, IdleCall DEF Pending, Recorded, Settled, Listed, Spoiled
  <1>5. Shape'
    BY <1>1, IdleCall DEF Shape, WellFormed
  <1>6. Fresh'
    BY <1>1, <1>4, <1>u DEF Fresh
  <1>7. Saved' /\ Asked' /\ Erased'
    BY <1>1, IdleCall DEF Saved, SavedBy, Asked, AskedOf, Erased, ErasedBy
  <1>8. RecordedIsComplete'
    BY <1>4, <1>u DEF RecordedIsComplete, Complete
  <1>9. Final'
    <2>1. \A e \in Calls, g \in Files : Dooms(call[e], g) => g \in cut'
      BY <1>2 DEF Dooms, FilesOf
    <2> QED BY <1>2, <1>4, <1>u, <2>1 DEF Final, Recorded
  <1>10. Accounted'
    <2>1. ASSUME NEW g \in Files, g \notin Spoiled' PROVE NotPending(g)
      <3>1. \A e \in Calls : Pending(call[e]) \subseteq FilesOf(e)
        BY DEF Pending, FilesOf, Shape, WellFormed
      <3> QED BY <1>2, <2>1, <3>1 DEF NotPending, Spoiled
    <2> QED BY <1>4, <1>u, <2>1 DEF Accounted
  <1>11. Stale'
    BY <1>4, <1>u DEF Stale
  <1> QED BY <1>3, <1>5, <1>6, <1>7, <1>8, <1>9, <1>10, <1>11

LEMMA NextIInv == IInv /\ [Next]_vars => IInv'
  <1> SUFFICES ASSUME IInv, [Next]_vars PROVE IInv'
    OBVIOUS
  <1>1. ASSUME NEW c \in Calls, NEW d \in Folders \cup {Root}, OpenPicker(c, d)
        PROVE  IInv'
    BY <1>1, OpenPickerStep
  <1>2. ASSUME NEW c \in Calls, NEW fs \in SUBSET Files, PickFiles(c, fs)
        PROVE  IInv'
    BY <1>2, PickFilesStep
  <1>3. ASSUME NEW c \in Calls, NEW f \in Files, DeleteFile(c, f) PROVE IInv'
    BY <1>3, DeleteFileStep
  <1>4. ASSUME NEW c \in Calls, NEW d \in Folders,
               CreateFolder(c, d) \/ DeleteFolder(c, d)
        PROVE  IInv'
    BY <1>4, CreateFolderStep, DeleteFolderStep
  <1>5. ASSUME NEW c \in Calls, Progress(c) PROVE IInv'
    BY <1>5, NextUploadStep, SaveShardStep, SaveMetadataStep, SaveRecordStep,
       UploadReturnStep, DeleteShardStep, DeleteMetadataStep, DeleteRecordStep,
       DeleteReturnStep, ListFolderStep, FolderReturnStep, DeleteFolderFileStep
       DEF Progress
  <1>6. ASSUME NEW c \in Calls,
               UploadThrows(c) \/ DeleteThrows(c) \/ FolderThrows(c)
        PROVE  IInv'
    BY <1>6, UploadThrowsStep, DeleteThrowsStep, FolderThrowsStep
  <1>7. CASE Restart
    BY <1>7, RestartStep
  <1>8. CASE UNCHANGED vars
    BY <1>8 DEF vars, history, IInv, TypeOK, Shape, Fresh, Saved, SavedBy, Asked,
                RecordedIsComplete, Complete, Final, Erased, ErasedBy, Accounted,
                NotPending, Stale, Recorded, Settled, Listed, Spoiled, AskedOf
  <1> QED BY <1>1, <1>2, <1>3, <1>4, <1>5, <1>6, <1>7, <1>8 DEF Next

THEOREM Invariance == Spec => []IInv
  <1> QED BY InitIInv, NextIInv, PTL DEF Spec

\* Every state of the vault has its type, in every run of the app.
THEOREM TypeCorrect == Spec => []TypeOK
  <1>1. IInv => TypeOK
    BY DEF IInv
  <1> QED BY <1>1, Invariance, PTL

\* Whatever calls overlap, fail or are lost in a crash, a recorded file keeps
\* its metadata and all its shards until its deletion is asked for
\* (SecureStorageService.uploadFile saves the record last).
THEOREM CompleteTheorem == Spec => []RecordedIsComplete
  <1>1. IInv => RecordedIsComplete
    BY DEF IInv
  <1> QED BY <1>1, Invariance, PTL

\* No call brings back the record of a file whose deletion went to its end
\* (FilesNotifier.deleteFile and DatabaseService.deleteFolder).
THEOREM FinalTheorem == Spec => []DeletionIsFinal
  <1>1. ASSUME IInv PROVE DeletionIsFinal
    <2> SUFFICES ASSUME NEW f \in condemned \ cut, f \in Recorded,
                        \A c \in Calls : call[c].op \in {"delete", "rmdir"} =>
                                           f \notin FilesOf(c)
                 PROVE  FALSE
      BY DEF DeletionIsFinal
    <2>1. PICK c \in Calls : Dooms(call[c], f)
      BY <1>1 DEF IInv, Final
    <2>2. f \in FilesOf(c) /\ call[c].op \in {"delete", "rmdir"}
      BY <2>1 DEF Dooms, FilesOf, Recorded
    <2> QED BY <2>2
  <1> QED BY <1>1, Invariance, PTL

\* With no call in progress shards and metadata belong to a recorded file, but
\* for the files of a deleted folder, a cut call or a swallowed failure
\* (SecureStorageService.deleteFile deletes all the shards the metadata name).
THEOREM NothingLeftTheorem == Spec => []NothingLeftBehind
  <1>1. ASSUME IInv PROVE NothingLeftBehind
    <2>1. Quiet => \A f \in Files : NotPending(f)
      BY IdleCall DEF Quiet, NotPending, Pending
    <2> QED BY <1>1, <2>1 DEF IInv, NothingLeftBehind, Accounted, Spoiled
  <1> QED BY <1>1, Invariance, PTL

\* With no call in progress the list shown is the recorded files, but for those
\* of a deleted folder (FilesNotifier loads it again at the end of each call).
THEOREM FreshTheorem == Spec => []ListIsFresh
  <1>1. ASSUME IInv PROVE ListIsFresh
    <2> SUFFICES ASSUME Quiet, list # Failed PROVE list \ swept = Recorded \ swept
      BY DEF ListIsFresh
    <2>1. \A c \in Calls, f \in Files : ~Loads(call[c]) /\ ~Unlists(call[c], f)
      BY IdleCall DEF Quiet, Loads, Unlists
    <2>2. list \subseteq Files /\ Recorded \subseteq Files
      BY <1>1 DEF IInv, TypeOK, Recorded
    <2> QED BY <1>1, <2>1, <2>2 DEF IInv, Stale
  <1> QED BY <1>1, Invariance, PTL

-----------------------------------------------------------------------------
(* The vault is a catalog of files *)

\* A record is deleted only of a file whose deletion was asked for.
SweptAsked == swept \subseteq condemned

\* What the files of the catalog look like does not change.
Same == UNCHANGED <<Recorded, {f \in Files : Complete(f)}, condemned>>

LEMMA SweptNext == IInv /\ SweptAsked /\ [Next]_vars => SweptAsked'
  <1> SUFFICES ASSUME IInv, SweptAsked, [Next]_vars PROVE SweptAsked'
    OBVIOUS
  <1>1. ASSUME condemned \subseteq condemned', swept' = swept
        PROVE  SweptAsked'
    BY <1>1 DEF SweptAsked
  <1>2. ASSUME NEW c \in Calls, NEW f \in Files, DeleteFolderFile(c, f)
        PROVE  SweptAsked'
    <2>1. f \in condemned
      BY <1>2 DEF IInv, Asked, AskedOf, DeleteFolderFile, At
    <2> QED BY <1>2, <2>1 DEF SweptAsked, DeleteFolderFile
  <1>3. ASSUME NEW c \in Calls,
               \/ \E d \in Folders \cup {Root} : OpenPicker(c, d)
               \/ \E fs \in SUBSET Files : PickFiles(c, fs)
               \/ \E f \in Files : DeleteFile(c, f)
               \/ \E d \in Folders : CreateFolder(c, d) \/ DeleteFolder(c, d)
               \/ UploadThrows(c) \/ DeleteThrows(c) \/ FolderThrows(c)
        PROVE  SweptAsked'
    BY <1>1, <1>3 DEF OpenPicker, PickFiles, DeleteFile, CreateFolder,
       DeleteFolder, UploadThrows, DeleteThrows, FolderThrows, history
  <1>4. ASSUME NEW c \in Calls,
               \/ NextUpload(c) \/ SaveShard(c) \/ SaveMetadata(c)
               \/ SaveRecord(c) \/ UploadReturn(c)
               \/ DeleteShard(c) \/ DeleteMetadata(c) \/ DeleteRecord(c)
               \/ DeleteReturn(c) \/ ListFolder(c) \/ FolderReturn(c)
        PROVE  SweptAsked'
    BY <1>1, <1>4 DEF NextUpload, SaveShard, SaveMetadata, SaveRecord,
       UploadReturn, DeleteShard, DeleteMetadata, DeleteRecord, DeleteReturn,
       ListFolder, FolderReturn, history
  <1>5. CASE Restart \/ UNCHANGED vars
    BY <1>1, <1>5 DEF Restart, vars, history
  <1> QED BY <1>2, <1>3, <1>4, <1>5 DEF Next, Progress

\* What is in the boxes of a file, its record and its being complete follow.
LEMMA SameBoxes ==
  ASSUME shards' = shards, meta' = meta, record' = record, condemned' = condemned
  PROVE  Same
  BY DEF Same, Recorded, Complete

\* A file an upload is at is none of those recorded or condemned.
LEMMA UploadingIsNew ==
  ASSUME IInv, NEW c \in Calls, call[c].op = "upload",
         call[c].at \in {"shard", "meta", "record"}
  PROVE  call[c].file \in Files \ (Recorded \cup condemned)
  <1>1. call[c].file \in Pending(call[c]) /\ call[c].file \in Files
    BY DEF Pending, IInv, Shape, WellFormed
  <1> QED BY <1>1 DEF IInv, Fresh, Settled

\* A put for a file that is not listed can only make that file ready.
LEMMA PreparesStep ==
  ASSUME IInv, NEW f \in Files \ (Recorded \cup condemned),
         record' = record, condemned' = condemned,
         \A g \in Files \ {f} : Complete(g)' <=> Complete(g),
         Complete(f) => Complete(f)'
  PROVE  Catalog!Prepare(f) \/ Same
  <1> DEFINE R == {g \in Files : Complete(g)}
  <1>1. R' = R \/ R' = R \cup {f}
    OBVIOUS
  <1>2. Recorded' = Recorded
    BY DEF Recorded
  <1> QED BY <1>1, <1>2 DEF Catalog!Prepare, Same

\* A deletion of a condemned file can only spoil that file.
LEMMA SpoilsStep ==
  ASSUME IInv, NEW f \in Files \cap condemned,
         record' = record, condemned' = condemned,
         \A g \in Files \ {f} : Complete(g)' <=> Complete(g),
         Complete(f)' => Complete(f)
  PROVE  Catalog!Spoil(f) \/ Same
  <1> DEFINE R == {g \in Files : Complete(g)}
  <1>1. R' = R \/ R' = R \ {f}
    OBVIOUS
  <1>2. Recorded' = Recorded
    BY DEF Recorded
  <1> QED BY <1>1, <1>2 DEF Catalog!Spoil, Same

\* The record of a condemned file goes, if it is still there.
LEMMA WithdrawsStep ==
  ASSUME IInv, NEW f \in Files \cap condemned,
         record' = [record EXCEPT ![f] = NoRecord],
         shards' = shards, meta' = meta, condemned' = condemned
  PROVE  Catalog!Withdraw(f)
  <1>1. Recorded' = Recorded \ {f}
    BY DEF Recorded, IInv, TypeOK
  <1>2. {g \in Files : Complete(g)}' = {g \in Files : Complete(g)}
    BY DEF Complete
  <1> QED BY <1>1, <1>2 DEF Catalog!Withdraw

\* Every await of every call is a step of the catalog, or none.
LEMMA CatalogStep ==
  IInv /\ SweptAsked /\ [Next]_vars => Catalog!Next \/ Same
  <1> SUFFICES ASSUME IInv, SweptAsked, [Next]_vars PROVE Catalog!Next \/ Same
    OBVIOUS
  <1>1. ASSUME NEW c \in Calls, SaveShard(c) PROVE Catalog!Next \/ Same
    <2>1. /\ At(c, "upload", "shard")
          /\ shards' = [shards EXCEPT ![call[c].file] = @ \cup {call[c].step}]
          /\ meta' = meta /\ record' = record /\ condemned' = condemned
      BY <1>1 DEF SaveShard, history
    <2>2. PICK f \in Files \ (Recorded \cup condemned) : f = call[c].file
      BY <2>1, UploadingIsNew DEF At
    <2>3. shards \in [Files -> SUBSET Shards] /\ call[c].step \in Shards
      BY DEF IInv, TypeOK, Call
    <2>4. \A g \in Files \ {f} : Complete(g)' <=> Complete(g)
      BY <2>1, <2>2, <2>3 DEF Complete
    <2>5. Complete(f) => Complete(f)'
      BY <2>1, <2>2, <2>3 DEF Complete
    <2> QED BY <2>1, <2>2, <2>4, <2>5, PreparesStep DEF Catalog!Next
  <1>2. ASSUME NEW c \in Calls, SaveMetadata(c) PROVE Catalog!Next \/ Same
    <2>1. /\ At(c, "upload", "meta") /\ meta' = meta \cup {call[c].file}
          /\ shards' = shards /\ record' = record /\ condemned' = condemned
      BY <1>2 DEF SaveMetadata, history
    <2>2. PICK f \in Files \ (Recorded \cup condemned) : f = call[c].file
      BY <2>1, UploadingIsNew DEF At
    <2>3. \A g \in Files \ {f} : Complete(g)' <=> Complete(g)
      BY <2>1, <2>2 DEF Complete
    <2>4. Complete(f) => Complete(f)'
      BY <2>1, <2>2 DEF Complete
    <2> QED BY <2>1, <2>2, <2>3, <2>4, PreparesStep DEF Catalog!Next
  <1>3. ASSUME NEW c \in Calls, SaveRecord(c) PROVE Catalog!Next \/ Same
    <2>1. /\ At(c, "upload", "record")
          /\ record' = [record EXCEPT ![call[c].file] = call[c].folder]
          /\ shards' = shards /\ meta' = meta /\ condemned' = condemned
      BY <1>3 DEF SaveRecord, history
    <2>2. call[c].file \in Files \ (Recorded \cup condemned)
      BY <2>1, UploadingIsNew DEF At
    <2>3. Complete(call[c].file)
      BY <2>1 DEF At, IInv, Saved, SavedBy, Complete
    <2>4. Recorded' = Recorded \cup {call[c].file}
      BY <2>1, <2>2, VaultAssumption DEF Recorded, IInv, TypeOK, Call
    <2>5. {g \in Files : Complete(g)}' = {g \in Files : Complete(g)}
      BY <2>1 DEF Complete
    <2>6. Catalog!Publish(call[c].file)
      BY <2>1, <2>2, <2>3, <2>4, <2>5 DEF Catalog!Publish
    <2> QED BY <2>2, <2>6 DEF Catalog!Next
  <1>4. ASSUME NEW c \in Calls, NEW f \in Files, DeleteFile(c, f)
        PROVE  Catalog!Next \/ Same
    <2>1. /\ list # Failed /\ f \in list /\ condemned' = condemned \cup {f}
          /\ shards' = shards /\ meta' = meta /\ record' = record
      BY <1>4 DEF DeleteFile
    <2>2. f \in Recorded \/ f \in condemned
      <3>1. SUFFICES ASSUME f \notin Recorded, f \notin swept
                     PROVE  f \in condemned
        BY DEF SweptAsked
      <3>2. PICK d \in Calls : Unlists(call[d], f)
        BY <2>1, <3>1 DEF IInv, Stale
      <3> QED BY <3>2 DEF Unlists, IInv, Asked, AskedOf
    <2>3. CASE f \in condemned
      <3>1. condemned' = condemned
        BY <2>1, <2>3
      <3> QED BY <2>1, <3>1, SameBoxes
    <2>4. CASE f \in Recorded
      <3>1. Recorded' = Recorded
            /\ {g \in Files : Complete(g)}' = {g \in Files : Complete(g)}
        BY <2>1 DEF Recorded, Complete
      <3>2. Catalog!Condemn({f})
        BY <2>1, <2>4, <3>1 DEF Catalog!Condemn
      <3> QED BY <3>2 DEF Catalog!Next
    <2> QED BY <2>2, <2>3, <2>4
  <1>5. ASSUME NEW c \in Calls, DeleteShard(c) PROVE Catalog!Next \/ Same
    <2>1. /\ At(c, "delete", "shard")
          /\ shards' = [shards EXCEPT ![call[c].file] = @ \ {call[c].step}]
          /\ meta' = meta /\ record' = record /\ condemned' = condemned
      BY <1>5 DEF DeleteShard, history
    <2>2. PICK f \in Files \cap condemned : f = call[c].file
      BY <2>1 DEF At, IInv, Shape, WellFormed, Asked, AskedOf
    <2>3. shards \in [Files -> SUBSET Shards]
      BY DEF IInv, TypeOK
    <2>4. \A g \in Files \ {f} : Complete(g)' <=> Complete(g)
      BY <2>1, <2>2, <2>3 DEF Complete
    <2>5. Complete(f)' => Complete(f)
      BY <2>1, <2>2, <2>3 DEF Complete
    <2> QED BY <2>1, <2>2, <2>4, <2>5, SpoilsStep DEF Catalog!Next
  <1>6. ASSUME NEW c \in Calls, DeleteMetadata(c) PROVE Catalog!Next \/ Same
    <2>1. /\ At(c, "delete", "meta") /\ meta' = meta \ {call[c].file}
          /\ shards' = shards /\ record' = record /\ condemned' = condemned
      BY <1>6 DEF DeleteMetadata, history
    <2>2. PICK f \in Files \cap condemned : f = call[c].file
      BY <2>1 DEF At, IInv, Shape, WellFormed, Asked, AskedOf
    <2>3. \A g \in Files \ {f} : Complete(g)' <=> Complete(g)
      BY <2>1, <2>2 DEF Complete
    <2>4. Complete(f)' => Complete(f)
      BY <2>1, <2>2 DEF Complete
    <2> QED BY <2>1, <2>2, <2>3, <2>4, SpoilsStep DEF Catalog!Next
  <1>7. ASSUME NEW c \in Calls, DeleteRecord(c) PROVE Catalog!Next \/ Same
    <2>1. /\ call[c].op = "delete"
          /\ record' = [record EXCEPT ![call[c].file] = NoRecord]
          /\ shards' = shards /\ meta' = meta /\ condemned' = condemned
      BY <1>7 DEF DeleteRecord, history
    <2>2. call[c].file \in Files \cap condemned
      BY <2>1 DEF IInv, Shape, WellFormed, Asked, AskedOf
    <2> QED BY <2>1, <2>2, WithdrawsStep DEF Catalog!Next
  <1>8. ASSUME NEW c \in Calls, ListFolder(c) PROVE Catalog!Next \/ Same
    <2> DEFINE fs == InFolder(call[c].folder)
    <2>1. /\ condemned' = condemned \cup fs
          /\ shards' = shards /\ meta' = meta /\ record' = record
      BY <1>8 DEF ListFolder
    <2>2. fs \in SUBSET Files /\ fs \subseteq Recorded
      BY VaultAssumption DEF InFolder, Recorded, IInv, TypeOK, Call
    <2>3. Recorded' = Recorded
          /\ {g \in Files : Complete(g)}' = {g \in Files : Complete(g)}
      BY <2>1 DEF Recorded, Complete
    <2> HIDE DEF fs
    <2>4. Catalog!Condemn(fs)
      BY <2>1, <2>2, <2>3 DEF Catalog!Condemn
    <2> QED BY <2>2, <2>4 DEF Catalog!Next
  <1>9. ASSUME NEW c \in Calls, NEW f \in Files, DeleteFolderFile(c, f)
        PROVE  Catalog!Next \/ Same
    <2>1. /\ At(c, "rmdir", "next") /\ f \in call[c].rest
          /\ record' = [record EXCEPT ![f] = NoRecord]
          /\ shards' = shards /\ meta' = meta /\ condemned' = condemned
      BY <1>9 DEF DeleteFolderFile
    <2>2. f \in Files \cap condemned
      BY <2>1 DEF At, IInv, Asked, AskedOf
    <2> QED BY <2>1, <2>2, WithdrawsStep DEF Catalog!Next
  <1>10. ASSUME NEW c \in Calls,
                \/ \E d \in Folders \cup {Root} : OpenPicker(c, d)
                \/ \E fs \in SUBSET Files : PickFiles(c, fs)
                \/ \E d \in Folders : CreateFolder(c, d) \/ DeleteFolder(c, d)
                \/ NextUpload(c) \/ UploadReturn(c) \/ DeleteReturn(c)
                \/ FolderReturn(c)
                \/ UploadThrows(c) \/ DeleteThrows(c) \/ FolderThrows(c)
         PROVE  Same
    BY <1>10, SameBoxes DEF OpenPicker, PickFiles, CreateFolder, DeleteFolder,
       NextUpload, UploadReturn, DeleteReturn, FolderReturn, UploadThrows,
       DeleteThrows, FolderThrows, history
  <1>11. CASE Restart \/ UNCHANGED vars
    BY <1>11, SameBoxes DEF Restart, vars, history
  <1> QED BY <1>1, <1>2, <1>3, <1>4, <1>5, <1>6, <1>7, <1>8, <1>9, <1>10,
             <1>11 DEF Next, Progress

\* For any calls, files, folders, shards and faults the vault, with its awaits,
\* failing puts and restarts, behaves as the catalog: an await is one step of
\* it or nothing that can be seen (SecureStorageService, DatabaseService).
THEOREM CatalogImplemented == Spec => ImplementsCatalog
  <1>1. Init => Catalog!Init
    BY VaultAssumption DEF Init, Catalog!Init, Recorded, Complete
  <1>2. Init => SweptAsked
    BY DEF Init, SweptAsked
  <1>3. IInv /\ SweptAsked /\ [Next]_vars =>
          [Catalog!Next]_<<Recorded, {f \in Files : Complete(f)}, condemned>>
    BY CatalogStep DEF Same
  <1> QED BY <1>1, <1>2, <1>3, SweptNext, Invariance, PTL
          DEF Spec, ImplementsCatalog, Catalog!Spec

-----------------------------------------------------------------------------
(* Every call runs out of steps *)

\* A step of one call that brings it nearer its end and leaves the others.
Nearer(c) ==
  /\ StepsLeft(call'[c]) < StepsLeft(call[c])
  /\ \A d \in Calls \ {c} : call'[d] = call[d]

LEMMA PaceType ==
  /\ TotalShards \in Nat \ {0} /\ Pace \in Nat
  /\ \A n \in Nat : Pace * n \in Nat
  /\ \A n \in Nat \ {0} : Pace * (n - 1) = Pace * n - Pace
  /\ \A m, n \in Nat : m <= n => Pace * m <= Pace * n
  BY VaultAssumption DEF Pace

LEMMA StepsType ==
  ASSUME IsFiniteSet(Files), NEW r \in Call
  PROVE  /\ IsFiniteSet(r.rest) /\ Cardinality(r.rest) \in Nat
         /\ Cardinality(r.rest) <= Cardinality(Files)
         /\ Cardinality(Files) \in Nat
         /\ Ahead(r) \in Nat \ {0} /\ StepsLeft(r) \in Nat
         /\ r # Idle => StepsLeft(r) > 0
  <1>1. r.rest \subseteq Files /\ r.step \in 1 .. TotalShards
    BY DEF Call, Shards
  <1>2. /\ IsFiniteSet(r.rest) /\ Cardinality(r.rest) \in Nat
        /\ Cardinality(r.rest) <= Cardinality(Files) /\ Cardinality(Files) \in Nat
    BY <1>1, FS_Subset, FS_CardinalityType
  <1>3. /\ Pace * Cardinality(r.rest) \in Nat /\ Pace * Cardinality(Files) \in Nat
        /\ TotalShards \in Nat
    BY <1>2, PaceType
  <1>4. Ahead(r) \in Nat \ {0}
    BY <1>1, <1>3 DEF Ahead
  <1> QED BY <1>2, <1>3, <1>4 DEF StepsLeft

LEMMA ReturnNearer ==
  ASSUME IsFiniteSet(Files), TypeOK, NEW c \in Calls, call[c] # Idle, Return(c)
  PROVE  Nearer(c)
  <1>1. call'[c] = Idle /\ call[c] \in Call /\ \A d \in Calls \ {c} : call'[d] = call[d]
    BY DEF Return, TypeOK
  <1> QED BY <1>1, StepsType DEF Nearer, StepsLeft

\* An await passed with the same files left.
LEMMA AwaitNearer ==
  ASSUME IsFiniteSet(Files), NEW r \in Call, NEW s \in Call, r # Idle,
         s.rest = r.rest, Ahead(s) < Ahead(r)
  PROVE  StepsLeft(s) < StepsLeft(r)
  <1>1. /\ Ahead(r) \in Nat /\ Ahead(s) \in Nat
        /\ StepsLeft(r) \in Nat /\ StepsLeft(r) > 0
        /\ Cardinality(r.rest) \in Nat
    BY StepsType
  <1>2. Pace * Cardinality(r.rest) \in Nat
    BY <1>1, PaceType
  <1> QED BY <1>1, <1>2 DEF StepsLeft

\* A file taken off those left, at a cost of less than Pace.
LEMMA FileNearer ==
  ASSUME IsFiniteSet(Files), NEW r \in Call, NEW s \in Call, r # Idle,
         NEW f \in r.rest, s.rest = r.rest \ {f}, Ahead(s) < Ahead(r) + Pace
  PROVE  StepsLeft(s) < StepsLeft(r)
  <1> DEFINE n == Cardinality(r.rest)
  <1>1. /\ Ahead(r) \in Nat /\ Ahead(s) \in Nat /\ IsFiniteSet(r.rest)
        /\ StepsLeft(r) \in Nat /\ StepsLeft(r) > 0
        /\ n \in Nat /\ Pace \in Nat
    BY StepsType, PaceType
  <1>2. Cardinality(s.rest) = n - 1 /\ n # 0
    BY <1>1, FS_RemoveElement, FS_EmptySet
  <1>3. Pace * (n - 1) = Pace * n - Pace /\ Pace * n \in Nat
    BY <1>1, <1>2, PaceType
  <1> QED BY <1>1, <1>2, <1>3 DEF StepsLeft

LEMMA GotoNearer ==
  ASSUME IsFiniteSet(Files), TypeOK, NEW c \in Calls, call[c] # Idle,
         NEW where \in Positions, Goto(c, where),
         \/ /\ call[c].at \in {"shard", "meta"}
            /\ where \in {"record", "record2"}
         \/ call[c].at = "record" /\ where \in {"record2", "next"}
         \/ call[c].at = "record2" /\ where = "list"
  PROVE  Nearer(c)
  <1> DEFINE r == call[c]
             s == call'[c]
  <1>1. /\ r \in Call /\ s = [r EXCEPT !.at = where]
        /\ \A d \in Calls \ {c} : call'[d] = call[d]
    BY DEF Goto, TypeOK
  <1>2. /\ s \in Call /\ s.rest = r.rest /\ s.at = where
    BY <1>1 DEF Call
  <1>3. r.step \in 1 .. TotalShards /\ TotalShards \in Nat
    BY <1>1, PaceType DEF Call, Shards
  <1> HIDE DEF s
  <1>4. Ahead(s) < Ahead(r)
    BY <1>2, <1>3 DEF Ahead
  <1>5. StepsLeft(s) < StepsLeft(r)
    BY <1>1, <1>2, <1>4, AwaitNearer
  <1> QED BY <1>1, <1>5 DEF Nearer, s

LEMMA ShardNearer ==
  ASSUME IsFiniteSet(Files), TypeOK, NEW c \in Calls, call[c] # Idle,
         call[c].at = "shard", NextShard(c)
  PROVE  Nearer(c)
  <1> DEFINE r == call[c]
             s == call'[c]
  <1>1. /\ r \in Call /\ s \in Call /\ s.rest = r.rest
        /\ \A d \in Calls \ {c} : call'[d] = call[d]
        /\ \/ s.at = "meta"
           \/ s.at = "shard" /\ s.step = r.step + 1
    BY NextShardCall DEF TypeOK
  <1>2. r.step \in 1 .. TotalShards /\ s.step \in 1 .. TotalShards /\ TotalShards \in Nat
    BY <1>1, PaceType DEF Call, Shards
  <1> HIDE DEF s
  <1>3. Ahead(s) < Ahead(r)
    BY <1>1, <1>2 DEF Ahead
  <1>4. StepsLeft(s) < StepsLeft(r)
    BY <1>1, <1>3, AwaitNearer
  <1> QED BY <1>1, <1>4 DEF Nearer, s

\* Each await of a call, and each exception that ends it, is a step nearer.
LEMMA ProgressNearer ==
  ASSUME IsFiniteSet(Files), IInv, NEW c \in Calls,
         call[c] # Idle, call[c].at # "pick",
         Progress(c) \/ UploadThrows(c) \/ DeleteThrows(c) \/ FolderThrows(c)
  PROVE  Nearer(c)
  <1>t. /\ TypeOK /\ call[c] \in Call /\ call \in [Calls -> Call]
        /\ IsFiniteSet(call[c].rest) /\ Positions # {}
    BY StepsType DEF IInv, TypeOK, Positions
  <1>1. CASE NextUpload(c)
    <2>1. PICK f \in call[c].rest :
            call' = [call EXCEPT ![c].file = f, ![c].rest = @ \ {f}, ![c].at = "shard"]
      BY <1>1 DEF NextUpload
    <2> DEFINE r == call[c]
               s == [r EXCEPT !.file = f, !.rest = @ \ {f}, !.at = "shard"]
    <2>2. call'[c] = s /\ \A d \in Calls \ {c} : call'[d] = call[d]
      BY <1>t, <2>1
    <2>3. /\ s \in Call /\ s.rest = r.rest \ {f} /\ s.at = "shard"
          /\ r.at = "next"
      BY <1>t, <1>1 DEF Call, NextUpload, At, Positions
    <2>4. s.step \in 1 .. TotalShards /\ TotalShards \in Nat
      BY <2>3, PaceType DEF Call, Shards
    <2> HIDE DEF s
    <2>5. Ahead(s) < Ahead(r) + Pace
      BY <2>3, <2>4 DEF Ahead, Pace
    <2>6. StepsLeft(s) < StepsLeft(r)
      BY <1>t, <2>3, <2>5, FileNearer
    <2> QED BY <2>2, <2>6 DEF Nearer
  <1>2. CASE SaveShard(c) \/ DeleteShard(c)
    BY <1>t, <1>2, ShardNearer DEF SaveShard, DeleteShard, At
  <1>3. CASE SaveMetadata(c) \/ DeleteMetadata(c)
    BY <1>t, <1>3, GotoNearer DEF SaveMetadata, DeleteMetadata, At, Positions
  <1>4. CASE SaveRecord(c)
    BY <1>t, <1>4, GotoNearer DEF SaveRecord, At, Positions
  <1>5. CASE DeleteRecord(c)
    BY <1>t, <1>5, GotoNearer DEF DeleteRecord, Positions
  <1>6. CASE UploadReturn(c) \/ DeleteReturn(c) \/ FolderReturn(c)
             \/ UploadThrows(c) \/ FolderThrows(c)
    BY <1>t, <1>6, ReturnNearer DEF UploadReturn, DeleteReturn, FolderReturn,
       UploadThrows, FolderThrows
  <1>7. CASE DeleteThrows(c)
    <2>1. Return(c) \/ (Goto(c, "record2") /\ call[c].at \in {"shard", "meta", "record"})
      BY <1>7 DEF DeleteThrows, DeleteCanFail
    <2> QED BY <1>t, <2>1, ReturnNearer, GotoNearer DEF Positions
  <1>8. CASE ListFolder(c)
    <2> DEFINE r == call[c]
               fs == InFolder(r.folder)
               s == [r EXCEPT !.rest = fs, !.at = "next"]
    <2>1. /\ call'[c] = s /\ r.at = "start"
          /\ \A d \in Calls \ {c} : call'[d] = call[d]
      BY <1>t, <1>8 DEF ListFolder, At
    <2>2. s \in Call /\ s.rest = fs /\ s.at = "next"
      BY <1>t DEF Call, InFolder, Positions
    <2> HIDE DEF s, fs
    <2>3. /\ Cardinality(fs) \in Nat /\ Cardinality(fs) <= Cardinality(Files)
          /\ Cardinality(Files) \in Nat /\ Cardinality(r.rest) \in Nat
          /\ StepsLeft(s) \in Nat
      BY <1>t, <2>2, StepsType
    <2>4. /\ Pace * Cardinality(fs) <= Pace * Cardinality(Files)
          /\ Pace * Cardinality(fs) \in Nat /\ Pace * Cardinality(Files) \in Nat
          /\ Pace * Cardinality(r.rest) \in Nat
      BY <2>3, PaceType
    <2>5. Ahead(s) = 1 /\ Ahead(r) = 2 + Pace * Cardinality(Files)
      BY <2>1, <2>2 DEF Ahead
    <2>6. StepsLeft(s) < StepsLeft(r)
      BY <2>2, <2>4, <2>5 DEF StepsLeft
    <2> QED BY <2>1, <2>6 DEF Nearer
  <1>9. ASSUME NEW f \in Files, DeleteFolderFile(c, f)
        PROVE  Nearer(c)
    <2> DEFINE r == call[c]
               s == [r EXCEPT !.rest = @ \ {f}]
    <2>1. /\ call'[c] = s /\ f \in r.rest /\ r.at = "next"
          /\ \A d \in Calls \ {c} : call'[d] = call[d]
      BY <1>t, <1>9 DEF DeleteFolderFile, At
    <2>2. s \in Call /\ s.rest = r.rest \ {f} /\ s.at = r.at
      BY <1>t DEF Call
    <2> HIDE DEF s
    <2>3. Ahead(s) < Ahead(r) + Pace
      BY <2>1, <2>2, PaceType DEF Ahead, Pace
    <2>4. StepsLeft(s) < StepsLeft(r)
      BY <1>t, <2>1, <2>2, <2>3, FileNearer
    <2> QED BY <2>1, <2>4 DEF Nearer
  <1> QED BY <1>1, <1>2, <1>3, <1>4, <1>5, <1>6, <1>7, <1>8, <1>9 DEF Progress

LEMMA RunsOutStep ==
  ASSUME IsFiniteSet(Files), IInv, [Next]_vars, NEW c \in Calls,
         call[c] # Idle, call[c].at # "pick"
  PROVE  /\ StepsLeft(call[c])' \in Nat
         /\ Progress(c) \/ call[c]' # call[c] =>
              StepsLeft(call[c])' < StepsLeft(call[c])
  <1>1. TypeOK /\ TypeOK'
    BY NextIInv DEF IInv
  <1>2. StepsLeft(call[c]') \in Nat
    <2>1. call'[c] \in Call
      BY <1>1 DEF TypeOK
    <2> QED BY <2>1, StepsType
  <1>3. SUFFICES ASSUME Progress(c) \/ call'[c] # call[c]
                 PROVE  StepsLeft(call'[c]) < StepsLeft(call[c])
    BY <1>2
  <1>4. CASE Progress(c)
    BY <1>4, ProgressNearer DEF Nearer
  <1>5. CASE Restart
    <2>1. call'[c] = Idle /\ call[c] \in Call
      BY <1>1, <1>5 DEF Restart, TypeOK
    <2> QED BY <2>1, StepsType DEF StepsLeft
  <1>6. ASSUME NEW e \in Calls,
               Progress(e) \/ UploadThrows(e) \/ DeleteThrows(e) \/ FolderThrows(e),
               call[e] # Idle, call[e].at # "pick", call'[c] # call[c]
        PROVE  StepsLeft(call'[c]) < StepsLeft(call[c])
    BY <1>6, ProgressNearer DEF Nearer
  <1>7. ASSUME NEW e \in Calls,
               Progress(e) \/ UploadThrows(e) \/ DeleteThrows(e) \/ FolderThrows(e)
        PROVE  \/ call[e] # Idle /\ call[e].at # "pick"
               \/ call'[c] = call[c]
    <2>1. CASE UploadThrows(e) /\ call[e].at = "pick"
      BY <1>1, <2>1 DEF UploadThrows, Return, TypeOK
    <2>2. CASE ~(UploadThrows(e) /\ call[e].at = "pick")
      <3>1. call[e].op # "idle" /\ call[e].at # "pick"
        BY <1>7, <2>2
           DEF Progress, NextUpload, SaveShard, SaveMetadata, SaveRecord,
           UploadReturn, DeleteShard, DeleteMetadata, DeleteRecord, DeleteReturn,
           ListFolder, FolderReturn, DeleteFolderFile, UploadThrows, DeleteThrows,
           DeleteCanFail, FolderThrows, At
      <3> QED BY <3>1, IdleCall
    <2> QED BY <2>1, <2>2
  <1>8. ASSUME NEW e \in Calls,
               \/ \E d \in Folders \cup {Root} : OpenPicker(e, d)
               \/ \E fs \in SUBSET Files : PickFiles(e, fs)
               \/ \E f \in Files : DeleteFile(e, f)
               \/ \E d \in Folders : CreateFolder(e, d) \/ DeleteFolder(e, d)
        PROVE  call'[c] = call[c]
    BY <1>1, <1>8 DEF OpenPicker, PickFiles, DeleteFile, CreateFolder,
       DeleteFolder, At, Return, TypeOK
  <1>9. CASE UNCHANGED vars
    BY <1>3, <1>4, <1>9 DEF vars
  <1> QED BY <1>3, <1>4, <1>5, <1>6, <1>7, <1>8, <1>9 DEF Next

\* No call of the vault goes on for ever, whatever the other calls do: each of
\* its awaits, and each exception, takes from what is left of it, and no step
\* of another call adds to it.  With the fairness of the awaits this is why
\* every call returns, for any number of calls, files and shards.
THEOREM CallsEnd ==
  ASSUME IsFiniteSet(Files)
  PROVE  Spec => CallsRunOut
  <1>1. ASSUME IInv, [Next]_vars
        PROVE  [\A c \in Calls : call[c] # Idle /\ call[c].at # "pick" =>
                  /\ StepsLeft(call[c])' \in Nat
                  /\ Progress(c) \/ call[c]' # call[c] =>
                       StepsLeft(call[c])' < StepsLeft(call[c])]_vars
    BY <1>1, RunsOutStep
  <1> QED BY <1>1, Invariance, PTL DEF Spec, CallsRunOut
=============================================================================
