----------------------------- MODULE LocalVault -----------------------------
(***************************************************************************)
(* The files of the Flutter app: the shards and the metadata kept by       *)
(* SecureStorageService, the file and folder records kept by               *)
(* DatabaseService, and the lists FilesNotifier and FoldersNotifier show.  *)
(*                                                                         *)
(* Each operation is an async function of one isolate: it runs alone up to *)
(* its next await, and other calls run between two of its awaits.  A put   *)
(* or a delete of a Hive box is atomic and durable when its await ends; an *)
(* action is one such put or delete with the code that leads to it.        *)
(***************************************************************************)
EXTENDS Naturals, FiniteSets

CONSTANTS
  Calls,         \* slots for calls in progress (bound on concurrency)
  Files,         \* file ids: generateFileId never repeats one
  Folders,       \* folder ids
  Root,          \* the null folder id
  TotalShards,   \* shards per file (14)
  Faults,        \* which of "crash" and "io" may happen
  NoRecord,      \* no record under a file id
  NoFile,        \* no file id
  Failed         \* AsyncValue.error

ASSUME VaultAssumption ==
  /\ TotalShards \in Nat \ {0}
  /\ Faults \subseteq {"crash", "io"}
  /\ Root \notin Folders
  /\ NoRecord \notin Folders \cup {Root}
  /\ NoFile \notin Files
  /\ \A fs \in SUBSET Files : fs # Failed

VARIABLES
  shards,        \* encrypted_shards box: the shards kept of each file
  meta,          \* files_metadata box: the files with metadata
  record,        \* files box: the folder each recorded file is in
  folders,       \* folders box
  list,          \* state of FilesNotifier: the files shown, or an error
  folderList,    \* state of FoldersNotifier: the folders shown
  call,          \* the calls in progress
  born,          \* history: file and folder ids already given out
  condemned,     \* history: the files a deletion was asked for
  swept,         \* history: the files whose record a folder deletion deleted
  cut,           \* history: the files of a call that was cut short
  swallowed      \* history: the files of which the secure storage failed to
                 \* delete something and deleteFile went on

history == <<born, condemned, swept, cut, swallowed>>

vars == <<shards, meta, record, folders, list, folderList, call, history>>

Shards == 1 .. TotalShards
Recorded == {f \in Files : record[f] # NoRecord}
InFolder(d) == {f \in Files : record[f] = d}

\* A call: the function, the folder it is about, the files it has left, the
\* file it is at and the step it is at: shard number `step`, then "meta",
\* "record" and what follows.
Idle == [op |-> "idle", folder |-> Root, rest |-> {}, file |-> NoFile,
         at |-> "start", step |-> 1]

Positions == {"start", "pick", "shard", "meta", "record", "record2", "next", "list"}

Call == [op : {"idle", "upload", "delete", "rmdir", "mkdir"},
         folder : Folders \cup {Root}, rest : SUBSET Files,
         file : Files \cup {NoFile}, at : Positions,
         step : Shards]

Quiet == \A c \in Calls : call[c] = Idle
FilesOf(c) == call[c].rest \cup ({call[c].file} \cap Files)
Goto(c, where) == call' = [call EXCEPT ![c].at = where]
At(c, op, where) == call[c].op = op /\ call[c].at = where
Return(c) == call' = [call EXCEPT ![c] = Idle]

\* Faulty variant of NextShard: one shard too many.
FaultyNextShard(c) ==
  call' = [call EXCEPT
             ![c].step = IF @ > TotalShards THEN 1 ELSE @ + 1,
             ![c].at = IF call[c].step > TotalShards THEN "meta" ELSE "shard"]

\* Moves a call past one shard.
NextShard(c) ==
  call' = [call EXCEPT
             ![c].step = IF @ = TotalShards THEN 1 ELSE @ + 1,
             ![c].at = IF call[c].step = TotalShards THEN "meta" ELSE "shard"]

DeleteCanFail(c) ==
  LET f == call[c].file
  IN  /\ call[c].op = "delete"
      /\ \/ call[c].at = "shard" /\ call[c].step \in shards[f]
         \/ call[c].at = "meta" /\ f \in meta
         \/ call[c].at \in {"record", "record2"} /\ f \in Recorded

-----------------------------------------------------------------------------
(* Faulty variants of the definitions below, one per property. *)

\* The record follows the shards: the metadata is skipped.
FaultySaveShard(c) ==
  /\ At(c, "upload", "shard")
  /\ shards' = [shards EXCEPT ![call[c].file] = @ \cup {call[c].step}]
  /\ call' = [call EXCEPT
                ![c].step = IF @ = TotalShards THEN 1 ELSE @ + 1,
                ![c].at = IF call[c].step = TotalShards
                            THEN "record" ELSE "shard"]
  /\ UNCHANGED <<meta, record, folders, list, folderList, history>>

\* A shard of a file being deleted is skipped.
FaultyDeleteShard(c) ==
  /\ At(c, "delete", "shard")
  /\ shards' = [shards EXCEPT ![call[c].file] = @ \ {call[c].step - 1}]
  /\ NextShard(c)
  /\ UNCHANGED <<meta, record, folders, list, folderList, history>>

\* The list is not loaded again after a deletion.
FaultyDeleteReturn(c) ==
  /\ At(c, "delete", "list")
  /\ Return(c)
  /\ UNCHANGED <<shards, meta, record, folders, list, folderList, history>>

\* The record is not deleted with the metadata.
FaultyDeleteMetadata(c) ==
  /\ At(c, "delete", "meta")
  /\ meta' = meta \ {call[c].file}
  /\ Goto(c, "list")
  /\ UNCHANGED <<shards, record, folders, list, folderList, history>>

\* The files of the folder are looked up again for every record deleted.
FaultyDeleteFolderFile(c, f) ==
  /\ At(c, "rmdir", "next")
  /\ f \in InFolder(call[c].folder)
  /\ record' = [record EXCEPT ![f] = NoRecord]
  /\ call' = [call EXCEPT ![c].rest = @ \ {f}]
  /\ swept' = swept \cup {f}
  /\ UNCHANGED <<shards, meta, folders, list, folderList, born,
                 condemned, cut, swallowed>>

\* The loop of an upload never leaves its first file.
FaultyNextUpload(c) ==
  /\ At(c, "upload", "next")
  /\ \E f \in call[c].rest :
       call' = [call EXCEPT ![c].file = f, ![c].at = "shard"]
  /\ UNCHANGED <<shards, meta, record, folders, list, folderList, history>>

-----------------------------------------------------------------------------
Init ==
  /\ shards = [f \in Files |-> {}]
  /\ meta = {}
  /\ record = [f \in Files |-> NoRecord]
  /\ folders = {}
  /\ list = {}
  /\ folderList = {}
  /\ call = [c \in Calls |-> Idle]
  /\ born = {}
  /\ condemned = {}
  /\ swept = {}
  /\ cut = {}
  /\ swallowed = {}

(* FilesNotifier.uploadFromPicker with SecureStorageService.uploadFile *)

\* The file picker is opened in the folder shown ...
OpenPicker(c, d) ==
  /\ call[c] = Idle
  /\ d \in {Root} \cup folderList
  /\ call' = [call EXCEPT ![c] = [Idle EXCEPT !.op = "upload", !.folder = d,
                                              !.at = "pick"]]
  /\ UNCHANGED <<shards, meta, record, folders, list, folderList, history>>

\* ... and answers when the user is done with it.
PickFiles(c, fs) ==
  /\ At(c, "upload", "pick")
  /\ fs \cap born = {}
  /\ IF fs = {}
       THEN Return(c)
       ELSE call' = [call EXCEPT ![c].rest = fs, ![c].at = "next"]
  /\ born' = born \cup fs
  /\ UNCHANGED <<shards, meta, record, folders, list, folderList,
                 condemned, swept, cut, swallowed>>

\* The loop takes its next file, gives it its id and encrypts it.
NextUpload(c) ==
  /\ At(c, "upload", "next")
  /\ \E f \in call[c].rest :
       call' = [call EXCEPT ![c].file = f, ![c].rest = @ \ {f},
                            ![c].at = "shard"]
  /\ UNCHANGED <<shards, meta, record, folders, list, folderList, history>>

SaveShard(c) ==
  /\ At(c, "upload", "shard")
  /\ shards' = [shards EXCEPT ![call[c].file] = @ \cup {call[c].step}]
  /\ NextShard(c)
  /\ UNCHANGED <<meta, record, folders, list, folderList, history>>

SaveMetadata(c) ==
  /\ At(c, "upload", "meta")
  /\ meta' = meta \cup {call[c].file}
  /\ Goto(c, "record")
  /\ UNCHANGED <<shards, record, folders, list, folderList, history>>

SaveRecord(c) ==
  /\ At(c, "upload", "record")
  /\ record' = [record EXCEPT ![call[c].file] = call[c].folder]
  /\ Goto(c, "next")
  /\ UNCHANGED <<shards, meta, folders, list, folderList, history>>

\* After the last file the list is loaded once.
UploadReturn(c) ==
  /\ At(c, "upload", "next")
  /\ call[c].rest = {}
  /\ list' = Recorded
  /\ Return(c)
  /\ UNCHANGED <<shards, meta, record, folders, folderList, history>>

\* Any exception, of the picker or of a put, ends the whole upload and replaces
\* the list by the error.
UploadThrows(c) ==
  /\ "io" \in Faults
  /\ call[c].op = "upload"
  /\ call[c].at \in {"pick", "shard", "meta", "record"}
  /\ list' = Failed
  /\ cut' = cut \cup FilesOf(c)
  /\ Return(c)
  /\ UNCHANGED <<shards, meta, record, folders, folderList, born, condemned,
                 swept, swallowed>>

-----------------------------------------------------------------------------
(* FilesNotifier.deleteFile with SecureStorageService.deleteFile *)

\* The metadata names the shards to delete; without it only the record goes.
DeleteFile(c, f) ==
  /\ call[c] = Idle
  /\ list # Failed /\ f \in list
  /\ call' = [call EXCEPT
                ![c] = [Idle EXCEPT !.op = "delete", !.file = f,
                          !.at = IF f \in meta THEN "shard" ELSE "record2"]]
  /\ condemned' = condemned \cup {f}
  /\ UNCHANGED <<shards, meta, record, folders, list, folderList,
                 born, swept, cut, swallowed>>

DeleteShard(c) ==
  /\ At(c, "delete", "shard")
  /\ shards' = [shards EXCEPT ![call[c].file] = @ \ {call[c].step}]
  /\ NextShard(c)
  /\ UNCHANGED <<meta, record, folders, list, folderList, history>>

DeleteMetadata(c) ==
  /\ At(c, "delete", "meta")
  /\ meta' = meta \ {call[c].file}
  /\ Goto(c, "record")
  /\ UNCHANGED <<shards, record, folders, list, folderList, history>>

\* The record goes twice: the secure storage deletes it, then the notifier.
DeleteRecord(c) ==
  /\ call[c].op = "delete"
  /\ call[c].at \in {"record", "record2"}
  /\ record' = [record EXCEPT ![call[c].file] = NoRecord]
  /\ Goto(c, IF call[c].at = "record" THEN "record2" ELSE "list")
  /\ UNCHANGED <<shards, meta, folders, list, folderList, history>>

DeleteReturn(c) ==
  /\ At(c, "delete", "list")
  /\ list' = Recorded
  /\ Return(c)
  /\ UNCHANGED <<shards, meta, record, folders, folderList, history>>

\* An exception of the secure storage is swallowed; one of the notifier's own
\* deletion leaves the list as it was.  Deleting a key that is not in its box
\* writes nothing and cannot fail.
DeleteThrows(c) ==
  /\ "io" \in Faults
  /\ DeleteCanFail(c)
  /\ \/ /\ call[c].at = "record2"
        /\ cut' = cut \cup FilesOf(c)
        /\ Return(c)
        /\ UNCHANGED swallowed
     \/ /\ call[c].at # "record2"
        /\ swallowed' = swallowed \cup FilesOf(c)
        /\ Goto(c, "record2")
        /\ UNCHANGED cut
  /\ UNCHANGED <<shards, meta, record, folders, list, folderList, born,
                 condemned, swept>>

-----------------------------------------------------------------------------
(* FoldersNotifier.createFolder and deleteFolder *)

\* saveFolder; the id is the time in milliseconds, taken to be new.
CreateFolder(c, d) ==
  /\ call[c] = Idle
  /\ d \notin born
  /\ folders' = folders \cup {d}
  /\ born' = born \cup {d}
  /\ call' = [call EXCEPT ![c] = [Idle EXCEPT !.op = "mkdir", !.at = "list"]]
  /\ UNCHANGED <<shards, meta, record, list, folderList,
                 condemned, swept, cut, swallowed>>

\* The folder record goes first ...
DeleteFolder(c, d) ==
  /\ call[c] = Idle
  /\ d \in folderList
  /\ folders' = folders \ {d}
  /\ call' = [call EXCEPT ![c] = [Idle EXCEPT !.op = "rmdir", !.folder = d]]
  /\ UNCHANGED <<shards, meta, record, list, folderList, history>>

\* ... then the files in it are looked up, once ...
ListFolder(c) ==
  /\ At(c, "rmdir", "start")
  /\ call' = [call EXCEPT ![c].rest = InFolder(call[c].folder),
                          ![c].at = "next"]
  /\ condemned' = condemned \cup InFolder(call[c].folder)
  /\ UNCHANGED <<shards, meta, record, folders, list, folderList,
                 born, swept, cut, swallowed>>

\* ... and their records deleted one by one.
DeleteFolderFile(c, f) ==
  /\ At(c, "rmdir", "next")
  /\ f \in call[c].rest
  /\ record' = [record EXCEPT ![f] = NoRecord]
  /\ call' = [call EXCEPT ![c].rest = @ \ {f}]
  /\ swept' = swept \cup {f}
  /\ UNCHANGED <<shards, meta, folders, list, folderList, born,
                 condemned, cut, swallowed>>

FolderReturn(c) ==
  /\ \/ At(c, "rmdir", "next") /\ call[c].rest = {}
     \/ At(c, "mkdir", "list")
  /\ folderList' = folders
  /\ Return(c)
  /\ UNCHANGED <<shards, meta, record, folders, list, history>>

FolderThrows(c) ==
  /\ "io" \in Faults
  /\ At(c, "rmdir", "next")
  /\ call[c].rest \cap Recorded # {}
  /\ cut' = cut \cup FilesOf(c)
  /\ Return(c)
  /\ UNCHANGED <<shards, meta, record, folders, list, folderList, born,
                 condemned, swept, swallowed>>

-----------------------------------------------------------------------------
\* The app dies and is started again: calls are lost, the boxes are not, and
\* the notifiers load their lists.
Restart ==
  /\ "crash" \in Faults
  /\ call' = [c \in Calls |-> Idle]
  /\ list' = Recorded
  /\ folderList' = folders
  /\ cut' = cut \cup UNION {FilesOf(c) : c \in Calls}
  /\ UNCHANGED <<shards, meta, record, folders, born, condemned, swept,
                 swallowed>>

Progress(c) ==
  \/ NextUpload(c) \/ SaveShard(c) \/ SaveMetadata(c) \/ SaveRecord(c)
  \/ UploadReturn(c)
  \/ DeleteShard(c) \/ DeleteMetadata(c) \/ DeleteRecord(c) \/ DeleteReturn(c)
  \/ ListFolder(c) \/ FolderReturn(c)
  \/ \E f \in Files : DeleteFolderFile(c, f)

Next ==
  \/ \E c \in Calls :
       \/ \E d \in Folders \cup {Root} : OpenPicker(c, d)
       \/ \E fs \in SUBSET Files : PickFiles(c, fs)
       \/ \E f \in Files : DeleteFile(c, f)
       \/ \E d \in Folders : CreateFolder(c, d) \/ DeleteFolder(c, d)
       \/ Progress(c)
       \/ UploadThrows(c) \/ DeleteThrows(c) \/ FolderThrows(c)
  \/ Restart

Spec == Init /\ [][Next]_vars

-----------------------------------------------------------------------------
(* Properties *)

TypeOK ==
  /\ shards \in [Files -> SUBSET Shards]
  /\ meta \subseteq Files
  /\ record \in [Files -> Folders \cup {Root, NoRecord}]
  /\ folders \subseteq Folders
  /\ list \in {Failed} \cup SUBSET Files
  /\ folderList \subseteq Folders
  /\ call \in [Calls -> Call]
  /\ born \subseteq Files \cup Folders
  /\ condemned \cup swept \cup cut \cup swallowed \subseteq Files

Complete(f) == f \in meta /\ shards[f] = Shards

\* A recorded file can be opened: its metadata and all its shards are there,
\* unless its deletion was asked for.  No crash between the awaits of an
\* upload, no failed put and no other call breaks this.
RecordedIsComplete ==
  \A f \in Recorded : Complete(f) \/ f \in condemned

\* Once the calls have returned nothing of a file is left without the record
\* that makes it visible and deletable, whatever the calls overlapped with,
\* unless its folder was deleted, a call on it was cut short or the secure
\* storage failed under its deletion.
NothingLeftBehind ==
  Quiet => \A f \in Files \ (swept \cup cut \cup swallowed) :
             (shards[f] # {} \/ f \in meta) => f \in Recorded

\* With no call in progress the list shows exactly the recorded files, but for
\* those of a deleted folder, which stay in it until it is loaded again.
ListIsFresh ==
  Quiet /\ list # Failed => list \ swept = Recorded \ swept

\* A deletion that reached its end deleted the record, whatever failed on the
\* way in the secure storage, and no other call brings it back.
DeletionIsFinal ==
  \A f \in condemned \ cut :
    (\A c \in Calls : call[c].op \in {"delete", "rmdir"} =>
                        f \notin FilesOf(c)) => f \notin Recorded

\* The vault is a FileCatalog: whatever calls overlap, fail or are lost with the
\* app, a file gets its record only when it can be opened (uploadFile saves the
\* record last), keeps both until its deletion was asked for, and a file once
\* condemned is never recorded again, not by the upload it came from either.
Catalog == INSTANCE FileCatalog WITH
  listed <- Recorded,
  ready <- {f \in Files : Complete(f)}

ImplementsCatalog == Catalog!Spec

\* More than the awaits one file costs.
Pace == TotalShards + 6

\* The awaits ahead of a call with the file it is at.
Ahead(r) ==
  CASE r.at = "shard" -> 5 + TotalShards - r.step
    [] r.at = "meta" -> 4
    [] r.at = "record" -> 3
    [] r.at = "record2" -> 2
    [] r.at = "start" -> 2 + Pace * Cardinality(Files)
    [] OTHER -> 1

\* A bound of the awaits of a call with all its files.
StepsLeft(r) ==
  IF r = Idle THEN 0 ELSE Ahead(r) + Pace * Cardinality(r.rest)

\* Every call comes to its end once the user has picked the files of an upload,
\* whatever overlaps with it: each of its awaits and each exception takes from
\* what is left of it, an upload of its files, a deletion of its steps, and no
\* step of another call adds to it.
CallsRunOut ==
  [][\A c \in Calls : call[c] # Idle /\ call[c].at # "pick" =>
       /\ StepsLeft(call[c])' \in Nat
       /\ Progress(c) \/ call[c]' # call[c] =>
            StepsLeft(call[c])' < StepsLeft(call[c])]_vars
=============================================================================
