----------------------------- MODULE FileManager -----------------------------
(***************************************************************************)
(* Uploads, the index of files and downloads                               *)
(* (rust_core/src/storage/file_manager.rs), over the erasure code and the  *)
(* chunk cipher.                                                           *)
(*                                                                         *)
(* Every owner has a FileManager.  Preparing an upload returns the         *)
(* metadata and the shards to the caller, who sends the shards to the      *)
(* network one by one under their shard ids, adds the metadata to the      *)
(* index and exports and imports the index.  That caller is not in the     *)
(* repository: its steps may come in any order or not at all.  BLAKE3 is   *)
(* taken to be collision free: a content stands for its file id.           *)
(***************************************************************************)
EXTENDS ChunkCipher

CONSTANTS
  Owners,        \* identities
  Files,         \* file contents, sequences of bytes
  MaxUploads,    \* bound: uploads prepared
  None           \* no entry, nothing sent

VARIABLES
  index,         \* file_index of each owner, in memory
  exported,      \* the last index each owner exported
  prepared,      \* metadata of the PreparedFiles callers may hold
  uploads,       \* uploads prepared so far: each has a random key of its own
  stored         \* the upload whose bytes the network answers for a shard

vars == <<index, exported, prepared, uploads, stored>>

Shards == 1 .. TotalShards
FileIndex == [Files -> [file_id : Files, owner : Owners, key : 1 .. MaxUploads,
                        shard_size : Nat] \cup {None}]
EmptyIndex == [f \in Files |-> None]

-----------------------------------------------------------------------------
EncryptedBytes(f, key) == ToBytes(EncryptFile(key, f))

ASSUME FileAssumption ==
  /\ MaxUploads \in Nat
  /\ \A f \in Files : f \in Seq(ToSet(f))
  /\ \A f \in Files, key \in 1 .. MaxUploads : EncryptedBytes(f, key) \in Seq(Byte)

\* The shards of every upload there may be.
ShardsOf ==
  [f \in Files |-> [key \in 1 .. MaxUploads |->
     Encode(EncryptedBytes(f, key)).value]]

\* The FileMetadata of an upload: owner_id names the identity the key is
\* wrapped for, and all shards are of one size.
FileMetadata(o, f, key) ==
  [file_id |-> f, owner |-> o, key |-> key,
   shard_size |-> ShardSize(Len(EncryptedBytes(f, key)))]

ASSUME NoneAssumption ==
  /\ None \notin 1 .. MaxUploads
  /\ \A o \in Owners, f \in Files, key \in 1 .. MaxUploads :
       FileMetadata(o, f, key) # None

\* A byte recovered from shards of several uploads of one content is that
\* byte of one of them, or no header, index or sealed byte at all: a mixture
\* does not make up an encrypted file.
ASSUME MixtureAssumption ==
  \A f \in Files, keys \in [Shards -> (1 .. MaxUploads) \cup {None}] :
    LET used == {keys[i] : i \in Shards} \ {None}
        column(key, j) == DataColumn(EncryptedBytes(f, key), j)
    IN Cardinality({i \in Shards : keys[i] # None}) >= DataShards =>
         \A j \in 1 .. ShardSize(Len(EncryptedBytes(f, 1))), i \in 1 .. DataShards :
           LET byte == Recover([s \in Shards |->
                                 IF keys[s] = None THEN Missing
                                 ELSE Codeword(column(keys[s], j))[s]])[i]
           IN \/ \E key \in used : byte = column(key, j)[i]
              \/ byte.kind \notin {"length", "sealed", "fields"}

\* What the network answers for the shards of a file.  A shard id is the file
\* id and the shard's number: uploads of one content share it.
Fetched(f) ==
  [i \in Shards |->
     IF stored[f][i] = None
       THEN Missing
       ELSE ShardsOf[f][stored[f][i]][i]]

\* identity.decrypt(encrypted_file_key): only its owner's identity opens it.
UnwrapKey(o, m) == IF o = m.owner THEN Ok(m.key) ELSE Err("key")

\* The length of the encrypted bytes, padding included.
EstimatedSize(m) ==
  ((TotalShards * m.shard_size) \div TotalShards) * DataShards

\* reconstruct_file.  The hashes in the metadata of the encrypted bytes and of
\* each shard are not looked at.
ReconstructFile(o, m, shards) ==
  IF Cardinality(Available(shards)) < DataShards
  THEN Err("insufficient fragments")
  ELSE Then(Decode(shards, EstimatedSize(m)), LAMBDA bytes :
       Then(UnwrapKey(o, m), LAMBDA key :
       Then(FromBytes(bytes), LAMBDA file :
       Then(DecryptFile(key, file), LAMBDA text :
         IF text = m.file_id THEN Ok(text) ELSE Err("integrity")))))

-----------------------------------------------------------------------------
Init ==
  /\ index = [o \in Owners |-> EmptyIndex]
  /\ exported = [o \in Owners |-> EmptyIndex]
  /\ prepared = {}
  /\ uploads = 0
  /\ stored = [f \in Files |-> [i \in Shards |-> None]]

\* Faulty variant: the key of the first upload is used for all.
FaultyPrepareUpload(o, f) ==
  /\ uploads < MaxUploads
  /\ prepared' = prepared \cup {FileMetadata(o, f, uploads + 1)}
  /\ UNCHANGED <<index, exported, uploads, stored>>

PrepareUpload(o, f) ==
  /\ uploads < MaxUploads
  /\ uploads' = uploads + 1
  /\ prepared' = prepared \cup {FileMetadata(o, f, uploads + 1)}
  /\ UNCHANGED <<index, exported, stored>>

\* A shard of shard_data() is sent, again perhaps; an upload may stop anywhere.
Distribute(m, i) ==
  /\ m \in prepared
  /\ stored' = [stored EXCEPT ![m.file_id][i] = m.key]
  /\ UNCHANGED <<index, exported, prepared, uploads>>

AddToIndex(m) ==
  /\ m \in prepared
  /\ index' = [index EXCEPT ![m.owner][m.file_id] = m]
  /\ UNCHANGED <<exported, prepared, uploads, stored>>

RemoveFromIndex(o, f) ==
  /\ index[o][f] # None
  /\ index' = [index EXCEPT ![o][f] = None]
  /\ UNCHANGED <<exported, prepared, uploads, stored>>

ExportIndex(o) ==
  /\ exported' = [exported EXCEPT ![o] = index[o]]
  /\ UNCHANGED <<index, prepared, uploads, stored>>

\* import_index: what is imported goes over what is there; nothing asks whose
\* or how old it is.
ImportIndex(o, from) ==
  /\ index' = [index EXCEPT ![o] =
                 [f \in Files |-> IF exported[from][f] # None
                                    THEN exported[from][f]
                                    ELSE index[o][f]]]
  /\ UNCHANGED <<exported, prepared, uploads, stored>>

\* A node that holds a shard leaves, or the shard expires there.
LoseShard(f, i) ==
  /\ stored[f][i] # None
  /\ stored' = [stored EXCEPT ![f][i] = None]
  /\ UNCHANGED <<index, exported, prepared, uploads>>

\* The process ends: the index and the prepared uploads are in memory only.
Restart(o) ==
  /\ index' = [index EXCEPT ![o] = EmptyIndex]
  /\ prepared' = {m \in prepared : m.owner # o}
  /\ UNCHANGED <<exported, uploads, stored>>

Next ==
  \/ \E o \in Owners, f \in Files : PrepareUpload(o, f) \/ RemoveFromIndex(o, f)
  \/ \E m \in prepared :
       AddToIndex(m) \/ \E i \in Shards : Distribute(m, i)
  \/ \E o \in Owners : ExportIndex(o) \/ Restart(o)
  \/ \E o, from \in Owners : ImportIndex(o, from)
  \/ \E f \in Files, i \in Shards : LoseShard(f, i)

Spec == Init /\ [][Next]_vars

-----------------------------------------------------------------------------
(* Properties *)

TypeOK ==
  /\ index \in [Owners -> FileIndex]
  /\ exported \in [Owners -> FileIndex]
  /\ \A m \in prepared : m = FileMetadata(m.owner, m.file_id, m.key)
  /\ uploads \in 0 .. MaxUploads
  /\ stored \in [Files -> [Shards -> (1 .. uploads) \cup {None}]]

Opens(o, f) == ReconstructFile(o, index[o][f], Fetched(f)) = Ok(f)

\* The shards of an indexed upload the network still answers.
Intact(m) == {i \in Shards : stored[m.file_id][i] = m.key}

\* An upload that is in its owner's index opens to the very content it was
\* made of as long as DataShards of its shards are there and no shard of
\* another upload of the content is, whatever was interrupted, lost, imported
\* or sent before: the padding, the estimated size and the chunks agree.
UploadOpens ==
  \A o \in Owners, f \in Files :
    index[o][f] # None /\ index[o][f].owner = o
    /\ Cardinality(Intact(index[o][f])) >= DataShards
    /\ Available(Fetched(f)) = Intact(index[o][f])
      => Opens(o, f)

\* Metadata none of whose upload's shards are there, because an older export
\* was imported over newer metadata or another upload of the content took the
\* shard ids, opens nothing: the download fails although it finds enough
\* shards, of the same content, layout and hashes.  (An empty file has no chunk
\* and opens with any key.)
StaleOpensNothing ==
  \A o \in Owners, f \in Files \ {<<>>} :
    index[o][f] # None /\ Intact(index[o][f]) = {}
      => ~ReconstructFile(o, index[o][f], Fetched(f)).ok

\* encryption.rs:103: "Each chunk is independently encrypted for random
\* access": a file that opens has each of its chunks at the place computed
\* from the chunk size, and none after them.
ChunksOpen ==
  \A o \in Owners, f \in Files :
    index[o][f] # None /\ Opens(o, f) =>
      LET m == index[o][f]
          file == FromBytes(Decode(Fetched(f), EstimatedSize(m)).value).value
      IN \A i \in 1 .. ChunkCount(f) + 1 :
           DecryptChunk(m.key, file, i) =
             IF i <= ChunkCount(f) THEN Ok(Chunk(f, i)) ELSE Err("out of bounds")

\* erasure.rs:3: "Splits data into N shards where only K are needed to
\* reconstruct": an upload of which K shards are intact opens, whatever the
\* others hold.  False of the code: see the run files_mixed_shards.
KIntactSuffice ==
  \A o \in Owners, f \in Files :
    index[o][f] # None /\ index[o][f].owner = o
    /\ Cardinality(Intact(index[o][f])) >= DataShards
      => Opens(o, f)
=============================================================================
