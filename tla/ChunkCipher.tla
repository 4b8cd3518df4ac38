----------------------------- MODULE ChunkCipher -----------------------------
(***************************************************************************)
(* Encryption of a file in chunks (rust_core/src/crypto/encryption.rs).    *)
(*                                                                         *)
(* A sealed chunk is a sequence of symbols that name the key, the nonce    *)
(* and the text: AES-256-GCM opens it with that key and complete, or not   *)
(* at all.  Random nonces are taken not to repeat: the chunk's number      *)
(* stands for its nonce, as every file has a key of its own.               *)
(***************************************************************************)
EXTENDS Erasure, SequencesExt

CONSTANTS
  ChunkSize,     \* chunk_size
  SealBytes      \* bytes a nonce and a tag add to a chunk

ASSUME CipherAssumption == {ChunkSize, SealBytes} \subseteq Nat \ {0}

-----------------------------------------------------------------------------
\* EncryptionKey::encrypt
Encrypt(key, nonce, text) ==
  [n \in 1 .. Len(text) + SealBytes |->
     [kind |-> "sealed", key |-> key, nonce |-> nonce, text |-> text, at |-> n]]

\* Faulty variant: the cipher is set up with the key the bytes were sealed with.
FaultyDecrypt(key, bytes) ==
  IF Len(bytes) < SealBytes THEN Err("too short")
  ELSE IF /\ bytes[1].kind = "sealed"
          /\ bytes = Encrypt(bytes[1].key, bytes[1].nonce, bytes[1].text)
    THEN Ok(bytes[1].text)
    ELSE Err("decryption failed")

\* EncryptionKey::decrypt
Decrypt(key, bytes) ==
  IF Len(bytes) < SealBytes THEN Err("too short")
  ELSE IF /\ bytes[1].kind = "sealed"
          /\ bytes = Encrypt(key, bytes[1].nonce, bytes[1].text)
    THEN Ok(bytes[1].text)
    ELSE Err("decryption failed")

ChunkCount(text) == (Len(text) + ChunkSize - 1) \div ChunkSize

Chunk(text, i) ==
  SubSeq(text, (i - 1) * ChunkSize + 1, Minimum(i * ChunkSize, Len(text)))

\* FileEncryptor::encrypt_file: each offset is the sum of the lengths before.
EncryptFile(key, text) ==
  LET chunks == [i \in 1 .. ChunkCount(text) |-> Encrypt(key, i, Chunk(text, i))]
      offset[i \in 1 .. ChunkCount(text)] ==
        IF i = 1 THEN 0 ELSE offset[i - 1] + Len(chunks[i - 1])
  IN [data |-> FlattenSeq(chunks), chunk_offsets |-> offset]

\* The bytes of one sealed chunk: up to the next offset or the end.
ChunkBytes(file, i) ==
  SubSeq(file.data, file.chunk_offsets[i] + 1,
         IF i < Len(file.chunk_offsets) THEN file.chunk_offsets[i + 1]
                                        ELSE Len(file.data))

\* Faulty variant: the bound is off by one.
FaultyDecryptChunk(key, file, i) ==
  IF i >= Len(file.chunk_offsets) THEN Err("out of bounds")
  ELSE Decrypt(key, ChunkBytes(file, i))

\* FileEncryptor::decrypt_chunk
DecryptChunk(key, file, i) ==
  IF i > Len(file.chunk_offsets) THEN Err("out of bounds")
  ELSE Decrypt(key, ChunkBytes(file, i))

\* FileEncryptor::decrypt_file: the first chunk that fails ends it.
DecryptFile(key, file) ==
  LET chunks == [i \in 1 .. Len(file.chunk_offsets) |->
                   Decrypt(key, ChunkBytes(file, i))]
  IN IF \E i \in DOMAIN chunks : ~chunks[i].ok
       THEN Err("decryption failed")
       ELSE Ok(FlattenSeq([i \in DOMAIN chunks |-> chunks[i].value]))

-----------------------------------------------------------------------------
\* EncryptedFile::to_bytes (bincode): the length of the data, the data, and
\* the other fields.
ToBytes(file) ==
  <<[kind |-> "length", length |-> Len(file.data)]>>
  \o file.data
  \o <<[kind |-> "fields", chunk_offsets |-> file.chunk_offsets]>>

\* EncryptedFile::from_bytes: bytes after the last field are ignored, which
\* the padding of the shards relies on.
FromBytes(bytes) ==
  LET n == bytes[1].length
  IN IF \/ bytes[1].kind # "length"
        \/ Len(bytes) < n + 2
        \/ bytes[n + 2].kind # "fields"
       THEN Err("parse")
       ELSE Ok([data |-> SubSeq(bytes, 2, n + 1),
                chunk_offsets |-> bytes[n + 2].chunk_offsets])
=============================================================================
