---------------------------- MODULE MCFileManager ----------------------------
(* FileManager on a small instance for TLC, with an erasure code of symbols: *)
(* a parity byte is the column it was computed from.                         *)
EXTENDS FileManager, FiniteSetsExt

CONSTANTS x, y, a, b

MCZero == [kind |-> "zero"]
Noise == [kind |-> "noise"]

MCFiles == {<<>>, <<x, y, x>>}
MCOwners == {a, b}
Symmetry == Permutations(MCOwners)

\* Every byte an encrypted file is made of.
MCByte ==
  UNION {ToSet(EncryptedBytes(f, key)) : f \in Files, key \in 1 .. MaxUploads}
  \cup {MCZero}

MCParity(i, column) == [kind |-> "parity", index |-> i, column |-> column]

\* The library takes the first DataShards bytes it has and keeps data bytes;
\* bytes of different columns give bytes of no file.
MCRecover(bytes) ==
  LET present == {i \in Shards : bytes[i] # Missing}
      taken == CHOOSE s \in kSubset(DataShards, present) :
                 \A i \in s, j \in present \ s : i < j
      columns == {bytes[i].column : i \in {j \in taken : j > DataShards}}
      fits == {c \in columns : \A i \in taken : Codeword(c)[i] = bytes[i]}
  IN [i \in 1 .. DataShards |->
        IF i \in present THEN bytes[i]
        ELSE IF fits = {} THEN Noise ELSE (CHOOSE c \in fits : TRUE)[i]]
=============================================================================
