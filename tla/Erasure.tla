------------------------------- MODULE Erasure -------------------------------
(***************************************************************************)
(* Erasure coding of a byte sequence (rust_core/src/storage/erasure.rs).   *)
(*                                                                         *)
(* The data is cut into DataShards shards of equal length, the last ones   *)
(* padded with zeros, and the Reed-Solomon library computes ParityShards   *)
(* more, byte position by byte position.  The library is external: Parity  *)
(* and Recover stand for its arithmetic and ErasureAssumption says what    *)
(* the code relies on.  Shards are numbered from 1 here and from 0 there.  *)
(***************************************************************************)
EXTENDS Integers, Sequences, FiniteSets

CONSTANTS
  DataShards,        \* config.data_shards
  ParityShards,      \* config.parity_shards
  Byte,              \* what a position of a shard may hold
  Zero,              \* the byte 0, used as padding
  Missing,           \* None in place of a shard or of one of its bytes
  Parity(_, _),      \* the byte of a parity shard for a column of data bytes
  Recover(_)         \* the data bytes of a column with missing bytes

TotalShards == DataShards + ParityShards

\* One byte position of all shards.
Codeword(column) ==
  [i \in 1 .. TotalShards |->
     IF i <= DataShards THEN column[i] ELSE Parity(i, column)]

\* A list of shards, or of bytes, of which those not in kept are None.
Masked(list, kept) ==
  [i \in 1 .. TotalShards |-> IF i \in kept THEN list[i] ELSE Missing]

ParityByte ==
  {Parity(i, column) : i \in DataShards + 1 .. TotalShards,
                       column \in [1 .. DataShards -> Byte]}

\* ReedSolomon::new refuses other numbers of shards; any DataShards bytes of a
\* codeword give back its data bytes.
ASSUME ErasureAssumption ==
  /\ DataShards \in Nat \ {0} /\ ParityShards \in Nat \ {0}
  /\ TotalShards <= 256
  /\ Zero \in Byte
  /\ Missing \notin Seq(Byte \cup ParityByte)
  /\ \A column \in [1 .. DataShards -> Byte] :
       \A kept \in SUBSET (1 .. TotalShards) :
         Cardinality(kept) >= DataShards =>
           Recover(Masked(Codeword(column), kept)) = column

\* Result::Ok, Result::Err and the operator `?`.
Ok(v) == [ok |-> TRUE, value |-> v]
Err(e) == [ok |-> FALSE, error |-> e]
Then(result, Rest(_)) == IF result.ok THEN Rest(result.value) ELSE result

Minimum(a, b) == IF a <= b THEN a ELSE b

-----------------------------------------------------------------------------
\* Faulty variant: rounded down, the end of the data is in no shard.
FaultyShardSize(n) == n \div DataShards

\* calculate_shard_size: rounded up.
ShardSize(n) == (n + DataShards - 1) \div DataShards

\* The i-th slice of the data, padded.
DataShard(data, i) ==
  LET size == ShardSize(Len(data))
  IN [j \in 1 .. size |->
        LET at == (i - 1) * size + j
        IN IF at <= Len(data) THEN data[at] ELSE Zero]

DataColumn(data, j) == [i \in 1 .. DataShards |-> DataShard(data, i)[j]]

\* encode; the library refuses empty shards.
Encode(data) ==
  IF data = <<>> THEN Err("empty shard")
  ELSE Ok([i \in 1 .. TotalShards |->
             IF i <= DataShards
               THEN DataShard(data, i)
               ELSE [j \in 1 .. ShardSize(Len(data)) |->
                       Parity(i, DataColumn(data, j))]])

-----------------------------------------------------------------------------
Available(shards) == {i \in DOMAIN shards : shards[i] # Missing}

\* The bytes at one position of the shards present, None for the others.
ShardColumn(shards, j) ==
  [i \in 1 .. TotalShards |->
     IF shards[i] = Missing THEN Missing ELSE shards[i][j]]

\* The data shards one after the other, cut to the size asked for.
Combine(shards, length, size) ==
  [n \in 1 .. Minimum(size, DataShards * length) |->
     Recover(ShardColumn(shards, ((n - 1) % length) + 1))
       [((n - 1) \div length) + 1]]

\* decode: the library wants shards of one length; it uses as many as it
\* needs, and nothing tells it whether they are of the same data.
Decode(shards, original_size) ==
  LET available == Available(shards)
      lengths == {Len(shards[i]) : i \in available}
  IN IF Len(shards) # TotalShards THEN Err("shard count")
     ELSE IF Cardinality(available) < DataShards THEN Err("insufficient fragments")
     ELSE IF \E m, n \in lengths : m # n \/ n = 0 THEN Err("shard length")
     ELSE Ok(Combine(shards, CHOOSE n \in lengths : TRUE, original_size))
=============================================================================
