-------------------------- MODULE FileManagerProofs --------------------------
(***************************************************************************)
(* Theorems about FileManager and the modules it is built on, for every    *)
(* number of shards, chunk size, file, owner and number of uploads.        *)
(*                                                                         *)
(* What an upload opens to is computed by recursive functions (FlattenSeq, *)
(* the offsets of the chunks); they are reasoned about by induction on the *)
(* natural numbers, which WellFoundedInduction gives in a form about sets. *)
(* The way from an upload to its content and back is then one lemma a      *)
(* step: cut and encrypt (ChunksJoin, DecryptEncrypted), serialise and     *)
(* parse (ParsePadded), encode, lose shards and decode (RoundTripPadded).  *)
(* The invariant IInv says where metadata comes from: from an upload.      *)
(***************************************************************************)
EXTENDS FileManager, FiniteSetTheorems, SequenceTheorems, WellFoundedInduction, TLAPS

-----------------------------------------------------------------------------
(* Induction and recursion *)

\* A set of natural numbers has a least element.
LEMMA LeastNumber ==
  ASSUME NEW T, T \subseteq Nat, T # {}
  PROVE  \E x \in T : \A y \in T : ~(y < x)
<1> DEFINE R == OpToRel(<, Nat)
<1>1. IsWellFoundedOn(R, Nat)
  BY NatLessThanWellFounded
<1>2. \A x, y \in Nat : y < x => <<y, x>> \in R
  BY DEF OpToRel
<1> HIDE DEF R
<1>3. \E x \in T : \A y \in T : ~(<<y, x>> \in R)
  BY <1>1, WFMin
<1> QED
  BY <1>2, <1>3

\* A set that holds 0 and the successor of each of its elements holds them all.
LEMMA Induction ==
  ASSUME NEW S, 0 \in S, \A n \in Nat : n \in S => n + 1 \in S
  PROVE  Nat \subseteq S
<1>1. CASE Nat \ S = {}
  BY <1>1
<1>2. CASE Nat \ S # {}
  <2>1. PICK x \in Nat \ S : \A y \in Nat \ S : ~(y < x)
    BY <1>2, LeastNumber
  <2>2. x # 0 /\ x - 1 \in Nat /\ x - 1 < x
    BY <2>1
  <2>3. x - 1 \in S
    BY <2>1, <2>2
  <2> QED
    BY <2>2, <2>3
<1> QED
  BY <1>1, <1>2

\* The same from 1 to n.
LEMMA InductionUpTo ==
  ASSUME NEW n \in Nat, NEW S, 1 \in S, \A i \in 2 .. n : i - 1 \in S => i \in S
  PROVE  1 .. n \subseteq S
<1> DEFINE T == {m \in Nat : m = 0 \/ m > n \/ m \in S}
<1>1. 0 \in T
  OBVIOUS
<1>2. ASSUME NEW m \in Nat, m \in T
      PROVE  m + 1 \in T
  <2>1. CASE m = 0
    BY <2>1
  <2>2. CASE m > n \/ m + 1 > n
    BY <2>2
  <2>3. CASE m # 0 /\ m + 1 <= n
    <3>1. m + 1 \in 2 .. n /\ (m + 1) - 1 = m /\ m \in S
      BY <1>2, <2>3
    <3> QED
      BY <3>1
  <2> QED
    BY <2>1, <2>2, <2>3
<1> HIDE DEF T
<1>3. Nat \subseteq T
  BY <1>1, <1>2, Induction
<1> QED
  BY <1>3 DEF T

\* f starts with first, and Step leads from each element to the next.
Iterates(f, n, T, first, Step) ==
  /\ f \in [1 .. n -> T]
  /\ f[1] = first
  /\ \A i \in 2 .. n : f[i] = Step[i][f[i - 1]]

\* A recursive definition of that form defines a sequence.
LEMMA Recursion ==
  ASSUME NEW T, NEW n \in Nat \ {0}, NEW first \in T,
         NEW Step \in [2 .. n -> [T -> T]]
  PROVE  \E f : Iterates(f, n, T, first, Step)
<1> DEFINE Good(m, f) ==
             /\ f \in [1 .. m -> T]
             /\ \A i \in 1 .. m : f[i] = IF i = 1 THEN first ELSE Step[i][f[i - 1]]
           S == {m \in Nat : m > n \/ \E f : Good(m, f)}
<1>1. 0 \in S
  <2>1. Good(0, [i \in 1 .. 0 |-> first])
    OBVIOUS
  <2> QED
    BY <2>1
<1>2. ASSUME NEW m \in Nat, m \in S
      PROVE  m + 1 \in S
  <2>1. CASE m >= n
    BY <2>1
  <2>2. CASE m < n
    <3>1. PICK f : Good(m, f)
      BY <1>2, <2>2
    <3> DEFINE last == IF m = 0 THEN first ELSE Step[m + 1][f[m]]
               g == [i \in 1 .. m + 1 |-> IF i = m + 1 THEN last ELSE f[i]]
    <3>2. last \in T
      BY <2>2, <3>1
    <3>3. g \in [1 .. m + 1 -> T]
      BY <3>1, <3>2
    <3>4. \A i \in 1 .. m + 1 : g[i] = IF i = 1 THEN first ELSE Step[i][g[i - 1]]
      BY <3>1
    <3>5. Good(m + 1, g)
      BY <3>3, <3>4
    <3> HIDE DEF Good, g
    <3> QED
      BY <3>5
  <2> QED
    BY <2>1, <2>2
<1>3. n \in S
  BY <1>1, <1>2, Induction
<1>4. PICK f : Good(n, f)
  BY <1>3
<1>5. f[1] = first
  BY <1>4
<1>6. \A i \in 2 .. n : f[i] = Step[i][f[i - 1]]
  BY <1>4
<1> QED
  BY <1>4, <1>5, <1>6 DEF Iterates

\* Quotients and remainders.
LEMMA Division ==
  ASSUME NEW a \in Nat, NEW d \in Nat \ {0}
  PROVE  /\ a \div d \in Nat /\ a % d \in 0 .. d - 1
         /\ a = d * (a \div d) + (a % d)
OBVIOUS

LEMMA DivisionUnique ==
  ASSUME NEW d \in Nat \ {0}, NEW q \in Nat, NEW r \in 0 .. d - 1
  PROVE  (d * q + r) \div d = q /\ (d * q + r) % d = r
OBVIOUS

-----------------------------------------------------------------------------
(* Erasure coding: cutting the data into shards *)

\* The shards hold the data and less than one byte each of padding.
LEMMA ShardSizeBounds ==
  ASSUME NEW n \in Nat \ {0}
  PROVE  /\ ShardSize(n) \in Nat \ {0}
         /\ n <= DataShards * ShardSize(n)
         /\ DataShards * ShardSize(n) < n + DataShards
<1> DEFINE a == n + DataShards - 1
<1>1. a \in Nat /\ DataShards \in Nat \ {0} /\ a >= DataShards
  BY ErasureAssumption
<1>2. /\ a \div DataShards \in Nat /\ a % DataShards \in 0 .. DataShards - 1
      /\ a = DataShards * (a \div DataShards) + (a % DataShards)
  BY <1>1, Division
<1>3. ShardSize(n) = a \div DataShards
  BY DEF ShardSize
<1> HIDE DEF a
<1>4. ShardSize(n) # 0
  BY <1>1, <1>2, <1>3
<1>5. a < DataShards * ShardSize(n) + DataShards
  BY <1>1, <1>2, <1>3
<1> QED
  BY <1>1, <1>2, <1>3, <1>4, <1>5 DEF a

\* Data shards and columns hold bytes.
LEMMA DataShardType ==
  ASSUME NEW data \in Seq(Byte), data # <<>>, NEW i \in 1 .. DataShards
  PROVE  DataShard(data, i) \in [1 .. ShardSize(Len(data)) -> Byte]
<1> DEFINE length == ShardSize(Len(data))
<1>1. length \in Nat /\ DataShards \in Nat
  BY ShardSizeBounds, ErasureAssumption
<1> HIDE DEF length
<1>2. ASSUME NEW j \in 1 .. length
      PROVE  (i - 1) * length + j \in Nat \ {0}
  <2>1. i - 1 \in Nat
    BY <1>1
  <2>2. (i - 1) * length \in Nat
    BY <1>1, <2>1
  <2> QED
    BY <1>1, <2>2
<1>3. DataShard(data, i) =
        [j \in 1 .. length |-> IF (i - 1) * length + j <= Len(data)
                                 THEN data[(i - 1) * length + j] ELSE Zero]
  BY DEF DataShard, length
<1>4. ASSUME NEW at \in Nat \ {0}, at <= Len(data)
      PROVE  data[at] \in Byte
  BY <1>4
<1> QED
  BY <1>2, <1>3, <1>4, ErasureAssumption DEF length

LEMMA DataColumnType ==
  ASSUME NEW data \in Seq(Byte), data # <<>>,
         NEW j \in 1 .. ShardSize(Len(data))
  PROVE  DataColumn(data, j) \in [1 .. DataShards -> Byte]
BY DataShardType DEF DataColumn

\* The data followed by zeros.
Padded(data, size) ==
  [n \in 1 .. size |-> IF n <= Len(data) THEN data[n] ELSE Zero]

\* The data shards one after the other are the data and its padding.
LEMMA ShardsAreData ==
  ASSUME NEW data \in Seq(Byte), data # <<>>,
         NEW size \in Nat, size <= DataShards * ShardSize(Len(data)),
         NEW n \in 1 .. size
  PROVE  LET length == ShardSize(Len(data))
             i == ((n - 1) \div length) + 1
             j == ((n - 1) % length) + 1
         IN /\ i \in 1 .. DataShards /\ j \in 1 .. length
            /\ DataColumn(data, j)[i] = Padded(data, size)[n]
<1> DEFINE length == ShardSize(Len(data))
           q == (n - 1) \div length
           r == (n - 1) % length
<1>1. Len(data) \in Nat \ {0}
  OBVIOUS
<1>2. length \in Nat \ {0} /\ DataShards \in Nat \ {0}
  BY <1>1, ShardSizeBounds, ErasureAssumption
<1> HIDE DEF length
<1>3. n - 1 \in Nat /\ n - 1 < DataShards * length
  <2>1. size <= DataShards * length /\ DataShards * length \in Nat
    BY <1>2 DEF length
  <2> QED
    BY <2>1
<1>4. q \in Nat /\ r \in 0 .. length - 1 /\ n - 1 = length * q + r
  BY <1>2, <1>3, Division
<1> HIDE DEF q, r
<1>5. q < DataShards
  BY <1>2, <1>3, <1>4
<1>6. q + 1 \in 1 .. DataShards /\ r + 1 \in 1 .. length
  BY <1>2, <1>4, <1>5
<1>7. ((q + 1) - 1) * length + (r + 1) = n
  BY <1>2, <1>4
<1>8. DataColumn(data, r + 1)[q + 1] =
        IF n <= Len(data) THEN data[n] ELSE Zero
  BY <1>6, <1>7 DEF DataColumn, DataShard, length
<1> QED
  BY <1>6, <1>8 DEF Padded, q, r, length

-----------------------------------------------------------------------------
(* Erasure coding: encoding, losing shards and decoding *)

\* The shards Encode returns are all of one length and none is None.
LEMMA ShardsEncoded ==
  ASSUME NEW data \in Seq(Byte), data # <<>>
  PROVE  LET shards == Encode(data).value
         IN /\ Encode(data).ok
            /\ \A i \in 1 .. TotalShards :
                 /\ shards[i] # Missing
                 /\ Len(shards[i]) = ShardSize(Len(data))
                 /\ \A j \in 1 .. ShardSize(Len(data)) :
                      shards[i][j] = Codeword(DataColumn(data, j))[i]
<1> DEFINE shards == Encode(data).value
           length == ShardSize(Len(data))
<1>1. length \in Nat /\ TotalShards \in Nat /\ DataShards \in Nat
  BY ShardSizeBounds, ErasureAssumption DEF TotalShards
<1>2. Encode(data).ok
  BY DEF Encode, Ok
<1>3. shards = [i \in 1 .. TotalShards |->
                  IF i <= DataShards
                    THEN DataShard(data, i)
                    ELSE [j \in 1 .. length |-> Parity(i, DataColumn(data, j))]]
  BY DEF Encode, Ok
<1> HIDE DEF shards
<1>4. ASSUME NEW i \in 1 .. TotalShards
      PROVE  /\ shards[i] \in [1 .. length -> Byte \cup ParityByte]
             /\ \A j \in 1 .. length :
                  shards[i][j] = Codeword(DataColumn(data, j))[i]
  <2>1. CASE i <= DataShards
    <3>1. shards[i] = DataShard(data, i) /\ i \in 1 .. DataShards
      BY <1>1, <1>3, <2>1
    <3>2. \A j \in 1 .. length :
            Codeword(DataColumn(data, j))[i] = DataShard(data, i)[j]
      BY <1>1, <2>1, <3>1 DEF Codeword, DataColumn
    <3> QED
      BY <3>1, <3>2, DataShardType
  <2>2. CASE ~(i <= DataShards)
    <3>1. shards[i] = [j \in 1 .. length |-> Parity(i, DataColumn(data, j))]
      BY <1>3, <2>2
    <3>2. i \in DataShards + 1 .. TotalShards
      BY <1>1, <2>2
    <3>3. \A j \in 1 .. length : Parity(i, DataColumn(data, j)) \in ParityByte
      BY <3>2, DataColumnType DEF ParityByte
    <3>4. \A j \in 1 .. length :
            Codeword(DataColumn(data, j))[i] = Parity(i, DataColumn(data, j))
      BY <2>2 DEF Codeword
    <3> QED
      BY <3>1, <3>3, <3>4
  <2> QED
    BY <2>1, <2>2
<1>5. ASSUME NEW i \in 1 .. TotalShards
      PROVE  shards[i] # Missing /\ Len(shards[i]) = length
  <2>1. shards[i] \in Seq(Byte \cup ParityByte)
    BY <1>1, <1>4
  <2>2. Len(shards[i]) = length
    BY <1>1, <1>4, <2>1
  <2> QED
    BY <2>1, <2>2, ErasureAssumption
<1> QED
  BY <1>2, <1>4, <1>5 DEF shards

\* Whichever DataShards of the shards are left, decoding them gives the data
\* back, followed by zeros when a larger size is asked for.
THEOREM RoundTripPadded ==
  ASSUME NEW data \in Seq(Byte), data # <<>>,
         NEW kept \in SUBSET (1 .. TotalShards),
         Cardinality(kept) >= DataShards,
         NEW size \in Nat, size <= DataShards * ShardSize(Len(data))
  PROVE  Decode(Masked(Encode(data).value, kept), size) = Ok(Padded(data, size))
<1> DEFINE shards == Encode(data).value
           left == Masked(shards, kept)
           length == ShardSize(Len(data))
           lengths == {Len(left[i]) : i \in Available(left)}
<1>1. /\ length \in Nat \ {0} /\ TotalShards \in Nat
      /\ DataShards \in Nat \ {0}
  BY ShardSizeBounds, ErasureAssumption DEF TotalShards
<1>2. \A i \in 1 .. TotalShards :
        /\ shards[i] # Missing /\ Len(shards[i]) = length
        /\ \A j \in 1 .. length :
             shards[i][j] = Codeword(DataColumn(data, j))[i]
  BY ShardsEncoded
<1> HIDE DEF shards, length
<1>3. /\ left = [i \in 1 .. TotalShards |-> IF i \in kept THEN shards[i]
                                                          ELSE Missing]
      /\ Len(left) = TotalShards /\ DOMAIN left = 1 .. TotalShards
  BY <1>1 DEF Masked
<1>4. Available(left) = kept
  BY <1>2, <1>3 DEF Available
<1>5. IsFiniteSet(kept) /\ kept # {}
  <2>1. IsFiniteSet(1 .. TotalShards)
    BY <1>1, FS_Interval
  <2>2. IsFiniteSet(kept)
    BY <2>1, FS_Subset
  <2>3. Cardinality(kept) \in Nat /\ Cardinality(kept) # 0
    BY <1>1, <2>2, FS_CardinalityType
  <2>4. kept # {}
    BY <2>3, FS_EmptySet
  <2> QED
    BY <2>2, <2>4
<1>6. lengths = {length}
  <2>1. \A i \in kept : Len(left[i]) = length
    BY <1>2, <1>3
  <2>2. lengths = {Len(left[i]) : i \in kept}
    BY <1>4
  <2> HIDE DEF lengths, left
  <2> QED
    BY <1>5, <2>1, <2>2
<1>7. (CHOOSE n \in lengths : TRUE) = length
  BY <1>6
<1> HIDE DEF left, lengths
<1>8. ASSUME NEW j \in 1 .. length
      PROVE  Recover(ShardColumn(left, j)) = DataColumn(data, j)
  <2>1. ShardColumn(left, j) = Masked(Codeword(DataColumn(data, j)), kept)
    BY <1>2, <1>3 DEF ShardColumn, Masked
  <2>2. DataColumn(data, j) \in [1 .. DataShards -> Byte]
    BY DataColumnType DEF length
  <2> QED
    BY <2>1, <2>2, ErasureAssumption
<1>9. Minimum(size, DataShards * length) = size
  BY <1>1 DEF Minimum, length
<1>10. ASSUME NEW n \in 1 .. size
       PROVE  Recover(ShardColumn(left, ((n - 1) % length) + 1))
                [((n - 1) \div length) + 1] = Padded(data, size)[n]
  BY <1>8, ShardsAreData DEF length
<1>11. Combine(left, length, size) = Padded(data, size)
  BY <1>9, <1>10 DEF Combine, Padded
<1>12. Decode(left, size) = Ok(Combine(left, length, size))
  <2>1. ~(\E m, n \in lengths : m # n \/ n = 0)
    BY <1>1, <1>6
  <2>2. ~(Cardinality(Available(left)) < DataShards)
    BY <1>1, <1>4, <1>5, FS_CardinalityType
  <2> QED
    BY <1>3, <1>7, <2>1, <2>2 DEF Decode, lengths
<1> QED
  BY <1>11, <1>12 DEF left, shards

\* Decoding to the size of the data gives exactly the data.
THEOREM RoundTrip ==
  ASSUME NEW data \in Seq(Byte), data # <<>>,
         NEW kept \in SUBSET (1 .. TotalShards),
         Cardinality(kept) >= DataShards
  PROVE  Decode(Masked(Encode(data).value, kept), Len(data)) = Ok(data)
<1>1. Len(data) \in Nat \ {0}
  OBVIOUS
<1>2. Len(data) <= DataShards * ShardSize(Len(data))
  BY <1>1, ShardSizeBounds
<1>3. Padded(data, Len(data)) = data
  BY DEF Padded
<1> QED
  BY <1>1, <1>2, <1>3, RoundTripPadded

\* Fewer than DataShards shards are refused, never decoded to something else.
THEOREM TooFewRefused ==
  ASSUME NEW data \in Seq(Byte), data # <<>>,
         NEW kept \in SUBSET (1 .. TotalShards),
         Cardinality(kept) < DataShards, NEW size \in Nat
  PROVE  Decode(Masked(Encode(data).value, kept), size)
           = Err("insufficient fragments")
<1> DEFINE left == Masked(Encode(data).value, kept)
<1>1. TotalShards \in Nat
  BY ErasureAssumption DEF TotalShards
<1>2. Len(left) = TotalShards /\ DOMAIN left = 1 .. TotalShards
  BY <1>1 DEF Masked
<1>3. Available(left) = kept
  BY <1>2, ShardsEncoded DEF Available, Masked
<1> QED
  BY <1>2, <1>3 DEF Decode

-----------------------------------------------------------------------------
(* Sequences one after the other *)

\* The prefixes FlattenSeq builds on its way.
FlattensTo(flat, n, S, seqs) ==
  /\ flat \in [1 .. n -> Seq(S)]
  /\ flat[1] = seqs[1]
  /\ \A i \in 2 .. n : flat[i] = flat[i - 1] \o seqs[i]
  /\ FlattenSeq(seqs) = flat[n]

LEMMA FlattenPrefixes ==
  ASSUME NEW S, NEW n \in Nat \ {0}, NEW seqs \in [1 .. n -> Seq(S)]
  PROVE  \E flat : FlattensTo(flat, n, S, seqs)
<1> DEFINE Step == [i \in 2 .. n |-> [s \in Seq(S) |-> s \o seqs[i]]]
<1>1. Step \in [2 .. n -> [Seq(S) -> Seq(S)]]
  OBVIOUS
<1>2. PICK f : Iterates(f, n, Seq(S), seqs[1], Step)
  <2>1. seqs[1] \in Seq(S)
    OBVIOUS
  <2> HIDE DEF Step
  <2> QED
    BY <1>1, <2>1, Recursion
<1>3. f = [i \in 1 .. n |-> IF i = 1 THEN seqs[i] ELSE f[i - 1] \o seqs[i]]
  <2>1. ASSUME NEW i \in 1 .. n
        PROVE  f[i] = IF i = 1 THEN seqs[i] ELSE f[i - 1] \o seqs[i]
    <3>1. CASE i = 1
      BY <1>2, <3>1 DEF Iterates
    <3>2. CASE i # 1
      <4>1. i - 1 \in 1 .. n /\ i \in 2 .. n
        BY <3>2
      <4>2. f[i - 1] \in Seq(S)
        BY <1>2, <4>1 DEF Iterates
      <4>3. f[i] = Step[i][f[i - 1]]
        BY <1>2, <4>1 DEF Iterates
      <4> QED
        BY <3>2, <4>1, <4>2, <4>3
    <3> QED
      BY <3>1, <3>2
  <2> QED
    BY <1>2, <2>1 DEF Iterates
<1> DEFINE IsFlat(g) ==
             g = [i \in 1 .. n |-> IF i = 1 THEN seqs[i] ELSE g[i - 1] \o seqs[i]]
           flat == CHOOSE g : IsFlat(g)
<1>4. IsFlat(flat)
  BY <1>3
<1>5. Len(seqs) = n
  OBVIOUS
<1>6. FlattenSeq(seqs) = flat[n]
  BY <1>5 DEF FlattenSeq
<1> HIDE DEF flat
<1>7. /\ flat[1] = seqs[1]
      /\ \A i \in 2 .. n : flat[i] = flat[i - 1] \o seqs[i]
      /\ flat = [i \in 1 .. n |-> flat[i]]
  <2>1. \A i \in 1 .. n : flat[i] = IF i = 1 THEN seqs[i] ELSE flat[i - 1] \o seqs[i]
    BY <1>4
  <2>2. 1 \in 1 .. n /\ \A i \in 2 .. n : i \in 1 .. n /\ i # 1
    OBVIOUS
  <2>3. flat = [i \in 1 .. n |-> flat[i]]
    BY <1>4
  <2> QED
    BY <2>1, <2>2, <2>3
<1>8. 1 .. n \subseteq {i \in 1 .. n : flat[i] \in Seq(S)}
  <2> DEFINE I == {i \in 1 .. n : flat[i] \in Seq(S)}
  <2>1. 1 \in I
    BY <1>7
  <2>2. ASSUME NEW i \in 2 .. n, i - 1 \in I
        PROVE  i \in I
    <3>1. flat[i] = flat[i - 1] \o seqs[i] /\ flat[i - 1] \in Seq(S)
      BY <1>7, <2>2
    <3>2. i \in 1 .. n /\ seqs[i] \in Seq(S)
      OBVIOUS
    <3>3. flat[i] \in Seq(S)
      BY <3>1, <3>2
    <3> QED
      BY <3>2, <3>3
  <2> HIDE DEF I
  <2>3. 1 .. n \subseteq I
    BY <2>1, <2>2, InductionUpTo
  <2> QED
    BY <2>3 DEF I
<1>9. flat \in [1 .. n -> Seq(S)]
  BY <1>7, <1>8
<1> QED
  BY <1>6, <1>7, <1>9 DEF FlattensTo

\* The first index of each of the sequences, from 0, when they follow one
\* another.
IsOffsets(offset, n, seqs) ==
  /\ offset \in [1 .. n -> Nat]
  /\ n > 0 => offset[1] = 0
  /\ \A i \in 2 .. n : offset[i] = offset[i - 1] + Len(seqs[i - 1])

OffsetsOf(n, seqs) ==
  LET offset[i \in 1 .. n] == IF i = 1 THEN 0 ELSE offset[i - 1] + Len(seqs[i - 1])
  IN offset

\* The recursive definition of EncryptFile.
LEMMA OffsetsDefined ==
  ASSUME NEW S, NEW n \in Nat, NEW seqs \in [1 .. n -> Seq(S)]
  PROVE  IsOffsets(OffsetsOf(n, seqs), n, seqs)
<1> DEFINE Is(g) ==
             g = [i \in 1 .. n |-> IF i = 1 THEN 0 ELSE g[i - 1] + Len(seqs[i - 1])]
           offset == CHOOSE g : Is(g)
<1>1. OffsetsOf(n, seqs) = offset
  BY DEF OffsetsOf
<1>2. \E g : g \in [1 .. n -> Nat] /\ Is(g)
  <2>1. CASE n = 0
    <3> DEFINE g == [i \in 1 .. 0 |-> 0]
    <3>1. g \in [1 .. n -> Nat] /\ Is(g)
      BY <2>1
    <3> QED
      BY <3>1
  <2>2. CASE n # 0
    <3> DEFINE Step == [i \in 2 .. n |-> [m \in Nat |-> m + Len(seqs[i - 1])]]
    <3>1. Step \in [2 .. n -> [Nat -> Nat]]
      <4>1. \A i \in 2 .. n : Len(seqs[i - 1]) \in Nat
        OBVIOUS
      <4> QED
        BY <4>1
    <3>2. PICK f : Iterates(f, n, Nat, 0, Step)
      <4> HIDE DEF Step
      <4> QED
        BY <2>2, <3>1, Recursion
    <3>3. ASSUME NEW i \in 1 .. n
          PROVE  f[i] = IF i = 1 THEN 0 ELSE f[i - 1] + Len(seqs[i - 1])
      <4>1. CASE i = 1
        BY <3>2, <4>1 DEF Iterates
      <4>2. CASE i # 1
        <5>1. i - 1 \in 1 .. n /\ i \in 2 .. n
          BY <4>2
        <5>2. f[i] = Step[i][f[i - 1]] /\ f[i - 1] \in Nat
          BY <3>2, <5>1 DEF Iterates
        <5> QED
          BY <4>2, <5>1, <5>2
      <4> QED
        BY <4>1, <4>2
    <3>4. f \in [1 .. n -> Nat]
      BY <3>2 DEF Iterates
    <3>5. Is(f)
      BY <3>3, <3>4
    <3> HIDE DEF Is
    <3> QED
      BY <3>4, <3>5
  <2> QED
    BY <2>1, <2>2
<1>3. Is(offset)
  BY <1>2
<1> HIDE DEF offset
<1>4. /\ n > 0 => offset[1] = 0
      /\ \A i \in 2 .. n : offset[i] = offset[i - 1] + Len(seqs[i - 1])
  <2>1. \A i \in 1 .. n : offset[i] = IF i = 1 THEN 0 ELSE offset[i - 1] + Len(seqs[i - 1])
    BY <1>3
  <2>2. /\ n > 0 => 1 \in 1 .. n
        /\ \A i \in 2 .. n : i \in 1 .. n /\ i # 1
    OBVIOUS
  <2> QED
    BY <2>1, <2>2
<1>5. offset = [i \in 1 .. n |-> offset[i]]
  BY <1>3
<1>6. 1 .. n \subseteq {i \in 1 .. n : offset[i] \in Nat}
  <2> DEFINE I == {i \in Nat : i <= n => offset[i] \in Nat}
  <2>1. CASE n = 0
    BY <2>1
  <2>2. CASE n > 0
    <3>1. 1 \in I
      BY <1>4, <2>2
    <3>2. ASSUME NEW i \in 2 .. n, i - 1 \in I
          PROVE  i \in I
      <4>1. offset[i] = offset[i - 1] + Len(seqs[i - 1]) /\ offset[i - 1] \in Nat
        BY <1>4, <3>2
      <4>2. i \in Nat /\ Len(seqs[i - 1]) \in Nat
        OBVIOUS
      <4> QED
        BY <4>1, <4>2
    <3> HIDE DEF I
    <3>3. 1 .. n \subseteq I
      BY <3>1, <3>2, InductionUpTo
    <3> QED
      BY <3>3 DEF I
  <2> QED
    BY <2>1, <2>2
<1>7. offset \in [1 .. n -> Nat]
  BY <1>5, <1>6
<1> QED
  BY <1>1, <1>4, <1>7 DEF IsOffsets

HasSlices(flat, n, seqs, offset) ==
  /\ Len(flat) = offset[n] + Len(seqs[n])
  /\ \A i \in 1 .. n :
       /\ offset[i] + Len(seqs[i]) <= Len(flat)
       /\ \A j \in 1 .. Len(seqs[i]) : flat[offset[i] + j] = seqs[i][j]

\* Each sequence is in the flattened one, at its offset.
LEMMA FlattenSlices ==
  ASSUME NEW S, NEW n \in Nat \ {0}, NEW seqs \in [1 .. n -> Seq(S)],
         NEW offset, IsOffsets(offset, n, seqs)
  PROVE  FlattenSeq(seqs) \in Seq(S) /\ HasSlices(FlattenSeq(seqs), n, seqs, offset)
<1>1. PICK flat : FlattensTo(flat, n, S, seqs)
  BY FlattenPrefixes
<1> DEFINE Has(k) ==
             /\ Len(flat[k]) = offset[k] + Len(seqs[k])
             /\ \A i \in 1 .. k :
                  /\ offset[i] + Len(seqs[i]) <= Len(flat[k])
                  /\ \A j \in 1 .. Len(seqs[i]) : flat[k][offset[i] + j] = seqs[i][j]
           I == {k \in 1 .. n : Has(k)}
<1>2. 1 \in I
  <2>1. flat[1] = seqs[1] /\ offset[1] = 0 /\ seqs[1] \in Seq(S) /\ 1 \in 1 .. n
    BY <1>1 DEF IsOffsets, FlattensTo
  <2>2. \A i \in 1 .. 1 : i = 1
    OBVIOUS
  <2>3. Len(seqs[1]) \in Nat /\ \A j \in 1 .. Len(seqs[1]) : 0 + j = j
    BY <2>1
  <2>4. Has(1)
    BY <2>1, <2>2, <2>3
  <2> QED
    BY <2>1, <2>4
<1>3. ASSUME NEW k \in 2 .. n, k - 1 \in I
      PROVE  k \in I
  <2>1. /\ k \in 1 .. n /\ k - 1 \in 1 .. n /\ flat[k] = flat[k - 1] \o seqs[k]
        /\ offset[k] = offset[k - 1] + Len(seqs[k - 1])
        /\ flat[k - 1] \in Seq(S) /\ seqs[k] \in Seq(S)
        /\ \A i \in 1 .. n : seqs[i] \in Seq(S) /\ offset[i] \in Nat
    <3>1. k \in 1 .. n /\ k - 1 \in 1 .. n
      OBVIOUS
    <3>2. \A i \in 1 .. n : seqs[i] \in Seq(S) /\ offset[i] \in Nat /\ flat[i] \in Seq(S)
      BY <1>1 DEF IsOffsets, FlattensTo
    <3>3. /\ flat[k] = flat[k - 1] \o seqs[k]
          /\ offset[k] = offset[k - 1] + Len(seqs[k - 1])
      BY <1>1 DEF IsOffsets, FlattensTo
    <3> QED
      BY <3>1, <3>2, <3>3
  <2>2. Has(k - 1)
    BY <1>3
  <2>3. Len(flat[k - 1]) = offset[k]
    BY <2>1, <2>2
  <2>4. Len(flat[k]) = offset[k] + Len(seqs[k])
    BY <2>1, <2>3
  <2>5. ASSUME NEW i \in 1 .. k
        PROVE  /\ offset[i] + Len(seqs[i]) <= Len(flat[k])
               /\ \A j \in 1 .. Len(seqs[i]) : flat[k][offset[i] + j] = seqs[i][j]
    <3>1. CASE i = k
      <4>1. ASSUME NEW j \in 1 .. Len(seqs[k])
            PROVE  (flat[k - 1] \o seqs[k])[Len(flat[k - 1]) + j] = seqs[k][j]
        BY <2>1
      <4>2. \A j \in 1 .. Len(seqs[k]) : flat[k][offset[k] + j] = seqs[k][j]
        BY <2>1, <2>3, <4>1
      <4>3. offset[k] + Len(seqs[k]) <= Len(flat[k])
        BY <2>1, <2>4
      <4> QED
        BY <3>1, <4>2, <4>3
    <3>2. CASE i # k
      <4>1. i \in 1 .. k - 1 /\ i \in 1 .. n
        BY <3>2
      <4>2. /\ offset[i] + Len(seqs[i]) <= Len(flat[k - 1])
            /\ \A j \in 1 .. Len(seqs[i]) : flat[k - 1][offset[i] + j] = seqs[i][j]
        BY <2>2, <4>1
      <4>3. Len(seqs[k]) \in Nat /\ Len(seqs[i]) \in Nat /\ offset[i] \in Nat
        BY <2>1, <4>1
      <4>4. ASSUME NEW j \in 1 .. Len(seqs[i])
            PROVE  flat[k][offset[i] + j] = seqs[i][j]
        <5> DEFINE len == Len(flat[k - 1])
                   part == Len(seqs[i])
                   at == offset[i]
        <5>0. len \in Nat /\ part \in Nat /\ at \in Nat /\ at + part <= len /\ j \in 1 .. part
          BY <2>1, <4>2, <4>3
        <5> HIDE DEF len, part, at
        <5>4. at + j \in 1 .. len
          BY <5>0
        <5>1. offset[i] + j \in 1 .. Len(flat[k - 1])
          BY <5>4 DEF at, len
        <5>2. flat[k][offset[i] + j] = flat[k - 1][offset[i] + j]
          BY <2>1, <5>1
        <5> QED
          BY <4>2, <5>2
      <4>5. offset[i] + Len(seqs[i]) <= Len(flat[k])
        BY <2>1, <2>3, <2>4, <4>2, <4>3
      <4> QED
        BY <4>4, <4>5
    <3> QED
      BY <3>1, <3>2
  <2>6. Has(k)
    BY <2>4, <2>5
  <2> HIDE DEF Has
  <2> QED
    BY <2>1, <2>6
<1> HIDE DEF I
<1>4. 1 .. n \subseteq I
  BY <1>2, <1>3, InductionUpTo
<1>5. Has(n)
  BY <1>4 DEF I
<1> QED
  BY <1>1, <1>5 DEF FlattensTo, HasSlices

\* The bytes of a chunk are its sequence, when the offsets are right.
LEMMA ChunkBytesAt ==
  ASSUME NEW S, NEW n \in Nat \ {0}, NEW seqs \in [1 .. n -> Seq(S)],
         NEW file, file.data = FlattenSeq(seqs),
         IsOffsets(file.chunk_offsets, n, seqs), NEW i \in 1 .. n
  PROVE  ChunkBytes(file, i) = seqs[i]
<1> DEFINE flat == file.data
           offset == file.chunk_offsets
           first == offset[i] + 1
           last == IF i < n THEN offset[i + 1] ELSE Len(flat)
           slice == SubSeq(flat, first, last)
<1>1. /\ flat \in Seq(S) /\ Len(flat) = offset[n] + Len(seqs[n])
      /\ offset[i] + Len(seqs[i]) <= Len(flat)
      /\ \A j \in 1 .. Len(seqs[i]) : flat[offset[i] + j] = seqs[i][j]
  <2>1. flat \in Seq(S) /\ HasSlices(flat, n, seqs, offset)
    BY FlattenSlices
  <2> HIDE DEF flat, offset
  <2> QED
    BY <2>1 DEF HasSlices
<1>2. ChunkBytes(file, i) = slice
  <2>1. Len(offset) = n
    BY DEF IsOffsets
  <2> QED
    BY <2>1 DEF ChunkBytes
<1>3. last = offset[i] + Len(seqs[i])
  <2>1. CASE i < n
    <3>1. i + 1 \in 2 .. n /\ (i + 1) - 1 = i
      BY <2>1
    <3> QED
      BY <2>1, <3>1 DEF IsOffsets
  <2>2. CASE i = n
    BY <1>1, <2>2
  <2> QED
    BY <2>1, <2>2
<1>4. offset[i] \in Nat /\ seqs[i] \in Seq(S) /\ Len(seqs[i]) \in Nat
  BY DEF IsOffsets
<1> HIDE DEF flat, offset, last
<1>5. /\ first \in Int /\ last \in Int /\ last - first + 1 = Len(seqs[i])
      /\ \A j \in 1 .. Len(seqs[i]) : first + j - 1 = offset[i] + j
  <2> DEFINE at == offset[i]
             part == Len(seqs[i])
  <2>1. at \in Nat /\ part \in Nat /\ last = at + part /\ first = at + 1
    BY <1>3, <1>4
  <2> HIDE DEF at, part, first
  <2>2. /\ first \in Int /\ last \in Int /\ last - first + 1 = part
        /\ \A j \in 1 .. part : first + j - 1 = at + j
    BY <2>1
  <2> QED
    BY <2>2 DEF at, part
<1>6. \A j \in first .. last : flat[j] \in S
  BY <1>1, <1>3, <1>4
<1> HIDE DEF first
<1>7. /\ slice \in Seq(S) /\ Len(slice) = IF first <= last THEN last - first + 1 ELSE 0
      /\ \A j \in 1 .. last - first + 1 : slice[j] = flat[first + j - 1]
  BY <1>5, <1>6, SubSeqProperties
<1> HIDE DEF slice
<1>8. Len(slice) = Len(seqs[i])
  BY <1>4, <1>5, <1>7
<1>9. \A j \in 1 .. Len(seqs[i]) : slice[j] = seqs[i][j]
  BY <1>1, <1>5, <1>7
<1>10. slice = seqs[i]
  BY <1>4, <1>7, <1>8, <1>9, SeqEqual
<1> QED
  BY <1>2, <1>10

\* Offsets depend on the lengths only.
LEMMA OffsetsUnique ==
  ASSUME NEW n \in Nat, NEW s, NEW t, \A i \in 1 .. n : Len(s[i]) = Len(t[i]),
         NEW p, IsOffsets(p, n, s), NEW q, IsOffsets(q, n, t)
  PROVE  p = q
<1> DEFINE I == {i \in Nat : i > n \/ p[i] = q[i]}
<1>1. 1 \in I
  BY DEF IsOffsets
<1>2. ASSUME NEW i \in 2 .. n, i - 1 \in I
      PROVE  i \in I
  <2>1. i - 1 \in 1 .. n /\ p[i - 1] = q[i - 1]
    BY <1>2
  <2>2. p[i] = p[i - 1] + Len(s[i - 1]) /\ q[i] = q[i - 1] + Len(t[i - 1])
    BY DEF IsOffsets
  <2> QED
    BY <2>1, <2>2
<1> HIDE DEF I
<1>3. 1 .. n \subseteq I
  BY <1>1, <1>2, InductionUpTo
<1>4. \A i \in 1 .. n : p[i] = q[i]
  BY <1>3 DEF I
<1> QED
  BY <1>4 DEF IsOffsets

-----------------------------------------------------------------------------
(* Chunks *)

\* Every chunk but the last is full, and the last is not empty.
LEMMA ChunkCountBounds ==
  ASSUME NEW T, NEW text \in Seq(T)
  PROVE  /\ ChunkCount(text) \in Nat
         /\ ChunkCount(text) = 0 <=> text = <<>>
         /\ Len(text) <= ChunkCount(text) * ChunkSize
         /\ \A i \in 1 .. ChunkCount(text) : (i - 1) * ChunkSize < Len(text)
<1> DEFINE a == Len(text) + ChunkSize - 1
           n == a \div ChunkSize
<1>1. Len(text) \in Nat /\ ChunkSize \in Nat \ {0} /\ a \in Nat
  BY CipherAssumption
<1>2. n \in Nat /\ a % ChunkSize \in 0 .. ChunkSize - 1 /\ a = ChunkSize * n + (a % ChunkSize)
  BY <1>1, Division
<1>3. ChunkCount(text) = n
  BY DEF ChunkCount
<1> HIDE DEF n
<1> DEFINE r == a % ChunkSize
<1>4. r \in 0 .. ChunkSize - 1 /\ Len(text) + ChunkSize - 1 = ChunkSize * n + r
  BY <1>2
<1> HIDE DEF r, a
<1>5. Len(text) <= n * ChunkSize
  BY <1>1, <1>2, <1>4
<1>6. n = 0 => Len(text) = 0
  BY <1>1, <1>2, <1>4
<1>7. ASSUME NEW i \in 1 .. n
      PROVE  (i - 1) * ChunkSize < Len(text)
  <2>1. n = i + (n - i) /\ n - i \in Nat
    BY <1>2
  <2>2. ChunkSize * n = ChunkSize * i + ChunkSize * (n - i)
    BY <1>1, <1>2, <2>1
  <2>3. ChunkSize * (n - i) \in Nat /\ ChunkSize * i \in Nat
    BY <1>1, <2>1
  <2>4. ChunkSize * n >= ChunkSize * i
    BY <1>1, <1>2, <2>2, <2>3
  <2>5. (i - 1) * ChunkSize = ChunkSize * i - ChunkSize
    BY <1>1
  <2> QED
    BY <1>1, <1>2, <1>4, <2>3, <2>4, <2>5
<1>8. Len(text) = 0 => n = 0
  <2>1. n # 0 => (1 - 1) * ChunkSize < Len(text)
    BY <1>2, <1>7
  <2>2. (1 - 1) * ChunkSize = 0
    BY <1>1
  <2> QED
    BY <1>1, <2>1, <2>2
<1>9. text = <<>> <=> Len(text) = 0
  BY EmptySeq, <1>1
<1> QED
  BY <1>2, <1>3, <1>5, <1>6, <1>7, <1>8, <1>9

\* A chunk is the part of the text at its place.
LEMMA ChunkType ==
  ASSUME NEW T, NEW text \in Seq(T), NEW i \in 1 .. ChunkCount(text)
  PROVE  /\ (i - 1) * ChunkSize \in Nat
         /\ Chunk(text, i) \in Seq(T)
         /\ Len(Chunk(text, i)) \in Nat
         /\ Len(Chunk(text, i))
              = (IF i = ChunkCount(text) THEN Len(text) ELSE i * ChunkSize) - (i - 1) * ChunkSize
         /\ \A j \in 1 .. Len(Chunk(text, i)) :
              Chunk(text, i)[j] = text[(i - 1) * ChunkSize + j]
<1> DEFINE n == ChunkCount(text)
           before == (i - 1) * ChunkSize
           first == before + 1
           last == Minimum(i * ChunkSize, Len(text))
           chunk == SubSeq(text, first, last)
<1>1. /\ Len(text) \in Nat /\ ChunkSize \in Nat \ {0} /\ n \in Nat
      /\ before < Len(text) /\ Len(text) <= n * ChunkSize
  BY CipherAssumption, ChunkCountBounds
<1>2. before \in Nat /\ i * ChunkSize \in Nat /\ i * ChunkSize = before + ChunkSize
  BY <1>1
<1>3. i = n => last = Len(text)
  BY <1>1, <1>2 DEF Minimum
<1>4. i # n => last = i * ChunkSize
  <2>1. CASE i # n
    <3>1. i + 1 \in 1 .. n
      BY <1>1, <2>1
    <3>2. ((i + 1) - 1) * ChunkSize < Len(text)
      BY <3>1, ChunkCountBounds
    <3>3. (i + 1) - 1 = i
      OBVIOUS
    <3> QED
      BY <1>1, <1>2, <3>2, <3>3 DEF Minimum
  <2> QED
    BY <2>1
<1>5. last \in Nat /\ before < last /\ last <= Len(text)
  BY <1>1, <1>2 DEF Minimum
<1> HIDE DEF before, last, n
<1>6. \A j \in first .. last : text[j] \in T
  BY <1>1, <1>2, <1>5
<1>7. /\ chunk \in Seq(T) /\ Len(chunk) = IF first <= last THEN last - first + 1 ELSE 0
      /\ \A j \in 1 .. last - first + 1 : chunk[j] = text[first + j - 1]
  <2>1. first \in Int /\ last \in Int
    BY <1>2, <1>5
  <2> HIDE DEF first
  <2> QED
    BY <1>6, <2>1, SubSeqProperties
<1>8. chunk = Chunk(text, i)
  BY DEF Chunk, before, last
<1> HIDE DEF chunk
<1>9. Len(chunk) = last - before /\ Len(chunk) \in Nat
  BY <1>2, <1>5, <1>7
<1>10. ASSUME NEW j \in 1 .. Len(chunk)
       PROVE  chunk[j] = text[before + j]
  <2>1. j \in 1 .. last - first + 1 /\ first + j - 1 = before + j
    BY <1>2, <1>5, <1>9
  <2> HIDE DEF first
  <2> QED
    BY <1>7, <2>1
<1>11. Len(chunk) = (IF i = n THEN Len(text) ELSE i * ChunkSize) - before
  BY <1>3, <1>4, <1>9
<1> QED
  BY <1>2, <1>7, <1>8, <1>9, <1>10, <1>11 DEF before, n

\* The chunks one after the other are the text.
LEMMA ChunksJoin ==
  ASSUME NEW T, NEW text \in Seq(T)
  PROVE  FlattenSeq([i \in 1 .. ChunkCount(text) |-> Chunk(text, i)]) = text
<1> DEFINE n == ChunkCount(text)
           chunks == [i \in 1 .. n |-> Chunk(text, i)]
           offset == [i \in 1 .. n |-> (i - 1) * ChunkSize]
<1>1. /\ Len(text) \in Nat /\ ChunkSize \in Nat \ {0} /\ n \in Nat
      /\ n = 0 <=> text = <<>>
      /\ Len(text) <= n * ChunkSize
  BY CipherAssumption, ChunkCountBounds
<1>2. CASE n = 0
  <2>1. chunks = <<>> /\ Len(chunks) = 0
    BY <1>2
  <2> QED
    BY <1>1, <1>2, <2>1 DEF FlattenSeq
<1>3. CASE n # 0
  <2>1. n \in Nat \ {0}
    BY <1>1, <1>3
  <2>2. \A i \in 1 .. n :
          /\ (i - 1) * ChunkSize \in Nat
          /\ Chunk(text, i) \in Seq(T)
          /\ Len(Chunk(text, i)) \in Nat
          /\ Len(Chunk(text, i))
               = (IF i = n THEN Len(text) ELSE i * ChunkSize) - (i - 1) * ChunkSize
          /\ \A j \in 1 .. Len(Chunk(text, i)) :
               Chunk(text, i)[j] = text[(i - 1) * ChunkSize + j]
    BY ChunkType
  <2> HIDE DEF n
  <2>3. chunks \in [1 .. n -> Seq(T)]
    BY <2>2
  <2>4. offset \in [1 .. n -> Nat] /\ offset[1] = 0
    <3>1. (1 - 1) * ChunkSize = 0 /\ 1 \in 1 .. n
      BY <1>1, <2>1
    <3> QED
      BY <2>2, <3>1
  <2>5. ASSUME NEW i \in 2 .. n
        PROVE  offset[i] = offset[i - 1] + Len(chunks[i - 1])
    <3>1. i - 1 \in 1 .. n /\ i - 1 # n /\ i \in 1 .. n
      BY <1>1
    <3>2. Len(chunks[i - 1]) = (i - 1) * ChunkSize - ((i - 1) - 1) * ChunkSize
      BY <2>2, <3>1
    <3>3. offset[i] = (i - 1) * ChunkSize /\ offset[i - 1] = ((i - 1) - 1) * ChunkSize
      BY <3>1
    <3>4. (i - 1) * ChunkSize \in Int /\ ((i - 1) - 1) * ChunkSize \in Int
      BY <1>1
    <3> HIDE DEF offset, chunks
    <3> QED
      BY <3>2, <3>3, <3>4
  <2>6. IsOffsets(offset, n, chunks)
    <3> HIDE DEF offset, chunks
    <3> QED
      BY <2>4, <2>5 DEF IsOffsets
  <2> DEFINE flat == FlattenSeq(chunks)
  <2>7. flat \in Seq(T) /\ HasSlices(flat, n, chunks, offset)
    <3> HIDE DEF offset, chunks
    <3> QED
      BY <2>1, <2>3, <2>6, FlattenSlices
  <2> HIDE DEF flat
  <2>8. Len(flat) = Len(text)
    <3>1. n \in 1 .. n
      BY <2>1
    <3>2. /\ Len(flat) = offset[n] + Len(chunks[n])
          /\ offset[n] = (n - 1) * ChunkSize
          /\ Len(chunks[n]) = Len(text) - (n - 1) * ChunkSize
          /\ (n - 1) * ChunkSize \in Nat
      BY <2>2, <2>7, <3>1 DEF HasSlices
    <3> HIDE DEF offset, chunks
    <3> QED
      BY <1>1, <3>2
  <2>9. ASSUME NEW p \in 1 .. Len(text)
        PROVE  flat[p] = text[p]
    <3> DEFINE q == (p - 1) \div ChunkSize
               r == (p - 1) % ChunkSize
               i == q + 1
               j == r + 1
    <3>1. q \in Nat /\ r \in 0 .. ChunkSize - 1 /\ p - 1 = ChunkSize * q + r
      <4>1. p - 1 \in Nat
        OBVIOUS
      <4> QED
        BY <1>1, <4>1, Division
    <3> HIDE DEF q, r
    <3>2. q < n
      <4>1. ChunkSize * q <= p - 1 /\ p - 1 < n * ChunkSize
        BY <1>1, <3>1
      <4> QED
        BY <1>1, <3>1, <4>1
    <3>3. i \in 1 .. n /\ (i - 1) * ChunkSize = ChunkSize * q /\ i * ChunkSize = ChunkSize * q + ChunkSize
      BY <1>1, <3>1, <3>2
    <3>4. (i - 1) * ChunkSize + j = p /\ ChunkSize * q \in Nat
      BY <1>1, <3>1, <3>3
    <3> HIDE DEF i
    <3>5. Len(chunks[i]) = (IF i = n THEN Len(text) ELSE i * ChunkSize) - (i - 1) * ChunkSize
      BY <2>2, <3>3
    <3>6. j \in 1 .. Len(chunks[i])
      <4> HIDE DEF chunks
      <4>1. CASE i = n
        <5>1. Len(chunks[i]) = Len(text) - ChunkSize * q
          BY <3>3, <3>5, <4>1
        <5>2. p \in Nat /\ p <= Len(text) /\ p = ChunkSize * q + j /\ j >= 1 /\ j \in Nat
          BY <1>1, <3>1, <3>3, <3>4
        <5> HIDE DEF j
        <5> QED
          BY <1>1, <3>4, <5>1, <5>2
      <4>2. CASE i # n
        <5>1. Len(chunks[i]) = ChunkSize
          BY <1>1, <3>3, <3>4, <3>5, <4>2
        <5> QED
          BY <1>1, <3>1, <5>1
      <4> QED
        BY <4>1, <4>2
    <3> HIDE DEF j
    <3>7. flat[offset[i] + j] = chunks[i][j]
      BY <2>7, <3>3, <3>6 DEF HasSlices
    <3>8. offset[i] = (i - 1) * ChunkSize /\ chunks[i][j] = text[(i - 1) * ChunkSize + j]
      BY <2>2, <3>3, <3>6
    <3> QED
      BY <3>4, <3>7, <3>8
  <2> QED
    BY <2>7, <2>8, <2>9, SeqEqual DEF flat, n
<1> QED
  BY <1>1, <1>2, <1>3

-----------------------------------------------------------------------------
(* Encrypted files *)

\* What an encrypted chunk is made of.
Sealed(key, text) ==
  {[kind |-> "sealed", key |-> key, nonce |-> i, text |-> Chunk(text, i), at |-> n] :
     i \in 1 .. ChunkCount(text), n \in Nat}

SealedChunks(key, text) ==
  [i \in 1 .. ChunkCount(text) |-> Encrypt(key, i, Chunk(text, i))]

\* Decryption with the same key undoes encryption.
LEMMA EncryptBytes ==
  ASSUME NEW key, NEW nonce, NEW text, Len(text) \in Nat
  PROVE  /\ Len(Encrypt(key, nonce, text)) = Len(text) + SealBytes
         /\ Decrypt(key, Encrypt(key, nonce, text)) = Ok(text)
<1> DEFINE bytes == Encrypt(key, nonce, text)
<1>1. SealBytes \in Nat \ {0}
  BY CipherAssumption
<1>2. Len(bytes) = Len(text) + SealBytes
  BY <1>1 DEF Encrypt
<1>3. bytes[1] = [kind |-> "sealed", key |-> key, nonce |-> nonce, text |-> text, at |-> 1]
  <2>1. 1 \in 1 .. Len(text) + SealBytes
    BY <1>1
  <2> QED
    BY <2>1 DEF Encrypt
<1>4. bytes[1].kind = "sealed" /\ bytes[1].nonce = nonce /\ bytes[1].text = text
  BY <1>3
<1>5. ~(Len(bytes) < SealBytes)
  BY <1>1, <1>2
<1>6. bytes = Encrypt(key, bytes[1].nonce, bytes[1].text)
  BY <1>4
<1> HIDE DEF bytes
<1>7. Decrypt(key, bytes) = Ok(text)
  BY <1>4, <1>5, <1>6 DEF Decrypt
<1> QED
  BY <1>2, <1>7 DEF bytes

\* A sealed chunk is longer than its text by the nonce and the tag.
LEMMA SealedChunksType ==
  ASSUME NEW T, NEW text \in Seq(T), NEW key
  PROVE  /\ SealedChunks(key, text) \in [1 .. ChunkCount(text) -> Seq(Sealed(key, text))]
         /\ \A i \in 1 .. ChunkCount(text) :
              Len(SealedChunks(key, text)[i]) = Len(Chunk(text, i)) + SealBytes
<1>1. SealBytes \in Nat
  BY CipherAssumption
<1>2. ASSUME NEW i \in 1 .. ChunkCount(text)
      PROVE  /\ Encrypt(key, i, Chunk(text, i)) \in Seq(Sealed(key, text))
             /\ Len(Encrypt(key, i, Chunk(text, i))) = Len(Chunk(text, i)) + SealBytes
  <2> DEFINE m == Len(Chunk(text, i)) + SealBytes
  <2>1. Len(Chunk(text, i)) \in Nat
    BY ChunkType
  <2>2. m \in Nat
    BY <1>1, <2>1
  <2>3. \A n \in 1 .. m :
          [kind |-> "sealed", key |-> key, nonce |-> i, text |-> Chunk(text, i), at |-> n]
            \in Sealed(key, text)
    BY DEF Sealed
  <2>4. Encrypt(key, i, Chunk(text, i)) \in [1 .. m -> Sealed(key, text)]
    BY <2>3 DEF Encrypt
  <2>5. Len(Encrypt(key, i, Chunk(text, i))) = m
    BY <2>1, EncryptBytes
  <2> HIDE DEF m
  <2>6. Encrypt(key, i, Chunk(text, i)) \in Seq(Sealed(key, text))
    BY <2>2, <2>4, SeqDef
  <2> QED
    BY <2>5, <2>6 DEF m
<1> QED
  BY <1>2 DEF SealedChunks

\* What EncryptFile makes.
LEMMA EncryptedFile ==
  ASSUME NEW T, NEW text \in Seq(T), NEW key
  PROVE  LET file == EncryptFile(key, text)
         IN /\ file = [data |-> file.data, chunk_offsets |-> file.chunk_offsets]
            /\ file.data \in Seq(Sealed(key, text))
            /\ file.data = FlattenSeq(SealedChunks(key, text))
            /\ IsOffsets(file.chunk_offsets, ChunkCount(text), SealedChunks(key, text))
            /\ Len(file.chunk_offsets) = ChunkCount(text)
<1> DEFINE file == EncryptFile(key, text)
           n == ChunkCount(text)
           chunks == SealedChunks(key, text)
<1>1. n \in Nat
  BY ChunkCountBounds
<1>2. chunks \in [1 .. n -> Seq(Sealed(key, text))]
  BY SealedChunksType
<1>3. file = [data |-> FlattenSeq(chunks), chunk_offsets |-> OffsetsOf(n, chunks)]
  BY DEF EncryptFile, SealedChunks, OffsetsOf
<1> HIDE DEF file, n, chunks
<1>4. /\ file = [data |-> file.data, chunk_offsets |-> file.chunk_offsets]
      /\ file.data = FlattenSeq(chunks) /\ file.chunk_offsets = OffsetsOf(n, chunks)
  BY <1>3
<1>5. IsOffsets(file.chunk_offsets, n, chunks)
  BY <1>1, <1>2, <1>4, OffsetsDefined
<1>6. Len(file.chunk_offsets) = n
  BY <1>1, <1>5 DEF IsOffsets
<1>7. FlattenSeq(chunks) \in Seq(Sealed(key, text))
  <2>1. CASE n = 0
    <3>1. chunks = <<>> /\ Len(chunks) = 0
      BY <1>2, <2>1
    <3> QED
      BY <3>1 DEF FlattenSeq
  <2>2. CASE n # 0
    BY <1>1, <1>2, <1>4, <1>5, <2>2, FlattenSlices
  <2> QED
    BY <2>1, <2>2
<1> QED
  BY <1>4, <1>5, <1>6, <1>7 DEF file, n, chunks

\* Each chunk of an encrypted file opens alone, and there are no more.
LEMMA EncryptedChunkOpens ==
  ASSUME NEW T, NEW text \in Seq(T), NEW key, NEW i \in 1 .. ChunkCount(text)
  PROVE  /\ ChunkBytes(EncryptFile(key, text), i) = SealedChunks(key, text)[i]
         /\ Decrypt(key, ChunkBytes(EncryptFile(key, text), i)) = Ok(Chunk(text, i))
<1> DEFINE file == EncryptFile(key, text)
           n == ChunkCount(text)
           chunks == SealedChunks(key, text)
           S == Sealed(key, text)
<1>1. n \in Nat \ {0}
  BY ChunkCountBounds
<1>2. chunks \in [1 .. n -> Seq(S)]
  BY SealedChunksType
<1>3. file.data = FlattenSeq(chunks) /\ IsOffsets(file.chunk_offsets, n, chunks)
  BY EncryptedFile
<1>4. chunks[i] = Encrypt(key, i, Chunk(text, i)) /\ i \in 1 .. n
  BY DEF SealedChunks
<1>5. Len(Chunk(text, i)) \in Nat
  BY ChunkType
<1> HIDE DEF file, n, chunks, S
<1>6. ChunkBytes(file, i) = chunks[i]
  BY <1>1, <1>2, <1>3, <1>4, ChunkBytesAt
<1>7. Decrypt(key, chunks[i]) = Ok(Chunk(text, i))
  BY <1>4, <1>5, EncryptBytes
<1> QED
  BY <1>6, <1>7 DEF file, chunks

\* Decrypting what was encrypted gives it back, whatever its length.
THEOREM DecryptEncrypted ==
  ASSUME NEW T, NEW text \in Seq(T), NEW key
  PROVE  DecryptFile(key, EncryptFile(key, text)) = Ok(text)
<1> DEFINE file == EncryptFile(key, text)
           n == ChunkCount(text)
           opened == [i \in 1 .. Len(file.chunk_offsets) |-> Decrypt(key, ChunkBytes(file, i))]
<1>1. Len(file.chunk_offsets) = n
  BY EncryptedFile
<1>2. \A i \in 1 .. n : Decrypt(key, ChunkBytes(file, i)) = Ok(Chunk(text, i))
  BY EncryptedChunkOpens
<1> HIDE DEF file, n
<1>3. opened = [i \in 1 .. n |-> Ok(Chunk(text, i))]
  BY <1>1, <1>2
<1>4. DecryptFile(key, file) =
        IF \E i \in DOMAIN opened : ~opened[i].ok
          THEN Err("decryption failed")
          ELSE Ok(FlattenSeq([i \in DOMAIN opened |-> opened[i].value]))
  BY DEF DecryptFile
<1> HIDE DEF opened
<1>5. ~\E i \in DOMAIN opened : ~opened[i].ok
  BY <1>3 DEF Ok
<1>6. [i \in DOMAIN opened |-> opened[i].value] = [i \in 1 .. n |-> Chunk(text, i)]
  BY <1>3 DEF Ok
<1>7. FlattenSeq([i \in 1 .. n |-> Chunk(text, i)]) = text
  BY ChunksJoin DEF n
<1> QED
  BY <1>4, <1>5, <1>6, <1>7 DEF file

\* Parsing an encrypted file ignores the padding that follows it.
LEMMA ParsePadded ==
  ASSUME NEW S, NEW file, file.data \in Seq(S),
         NEW size \in Nat, size >= Len(ToBytes(file))
  PROVE  FromBytes(Padded(ToBytes(file), size))
           = Ok([data |-> file.data, chunk_offsets |-> file.chunk_offsets])
<1> DEFINE data == file.data
           n == Len(data)
           header == [kind |-> "length", length |-> n]
           fields == [kind |-> "fields", chunk_offsets |-> file.chunk_offsets]
           U == S \cup {header, fields}
           bytes == ToBytes(file)
           padded == Padded(bytes, size)
<1>1. /\ data \in Seq(S) /\ n \in Nat
      /\ \A j \in 1 .. n : data[j] \in S
  OBVIOUS
<1>2. bytes = (<<header>> \o data) \o <<fields>>
  BY DEF ToBytes
<1>3. header.kind = "length" /\ header.length = n /\ fields.kind = "fields"
      /\ fields.chunk_offsets = file.chunk_offsets
  OBVIOUS
<1> HIDE DEF data, header, fields, bytes
<1>4. data \in Seq(U) /\ <<header>> \in Seq(U) /\ <<fields>> \in Seq(U)
  BY <1>1
<1> HIDE DEF n, U
<1>5. /\ Len(bytes) = n + 2
      /\ bytes[1] = header /\ bytes[n + 2] = fields
      /\ \A j \in 1 .. n : bytes[j + 1] = data[j]
  BY <1>1, <1>2, <1>4 DEF n
<1>6. /\ Len(padded) = size
      /\ padded[1] = header /\ padded[n + 2] = fields
      /\ \A j \in 1 .. n : padded[j + 1] = data[j]
  <2>1. size >= n + 2
    BY <1>5 DEF bytes
  <2> QED
    BY <1>1, <1>5, <2>1 DEF Padded
<1>7. size >= n + 2
  BY <1>5 DEF bytes
<1> HIDE DEF padded
<1>8. SubSeq(padded, 2, n + 1) = data
  <2> DEFINE slice == SubSeq(padded, 2, n + 1)
  <2>1. \A j \in 2 .. n + 1 : padded[j] \in S
    <3>1. \A j \in 2 .. n + 1 : j - 1 \in 1 .. n /\ (j - 1) + 1 = j
      BY <1>1
    <3> QED
      BY <1>1, <1>6, <3>1
  <2>2. 2 \in Int /\ n + 1 \in Int /\ (n + 1) - 2 + 1 = n
    BY <1>1
  <2>3. /\ slice \in Seq(S)
        /\ Len(slice) = IF 2 <= n + 1 THEN (n + 1) - 2 + 1 ELSE 0
        /\ \A j \in 1 .. (n + 1) - 2 + 1 : slice[j] = padded[2 + j - 1]
    BY <2>1, <2>2, SubSeqProperties
  <2> HIDE DEF slice
  <2>4. Len(slice) = n
    BY <1>1, <2>2, <2>3
  <2>5. \A j \in 1 .. n : slice[j] = data[j]
    <3>1. \A j \in 1 .. n : 2 + j - 1 = j + 1
      OBVIOUS
    <3> QED
      BY <1>6, <2>2, <2>3, <3>1
  <2>6. slice = data
    BY <1>1, <2>3, <2>4, <2>5, SeqEqual DEF n
  <2> QED
    BY <2>6 DEF slice
<1>9. FromBytes(padded) = Ok([data |-> data, chunk_offsets |-> file.chunk_offsets])
  <2>1. /\ padded[1].length = n /\ padded[1].kind = "length"
        /\ padded[n + 2].kind = "fields" /\ padded[n + 2].chunk_offsets = file.chunk_offsets
    BY <1>3, <1>6
  <2>2. ~(Len(padded) < n + 2)
    BY <1>1, <1>6, <1>7
  <2> QED
    BY <1>8, <2>1, <2>2 DEF FromBytes
<1> QED
  BY <1>9 DEF padded, bytes, data

-----------------------------------------------------------------------------
(* The invariant *)

\* The metadata of the uploads so far.
Made == {FileMetadata(o, f, key) : o \in Owners, f \in Files, key \in 1 .. uploads}

\* An index holds metadata of uploads only, each under its file's id.
IsIndex(i) ==
  /\ i \in [Files -> Made \cup {None}]
  /\ \A f \in Files : i[f] # None => i[f].file_id = f

IInv ==
  /\ uploads \in 0 .. MaxUploads
  /\ prepared \subseteq Made
  /\ index \in [Owners -> [Files -> Made \cup {None}]]
  /\ exported \in [Owners -> [Files -> Made \cup {None}]]
  /\ \A o \in Owners : IsIndex(index[o]) /\ IsIndex(exported[o])
  /\ stored \in [Files -> [Shards -> (1 .. uploads) \cup {None}]]

\* Where the header, the sealed chunks and the fields of a file are.
LEMMA FileLayout ==
  ASSUME NEW f \in Files, NEW key
  PROVE  LET file == EncryptFile(key, f)
             n == Len(file.data)
             bytes == EncryptedBytes(f, key)
         IN /\ n \in Nat
            /\ Len(bytes) = n + 2
            /\ bytes[1] = [kind |-> "length", length |-> n]
            /\ bytes[n + 2] = [kind |-> "fields", chunk_offsets |-> file.chunk_offsets]
            /\ \A j \in 1 .. n : bytes[j + 1] = file.data[j]
<1> DEFINE file == EncryptFile(key, f)
           n == Len(file.data)
           header == [kind |-> "length", length |-> n]
           fields == [kind |-> "fields", chunk_offsets |-> file.chunk_offsets]
           S == Sealed(key, f)
           U == S \cup {header, fields}
           bytes == EncryptedBytes(f, key)
<1>1. file.data \in Seq(S)
  BY FileAssumption, EncryptedFile
<1>2. bytes = (<<header>> \o file.data) \o <<fields>>
  BY DEF EncryptedBytes, ToBytes
<1> HIDE DEF file, header, fields, S, bytes
<1>3. n \in Nat /\ file.data \in Seq(U) /\ <<header>> \in Seq(U) /\ <<fields>> \in Seq(U)
  BY <1>1
<1> HIDE DEF U, n
<1>4. /\ Len(bytes) = n + 2
      /\ bytes[1] = header /\ bytes[n + 2] = fields
      /\ \A j \in 1 .. n : bytes[j + 1] = file.data[j]
  BY <1>2, <1>3 DEF n
<1> QED
  BY <1>3, <1>4 DEF n, header, fields, file, bytes

\* Every upload of a content has the same layout, whatever its key.
LEMMA SameLayout ==
  ASSUME NEW f \in Files, NEW k, NEW m
  PROVE  /\ Len(EncryptFile(k, f).data) = Len(EncryptFile(m, f).data)
         /\ EncryptFile(k, f).chunk_offsets = EncryptFile(m, f).chunk_offsets
         /\ Len(EncryptedBytes(f, k)) = Len(EncryptedBytes(f, m))
<1> DEFINE n == ChunkCount(f)
           s == SealedChunks(k, f)
           t == SealedChunks(m, f)
           p == EncryptFile(k, f).chunk_offsets
           q == EncryptFile(m, f).chunk_offsets
           T == ToSet(f)
<1>0. f \in Seq(T)
  BY FileAssumption
<1>1. n \in Nat
  BY <1>0, ChunkCountBounds
<1>2. /\ s \in [1 .. n -> Seq(Sealed(k, f))] /\ t \in [1 .. n -> Seq(Sealed(m, f))]
      /\ \A i \in 1 .. n : Len(s[i]) = Len(t[i])
  BY <1>0, SealedChunksType
<1>3. /\ IsOffsets(p, n, s) /\ EncryptFile(k, f).data = FlattenSeq(s)
      /\ IsOffsets(q, n, t) /\ EncryptFile(m, f).data = FlattenSeq(t)
  BY <1>0, EncryptedFile
<1> HIDE DEF n, s, t, p, q
<1>4. p = q
  BY <1>1, <1>2, <1>3, OffsetsUnique
<1>5. Len(FlattenSeq(s)) = Len(FlattenSeq(t))
  <2>1. CASE n = 0
    <3>1. s = <<>> /\ t = <<>>
      BY <1>2, <2>1
    <3> QED
      BY <3>1
  <2>2. CASE n # 0
    <3>1. n \in Nat \ {0} /\ n \in 1 .. n
      BY <1>1, <2>2
    <3>2. HasSlices(FlattenSeq(s), n, s, p)
      BY <1>2, <1>3, <3>1, FlattenSlices
    <3>3. HasSlices(FlattenSeq(t), n, t, q)
      BY <1>2, <1>3, <3>1, FlattenSlices
    <3> QED
      BY <1>2, <1>4, <3>1, <3>2, <3>3 DEF HasSlices
  <2> QED
    BY <2>1, <2>2
<1>6. Len(EncryptFile(k, f).data) = Len(EncryptFile(m, f).data)
  BY <1>3, <1>5
<1>7. Len(EncryptedBytes(f, k)) = Len(EncryptedBytes(f, m))
  <2>1. /\ Len(EncryptedBytes(f, k)) = Len(EncryptFile(k, f).data) + 2
        /\ Len(EncryptedBytes(f, m)) = Len(EncryptFile(m, f).data) + 2
    BY FileLayout
  <2> QED
    BY <1>6, <2>1
<1> QED
  BY <1>4, <1>6, <1>7 DEF p, q

\* The shards of an upload: they hold its bytes and are of one size.
LEMMA UploadShards ==
  ASSUME NEW f \in Files, NEW key \in 1 .. MaxUploads
  PROVE  LET bytes == EncryptedBytes(f, key)
         IN /\ bytes \in Seq(Byte) /\ bytes # <<>> /\ Len(bytes) \in Nat \ {0}
            /\ ShardsOf[f][key] = Encode(bytes).value
            /\ ShardSize(Len(bytes)) \in Nat \ {0}
            /\ Len(bytes) <= DataShards * ShardSize(Len(bytes))
<1> DEFINE bytes == EncryptedBytes(f, key)
<1>1. bytes \in Seq(Byte)
  BY FileAssumption
<1>2. Len(bytes) \in Nat \ {0}
  <2> DEFINE n == Len(EncryptFile(key, f).data)
  <2>1. n \in Nat /\ Len(bytes) = n + 2
    BY FileLayout
  <2> HIDE DEF n, bytes
  <2> QED
    BY <2>1
<1>3. ShardsOf[f][key] = Encode(bytes).value
  BY DEF ShardsOf
<1> HIDE DEF bytes
<1>4. bytes # <<>>
  BY <1>2
<1> QED
  BY <1>1, <1>2, <1>3, <1>4, ShardSizeBounds DEF bytes

LEMMA MetadataFields ==
  ASSUME NEW o, NEW f, NEW key
  PROVE  /\ FileMetadata(o, f, key).file_id = f
         /\ FileMetadata(o, f, key).owner = o
         /\ FileMetadata(o, f, key).key = key
         /\ FileMetadata(o, f, key).shard_size = ShardSize(Len(EncryptedBytes(f, key)))
BY DEF FileMetadata

\* The estimated size is that of all data shards.
LEMMA SizeEstimated ==
  ASSUME NEW m, m.shard_size \in Nat
  PROVE  EstimatedSize(m) = DataShards * m.shard_size
<1> DEFINE d == TotalShards
           s == m.shard_size
<1>1. d \in Nat \ {0} /\ DataShards \in Nat /\ s \in Nat
  BY ErasureAssumption DEF TotalShards
<1>2. EstimatedSize(m) = ((d * s) \div d) * DataShards
  BY DEF EstimatedSize
<1> HIDE DEF d, s
<1>3. 0 \in 0 .. d - 1 /\ d * s + 0 = d * s
  BY <1>1
<1>4. (d * s) \div d = s
  BY <1>1, <1>3, DivisionUnique
<1> QED
  BY <1>1, <1>2, <1>4 DEF s

\* What metadata says, and that it is something.
LEMMA MadeElement ==
  ASSUME IInv, NEW m \in Made
  PROVE  \E o \in Owners, f \in Files, key \in 1 .. uploads :
           /\ m = FileMetadata(o, f, key) /\ key \in 1 .. MaxUploads
           /\ m.owner = o /\ m.file_id = f /\ m.key = key
           /\ m # None /\ m.shard_size \in Nat
           /\ m \in [file_id : Files, owner : Owners, key : 1 .. MaxUploads, shard_size : Nat]
<1>1. PICK o \in Owners, f \in Files, key \in 1 .. uploads : m = FileMetadata(o, f, key)
  BY DEF Made
<1>2. key \in 1 .. MaxUploads
  BY FileAssumption DEF IInv
<1>3. m # None
  BY <1>1, <1>2, NoneAssumption
<1>4. ShardSize(Len(EncryptedBytes(f, key))) \in Nat
  BY <1>2, UploadShards
<1>5. m \in [file_id : Files, owner : Owners, key : 1 .. MaxUploads, shard_size : Nat]
  BY <1>1, <1>2, <1>4 DEF FileMetadata
<1> QED
  BY <1>1, <1>2, <1>3, <1>4, <1>5, MetadataFields

\* IInv is inductive.
LEMMA InvariantInit == Init => IInv
<1>1. MaxUploads \in Nat /\ EmptyIndex \in [Files -> Made \cup {None}]
  BY FileAssumption DEF EmptyIndex
<1> QED
  BY <1>1 DEF Init, IInv, IsIndex, EmptyIndex

\* The sets of the invariant only grow.
LEMMA MadeGrows ==
  ASSUME uploads \in Nat, uploads' \in Nat, uploads <= uploads'
  PROVE  Made \subseteq Made'
BY DEF Made, FileMetadata

LEMMA InvariantStep == IInv /\ [Next]_vars => IInv'
<1> SUFFICES ASSUME IInv, [Next]_vars PROVE IInv'
  OBVIOUS
<1>0. uploads \in Nat /\ MaxUploads \in Nat
  BY FileAssumption DEF IInv
<1> USE DEF IInv, IsIndex
<1>1. ASSUME NEW o \in Owners, NEW f \in Files, PrepareUpload(o, f)
      PROVE  IInv'
  <2>1. uploads' = uploads + 1 /\ uploads' \in 0 .. MaxUploads /\ UNCHANGED <<index, exported, stored>>
    BY <1>0, <1>1 DEF PrepareUpload
  <2>2. Made \subseteq Made'
    BY <1>0, <2>1, MadeGrows
  <2>3. FileMetadata(o, f, uploads + 1) \in Made'
    BY <1>0, <2>1 DEF Made, FileMetadata
  <2>4. prepared' \subseteq Made'
    BY <1>1, <2>2, <2>3 DEF PrepareUpload
  <2>5. 1 .. uploads \subseteq 1 .. uploads'
    BY <1>0, <2>1
  <2>6. stored' \in [Files -> [Shards -> (1 .. uploads') \cup {None}]]
    BY <2>1, <2>5
  <2>7. \A i \in [Files -> Made \cup {None}] : i \in [Files -> Made' \cup {None}]
    BY <2>2
  <2>8. /\ index' \in [Owners -> [Files -> Made' \cup {None}]]
        /\ exported' \in [Owners -> [Files -> Made' \cup {None}]]
    BY <2>1, <2>7
  <2>9. \A p \in Owners : IsIndex(index[p])' /\ IsIndex(exported[p])'
    BY <2>1, <2>7
  <2> QED
    BY <2>1, <2>4, <2>6, <2>8, <2>9
<1>2. ASSUME NEW m \in prepared, NEW i \in Shards, Distribute(m, i)
      PROVE  IInv'
  <2>1. UNCHANGED <<index, exported, prepared, uploads>> /\ Made' = Made
    BY <1>2 DEF Distribute, Made, FileMetadata
  <2>2. m.file_id \in Files /\ m.key \in 1 .. uploads
    BY MadeElement
  <2>3. stored' \in [Files -> [Shards -> (1 .. uploads) \cup {None}]]
    BY <1>2, <2>2 DEF Distribute
  <2> QED
    BY <2>1, <2>3
<1>3. ASSUME NEW m \in prepared, AddToIndex(m)
      PROVE  IInv'
  <2>1. UNCHANGED <<exported, prepared, uploads, stored>> /\ Made' = Made
    BY <1>3 DEF AddToIndex, Made, FileMetadata
  <2>2. m.file_id \in Files /\ m.owner \in Owners /\ m \in Made
    BY MadeElement
  <2>3. index' = [index EXCEPT ![m.owner][m.file_id] = m]
    BY <1>3 DEF AddToIndex
  <2>4. index' \in [Owners -> [Files -> Made \cup {None}]]
    BY <2>2, <2>3
  <2>5. \A o \in Owners : \A f \in Files : index'[o][f] # None => index'[o][f].file_id = f
    BY <2>2, <2>3
  <2> QED
    BY <2>1, <2>4, <2>5
<1>4. ASSUME NEW o \in Owners, NEW f \in Files, RemoveFromIndex(o, f)
      PROVE  IInv'
  <2>1. UNCHANGED <<exported, prepared, uploads, stored>> /\ Made' = Made
    BY <1>4 DEF RemoveFromIndex, Made, FileMetadata
  <2>2. index' = [index EXCEPT ![o][f] = None]
    BY <1>4 DEF RemoveFromIndex
  <2>3. index' \in [Owners -> [Files -> Made \cup {None}]]
    BY <2>2
  <2>4. \A p \in Owners : \A g \in Files : index'[p][g] # None => index'[p][g].file_id = g
    BY <2>2
  <2> QED
    BY <2>1, <2>3, <2>4
<1>5. ASSUME NEW o \in Owners, ExportIndex(o)
      PROVE  IInv'
  <2>1. UNCHANGED <<index, prepared, uploads, stored>> /\ Made' = Made
    BY <1>5 DEF ExportIndex, Made, FileMetadata
  <2>2. exported' = [exported EXCEPT ![o] = index[o]]
    BY <1>5 DEF ExportIndex
  <2> QED
    BY <2>1, <2>2
<1>6. ASSUME NEW o \in Owners, Restart(o)
      PROVE  IInv'
  <2>1. UNCHANGED <<exported, uploads, stored>> /\ Made' = Made
    BY <1>6 DEF Restart, Made, FileMetadata
  <2>2. index' = [index EXCEPT ![o] = EmptyIndex] /\ prepared' \subseteq prepared
    BY <1>6 DEF Restart
  <2>3. index' \in [Owners -> [Files -> Made \cup {None}]]
    BY <2>2 DEF EmptyIndex
  <2>4. \A p \in Owners : \A g \in Files : index'[p][g] # None => index'[p][g].file_id = g
    BY <2>2 DEF EmptyIndex
  <2> QED
    BY <2>1, <2>2, <2>3, <2>4
<1>7. ASSUME NEW o \in Owners, NEW from \in Owners, ImportIndex(o, from)
      PROVE  IInv'
  <2>1. UNCHANGED <<exported, prepared, uploads, stored>> /\ Made' = Made
    BY <1>7 DEF ImportIndex, Made, FileMetadata
  <2> DEFINE merged == [f \in Files |-> IF exported[from][f] # None
                                          THEN exported[from][f] ELSE index[o][f]]
  <2>2. index' = [index EXCEPT ![o] = merged]
    BY <1>7 DEF ImportIndex
  <2>3. /\ merged \in [Files -> Made \cup {None}]
        /\ \A f \in Files : merged[f] # None => merged[f].file_id = f
    OBVIOUS
  <2> HIDE DEF merged
  <2>4. index' \in [Owners -> [Files -> Made \cup {None}]]
    BY <2>2, <2>3
  <2>5. \A p \in Owners : \A g \in Files : index'[p][g] # None => index'[p][g].file_id = g
    BY <2>2, <2>3
  <2> QED
    BY <2>1, <2>4, <2>5
<1>8. ASSUME NEW f \in Files, NEW i \in Shards, LoseShard(f, i)
      PROVE  IInv'
  <2>1. UNCHANGED <<index, exported, prepared, uploads>> /\ Made' = Made
    BY <1>8 DEF LoseShard, Made, FileMetadata
  <2>2. stored' \in [Files -> [Shards -> (1 .. uploads) \cup {None}]]
    BY <1>8 DEF LoseShard
  <2> QED
    BY <2>1, <2>2
<1>9. CASE UNCHANGED vars
  <2>1. Made' = Made
    BY <1>9 DEF vars, Made, FileMetadata
  <2> QED
    BY <1>9, <2>1 DEF vars
<1> QED
  BY <1>1, <1>2, <1>3, <1>4, <1>5, <1>6, <1>7, <1>8, <1>9 DEF Next

LEMMA Invariant == Spec => []IInv
<1> QED
  BY InvariantInit, InvariantStep, PTL DEF Spec

\* Indexes hold metadata of prepared uploads, whoever exported them.
THEOREM TypeCorrect == Spec => []TypeOK
<1>1. ASSUME IInv PROVE TypeOK
  <2>1. ASSUME NEW i \in [Files -> Made \cup {None}]
        PROVE  i \in FileIndex
    BY <1>1, MadeElement DEF FileIndex
  <2>2. \A m \in prepared : m = FileMetadata(m.owner, m.file_id, m.key)
    BY <1>1, MadeElement DEF IInv
  <2> QED
    BY <1>1, <2>1, <2>2 DEF IInv, TypeOK
<1> QED
  BY Invariant, <1>1, PTL

-----------------------------------------------------------------------------
(* Opening a file *)

\* A file opens only when every step of reconstruct_file succeeds.
LEMMA OpenSteps ==
  ASSUME NEW o, NEW m, NEW shards, ReconstructFile(o, m, shards).ok
  PROVE  LET decoded == Decode(shards, EstimatedSize(m))
             parsed == FromBytes(decoded.value)
         IN /\ ~(Cardinality(Available(shards)) < DataShards)
            /\ decoded.ok /\ o = m.owner /\ parsed.ok
            /\ DecryptFile(m.key, parsed.value).ok
<1> DEFINE decoded == Decode(shards, EstimatedSize(m))
           parsed == FromBytes(decoded.value)
           text == DecryptFile(m.key, parsed.value)
<1>1. ~(Cardinality(Available(shards)) < DataShards)
  BY DEF ReconstructFile, Err
<1>2. decoded.ok
  <2> HIDE DEF decoded
  <2> QED
    BY <1>1 DEF ReconstructFile, Then, decoded
<1>3. o = m.owner
  BY <1>1, <1>2 DEF ReconstructFile, Then, UnwrapKey, Err
<1>4. UnwrapKey(o, m).ok /\ UnwrapKey(o, m).value = m.key
  BY <1>3 DEF UnwrapKey, Ok
<1>5. parsed.ok
  BY <1>1, <1>2, <1>4 DEF ReconstructFile, Then
<1>6. text.ok
  BY <1>1, <1>2, <1>4, <1>5 DEF ReconstructFile, Then
<1> QED
  BY <1>1, <1>2, <1>3, <1>5, <1>6

\* An index entry is of an upload of the file it is found under.
LEMMA IndexEntry ==
  ASSUME IInv, NEW o \in Owners, NEW f \in Files, index[o][f] # None
  PROVE  LET m == index[o][f]
         IN /\ m.file_id = f /\ m.key \in 1 .. MaxUploads
            /\ m.shard_size = ShardSize(Len(EncryptedBytes(f, m.key)))
            /\ EstimatedSize(m) = DataShards * ShardSize(Len(EncryptedBytes(f, m.key)))
<1> DEFINE m == index[o][f]
<1>1. m \in Made /\ m.file_id = f
  BY DEF IInv, IsIndex
<1>2. PICK p \in Owners, g \in Files, key \in 1 .. uploads :
             /\ m = FileMetadata(p, g, key) /\ key \in 1 .. MaxUploads
             /\ m.file_id = g /\ m.key = key /\ m.shard_size \in Nat
  BY <1>1, MadeElement
<1>3. m.shard_size = ShardSize(Len(EncryptedBytes(f, m.key)))
  BY <1>1, <1>2, MetadataFields
<1> HIDE DEF m
<1>4. EstimatedSize(m) = DataShards * m.shard_size
  BY <1>2, SizeEstimated
<1> QED
  BY <1>1, <1>2, <1>3, <1>4 DEF m

\* Every file opens while DataShards of its upload's shards and no other are
\* there.
THEOREM UploadsOpen == Spec => []UploadOpens
<1>1. ASSUME IInv, NEW o \in Owners, NEW f \in Files,
             index[o][f] # None, index[o][f].owner = o,
             Cardinality(Intact(index[o][f])) >= DataShards,
             Available(Fetched(f)) = Intact(index[o][f])
      PROVE  Opens(o, f)
  <2> DEFINE m == index[o][f]
             key == m.key
             file == EncryptFile(key, f)
             bytes == EncryptedBytes(f, key)
             kept == Intact(m)
             size == EstimatedSize(m)
             T == ToSet(f)
  <2>1. /\ m.file_id = f /\ key \in 1 .. MaxUploads
        /\ size = DataShards * ShardSize(Len(bytes))
    BY <1>1, IndexEntry
  <2>2. /\ bytes \in Seq(Byte) /\ bytes # <<>> /\ Len(bytes) \in Nat \ {0}
        /\ ShardsOf[f][key] = Encode(bytes).value
        /\ ShardSize(Len(bytes)) \in Nat \ {0}
        /\ Len(bytes) <= DataShards * ShardSize(Len(bytes))
    BY <2>1, UploadShards
  <2>3. kept \in SUBSET (1 .. TotalShards)
    BY DEF Intact, Shards
  <2>4. Fetched(f) = Masked(ShardsOf[f][key], kept)
    <3>1. ASSUME NEW i \in Shards
          PROVE  Fetched(f)[i] = IF i \in kept THEN ShardsOf[f][key][i] ELSE Missing
      <4>1. CASE i \in kept
        <5>1. stored[f][i] = key /\ key # None
          BY <2>1, <4>1, NoneAssumption DEF Intact
        <5> QED
          BY <4>1, <5>1 DEF Fetched
      <4>2. CASE i \notin kept
        BY <1>1, <4>2 DEF Available, Fetched
      <4> QED
        BY <4>1, <4>2
    <3>2. Fetched(f) = [i \in Shards |-> Fetched(f)[i]]
      BY DEF Fetched
    <3> QED
      BY <3>1, <3>2 DEF Masked, Shards
  <2> HIDE DEF m, key, bytes, kept, size
  <2>5. size \in Nat
    BY <2>1, <2>2, ErasureAssumption
  <2>6. Decode(Fetched(f), size) = Ok(Padded(bytes, size))
    <3>1. Cardinality(kept) >= DataShards
      BY <1>1 DEF kept, m
    <3>2. size <= DataShards * ShardSize(Len(bytes))
      BY <2>1, <2>5
    <3> QED
      BY <2>2, <2>3, <2>4, <2>5, <3>1, <3>2, RoundTripPadded
  <2>7. FromBytes(Padded(bytes, size)) = Ok(file)
    <3>1. file.data \in Seq(Sealed(key, f))
          /\ file = [data |-> file.data, chunk_offsets |-> file.chunk_offsets]
      BY FileAssumption, EncryptedFile
    <3>2. bytes = ToBytes(file)
      BY DEF EncryptedBytes, bytes
    <3>3. size >= Len(bytes)
      BY <2>1, <2>2, <2>5
    <3> HIDE DEF file
    <3> QED
      BY <2>5, <3>1, <3>2, <3>3, ParsePadded
  <2>8. DecryptFile(key, file) = Ok(f)
    BY FileAssumption, DecryptEncrypted
  <2>9. ~(Cardinality(Available(Fetched(f))) < DataShards)
    <3>1. Cardinality(kept) >= DataShards /\ Available(Fetched(f)) = kept
      BY <1>1 DEF kept, m
    <3>2. Cardinality(kept) \in Nat
      <4>1. IsFiniteSet(1 .. TotalShards)
        BY ErasureAssumption, FS_Interval DEF TotalShards
      <4>2. IsFiniteSet(kept)
        BY <2>3, <4>1, FS_Subset
      <4> QED
        BY <4>2, FS_CardinalityType
    <3> QED
      BY <3>1, <3>2, ErasureAssumption
  <2>10. UnwrapKey(o, m) = Ok(key)
    BY <1>1 DEF UnwrapKey, key, m
  <2> HIDE DEF file
  <2>11. ReconstructFile(o, m, Fetched(f)) = Ok(f)
    <3> DEFINE decoded == Decode(Fetched(f), EstimatedSize(m))
               unwrapped == UnwrapKey(o, m)
               parsed == FromBytes(decoded.value)
               text == DecryptFile(unwrapped.value, parsed.value)
    <3>1. decoded.ok /\ decoded.value = Padded(bytes, size)
      BY <2>6 DEF Ok, size
    <3>2. unwrapped.ok /\ unwrapped.value = key
      BY <2>10 DEF Ok
    <3> HIDE DEF decoded, unwrapped
    <3>3. parsed.ok /\ parsed.value = file
      BY <2>7, <3>1 DEF Ok
    <3> HIDE DEF parsed
    <3>4. text.ok /\ text.value = f
      BY <2>8, <3>2, <3>3 DEF Ok
    <3> HIDE DEF text
    <3> QED
      BY <2>1, <2>9, <3>1, <3>2, <3>3, <3>4
      DEF ReconstructFile, Then, decoded, unwrapped, parsed, text
  <2> QED
    BY <2>11 DEF Opens, m
<1>2. IInv => UploadOpens
  BY <1>1 DEF UploadOpens
<1> QED
  BY Invariant, <1>2, PTL

-----------------------------------------------------------------------------
(* Opening one chunk *)

\* The uploads whose shards the network answers for a content.
Used(f) == {stored[f][i] : i \in Shards} \ {None}

\* What is decoded from the shards of uploads of one content: each byte is
\* that of one of them, or of no encrypted file.
LEMMA DecodedBytes ==
  ASSUME IInv, NEW o \in Owners, NEW f \in Files, index[o][f] # None,
         ~(Cardinality(Available(Fetched(f))) < DataShards),
         Decode(Fetched(f), EstimatedSize(index[o][f])).ok
  PROVE  LET size == EstimatedSize(index[o][f])
             bytes == Decode(Fetched(f), size).value
         IN /\ size \in Nat /\ Len(EncryptedBytes(f, index[o][f].key)) <= size
            /\ Len(bytes) = size
            /\ Used(f) \subseteq 1 .. MaxUploads
            /\ \A n \in 1 .. size :
                 \/ bytes[n].kind \notin {"length", "sealed", "fields"}
                 \/ \E key \in Used(f) :
                      bytes[n] = Padded(EncryptedBytes(f, key), size)[n]
<1> DEFINE m == index[o][f]
           length == ShardSize(Len(EncryptedBytes(f, m.key)))
           size == EstimatedSize(m)
           shards == Fetched(f)
           keys == stored[f]
           used == {keys[i] : i \in Shards} \ {None}
           lengths == {Len(shards[i]) : i \in Available(shards)}
<1>1. m.key \in 1 .. MaxUploads /\ size = DataShards * length
  BY IndexEntry
<1>2. ASSUME NEW key \in 1 .. MaxUploads
      PROVE  /\ EncryptedBytes(f, key) \in Seq(Byte) /\ EncryptedBytes(f, key) # <<>>
             /\ ShardSize(Len(EncryptedBytes(f, key))) = length
             /\ Len(EncryptedBytes(f, key)) = Len(EncryptedBytes(f, m.key))
             /\ ShardsOf[f][key] = Encode(EncryptedBytes(f, key)).value
  <2> DEFINE bytes == EncryptedBytes(f, key)
  <2>1. bytes \in Seq(Byte) /\ bytes # <<>> /\ ShardsOf[f][key] = Encode(bytes).value
    BY UploadShards
  <2>2. Len(bytes) = Len(EncryptedBytes(f, m.key))
    BY SameLayout
  <2> HIDE DEF bytes, m
  <2> QED
    BY <2>1, <2>2 DEF bytes
<1>3. /\ length \in Nat \ {0} /\ Len(EncryptedBytes(f, m.key)) <= DataShards * length
      /\ DataShards \in Nat \ {0} /\ TotalShards \in Nat
  BY <1>1, UploadShards, ErasureAssumption DEF TotalShards
<1>4. size \in Nat /\ Len(EncryptedBytes(f, m.key)) <= size
  BY <1>1, <1>3
<1>5. keys \in [Shards -> (1 .. MaxUploads) \cup {None}]
  BY FileAssumption DEF IInv
<1>5a. used \subseteq 1 .. MaxUploads
  BY <1>5
<1>6. ASSUME NEW key \in 1 .. MaxUploads, NEW i \in Shards
      PROVE  /\ ShardsOf[f][key][i] # Missing
             /\ Len(ShardsOf[f][key][i]) = length
             /\ \A j \in 1 .. length :
                  ShardsOf[f][key][i][j] = Codeword(DataColumn(EncryptedBytes(f, key), j))[i]
  <2> DEFINE bytes == EncryptedBytes(f, key)
  <2>1. bytes \in Seq(Byte) /\ bytes # <<>> /\ ShardSize(Len(bytes)) = length
        /\ ShardsOf[f][key] = Encode(bytes).value
    BY <1>2
  <2> HIDE DEF bytes
  <2>2. \A s \in 1 .. TotalShards :
          /\ Encode(bytes).value[s] # Missing
          /\ Len(Encode(bytes).value[s]) = ShardSize(Len(bytes))
          /\ \A j \in 1 .. ShardSize(Len(bytes)) :
               Encode(bytes).value[s][j] = Codeword(DataColumn(bytes, j))[s]
    BY <2>1, ShardsEncoded
  <2> QED
    BY <2>1, <2>2 DEF Shards, bytes
<1> HIDE DEF m, length, size
<1>7. shards = [i \in Shards |-> IF keys[i] = None THEN Missing ELSE ShardsOf[f][keys[i]][i]]
  BY DEF Fetched
<1> HIDE DEF shards, keys, used
<1>8. Available(shards) = {i \in Shards : keys[i] # None}
  BY <1>5, <1>6, <1>7 DEF Available
<1>9. Available(shards) # {}
  <2>1. CASE Available(shards) = {}
    <3>1. Cardinality(Available(shards)) = 0
      BY <2>1, FS_EmptySet
    <3> QED
      BY <1>3, <3>1 DEF shards
  <2> QED
    BY <2>1
<1>10. \A i \in Available(shards) : Len(shards[i]) = length
  BY <1>5, <1>6, <1>7, <1>8
<1>11. lengths = {length}
  <2> HIDE DEF shards
  <2> QED
    BY <1>9, <1>10
<1>12. (CHOOSE n \in lengths : TRUE) = length
  BY <1>11
<1> HIDE DEF lengths
<1> DEFINE bytes == Decode(shards, size).value
<1>13. bytes = Combine(shards, length, size)
  <2>1. Decode(shards, size).ok
    BY DEF shards, size, m
  <2> QED
    BY <1>12, <2>1 DEF Decode, Ok, Err, lengths
<1>14. bytes = [n \in 1 .. size |->
                  Recover(ShardColumn(shards, ((n - 1) % length) + 1))
                    [((n - 1) \div length) + 1]]
  <2>1. Minimum(size, DataShards * length) = size
    BY <1>1, <1>4 DEF Minimum
  <2> QED
    BY <1>13, <2>1 DEF Combine
<1> HIDE DEF bytes
<1>15. Len(bytes) = size
  BY <1>4, <1>14
<1>16. ASSUME NEW j \in 1 .. length
       PROVE  ShardColumn(shards, j) =
                [s \in Shards |-> IF keys[s] = None THEN Missing
                                  ELSE Codeword(DataColumn(EncryptedBytes(f, keys[s]), j))[s]]
  <2>1. ASSUME NEW s \in Shards
        PROVE  (IF shards[s] = Missing THEN Missing ELSE shards[s][j])
                 = IF keys[s] = None THEN Missing
                   ELSE Codeword(DataColumn(EncryptedBytes(f, keys[s]), j))[s]
    <3>1. CASE keys[s] = None
      BY <1>7, <3>1
    <3>2. CASE keys[s] # None
      <4>1. keys[s] \in 1 .. MaxUploads /\ shards[s] = ShardsOf[f][keys[s]][s]
        BY <1>5, <1>7, <3>2
      <4> QED
        BY <1>6, <3>2, <4>1
    <3> QED
      BY <3>1, <3>2
  <2> QED
    BY <2>1 DEF ShardColumn, Shards
<1>17. ASSUME NEW j \in 1 .. length, NEW i \in 1 .. DataShards
       PROVE  LET byte == Recover(ShardColumn(shards, j))[i]
              IN \/ byte.kind \notin {"length", "sealed", "fields"}
                 \/ \E key \in used :
                      byte = DataColumn(EncryptedBytes(f, key), j)[i]
  <2>1. Cardinality({s \in Shards : keys[s] # None}) >= DataShards
    <3>1. IsFiniteSet(Shards)
      BY <1>3, FS_Interval DEF Shards
    <3>2. IsFiniteSet(Available(shards))
      BY <1>8, <3>1, FS_Subset
    <3>3. Cardinality(Available(shards)) \in Nat
      BY <3>2, FS_CardinalityType
    <3>4. ~(Cardinality(Available(shards)) < DataShards)
      BY DEF shards
    <3> QED
      BY <1>3, <1>8, <3>3, <3>4
  <2>2. j \in 1 .. ShardSize(Len(EncryptedBytes(f, 1)))
    <3>1. Len(EncryptedBytes(f, 1)) = Len(EncryptedBytes(f, m.key))
      BY SameLayout
    <3> QED
      BY <3>1 DEF length
  <2> DEFINE byte == Recover([s \in Shards |->
                       IF keys[s] = None THEN Missing
                       ELSE Codeword(DataColumn(EncryptedBytes(f, keys[s]), j))[s]])[i]
  <2>3. \/ \E key \in {keys[s] : s \in Shards} \ {None} :
             byte = DataColumn(EncryptedBytes(f, key), j)[i]
        \/ byte.kind \notin {"length", "sealed", "fields"}
    BY <1>5, <2>1, <2>2, MixtureAssumption
  <2>4. byte = Recover(ShardColumn(shards, j))[i]
    BY <1>16
  <2> HIDE DEF byte
  <2> QED
    BY <2>3, <2>4 DEF used
<1>18. ASSUME NEW n \in 1 .. size
       PROVE  \/ bytes[n].kind \notin {"length", "sealed", "fields"}
              \/ \E key \in used :
                   bytes[n] = Padded(EncryptedBytes(f, key), size)[n]
  <2> DEFINE i == ((n - 1) \div length) + 1
             j == ((n - 1) % length) + 1
  <2>1. ASSUME NEW key \in 1 .. MaxUploads
        PROVE  /\ i \in 1 .. DataShards /\ j \in 1 .. length
               /\ DataColumn(EncryptedBytes(f, key), j)[i]
                    = Padded(EncryptedBytes(f, key), size)[n]
    <3> DEFINE data == EncryptedBytes(f, key)
    <3>1. data \in Seq(Byte) /\ data # <<>> /\ ShardSize(Len(data)) = length
      BY <1>2
    <3>2. size <= DataShards * ShardSize(Len(data))
      BY <1>1, <1>4, <3>1
    <3> HIDE DEF data, i, j
    <3>3. LET l == ShardSize(Len(data))
              p == ((n - 1) \div l) + 1
              q == ((n - 1) % l) + 1
          IN /\ p \in 1 .. DataShards /\ q \in 1 .. l
             /\ DataColumn(data, q)[p] = Padded(data, size)[n]
      BY <1>4, <3>1, <3>2, ShardsAreData
    <3> QED
      BY <3>1, <3>3 DEF data, i, j
  <2>2. i \in 1 .. DataShards /\ j \in 1 .. length
    BY <1>1, <2>1 DEF m
  <2>3. bytes[n] = Recover(ShardColumn(shards, j))[i]
    BY <1>14
  <2> HIDE DEF i, j
  <2>4. \/ bytes[n].kind \notin {"length", "sealed", "fields"}
        \/ \E key \in used :
             bytes[n] = DataColumn(EncryptedBytes(f, key), j)[i]
    BY <1>17, <2>2, <2>3
  <2> QED
    BY <1>5a, <2>1, <2>4
<1> QED
  BY <1>4, <1>5a, <1>15, <1>18 DEF bytes, shards, size, m, used, keys, Used

\* Where a chunk ends.
LEMMA ChunkEnd ==
  ASSUME NEW T, NEW text \in Seq(T), NEW key, NEW i \in 1 .. ChunkCount(text)
  PROVE  LET file == EncryptFile(key, text)
             first == file.chunk_offsets[i] + 1
             last == IF i < Len(file.chunk_offsets) THEN file.chunk_offsets[i + 1]
                                                    ELSE Len(file.data)
         IN /\ first \in 1 .. Len(file.data)
            /\ first <= last /\ last \in Nat
            /\ file.data[first].text = Chunk(text, i)
            /\ file.data[first].key = key
<1> DEFINE file == EncryptFile(key, text)
           offset == file.chunk_offsets
           n == ChunkCount(text)
           chunks == SealedChunks(key, text)
           first == offset[i] + 1
           last == IF i < Len(offset) THEN offset[i + 1] ELSE Len(file.data)
<1>1. n \in Nat \ {0} /\ SealBytes \in Nat \ {0}
  BY ChunkCountBounds, CipherAssumption
<1>2. /\ chunks \in [1 .. n -> Seq(Sealed(key, text))]
      /\ Len(chunks[i]) = Len(Chunk(text, i)) + SealBytes
      /\ Len(Chunk(text, i)) \in Nat
      /\ chunks[i] = Encrypt(key, i, Chunk(text, i))
  BY SealedChunksType, ChunkType DEF SealedChunks
<1>3. /\ file.data = FlattenSeq(chunks) /\ IsOffsets(offset, n, chunks)
      /\ Len(offset) = n /\ Len(file.data) \in Nat
  BY EncryptedFile
<1> HIDE DEF file, n, chunks, offset
<1>4. HasSlices(file.data, n, chunks, offset)
  <2> DEFINE S == Sealed(key, text)
  <2>1. chunks \in [1 .. n -> Seq(S)]
    BY <1>2
  <2> HIDE DEF S
  <2>2. HasSlices(FlattenSeq(chunks), n, chunks, offset)
    BY <1>1, <1>3, <2>1, FlattenSlices
  <2> QED
    BY <1>3, <2>2
<1>5. i \in 1 .. n /\ offset[i] \in Nat
  BY <1>3 DEF IsOffsets, n
<1>6. Len(chunks[i]) \in Nat \ {0} /\ offset[i] + Len(chunks[i]) <= Len(file.data)
  BY <1>1, <1>2, <1>4, <1>5 DEF HasSlices
<1>7. first \in 1 .. Len(file.data)
  BY <1>3, <1>5, <1>6
<1>8. first <= last /\ last \in Nat
  <2>1. CASE i < n
    <3>1. i + 1 \in 2 .. n /\ (i + 1) - 1 = i
      BY <1>1, <2>1
    <3>2. offset[i + 1] = offset[i] + Len(chunks[i])
      BY <1>3, <3>1 DEF IsOffsets
    <3>3. offset[i + 1] \in Nat
      BY <1>3, <3>1 DEF IsOffsets
    <3> QED
      BY <1>3, <1>5, <1>6, <2>1, <3>2, <3>3
  <2>2. CASE ~(i < n)
    BY <1>3, <1>7, <2>2
  <2> QED
    BY <2>1, <2>2
<1>9. file.data[first] = chunks[i][1]
  BY <1>4, <1>5, <1>6 DEF HasSlices
<1>10. chunks[i][1].text = Chunk(text, i) /\ chunks[i][1].key = key
  <2>1. 1 \in 1 .. Len(Chunk(text, i)) + SealBytes
    BY <1>1, <1>2
  <2> QED
    BY <1>2, <2>1 DEF Encrypt
<1> QED
  BY <1>7, <1>8, <1>9, <1>10 DEF file, offset

\* Whatever was mixed into it, a file that opens has every chunk in its place,
\* sealed with the key of the upload in the index, some shard of which is used.
LEMMA OpenedChunks ==
  ASSUME IInv, NEW o \in Owners, NEW f \in Files, index[o][f] # None,
         ReconstructFile(o, index[o][f], Fetched(f)).ok
  PROVE  LET m == index[o][f]
             file == FromBytes(Decode(Fetched(f), EstimatedSize(m)).value).value
         IN /\ \A i \in 1 .. ChunkCount(f) + 1 :
                 DecryptChunk(m.key, file, i) =
                   IF i <= ChunkCount(f) THEN Ok(Chunk(f, i)) ELSE Err("out of bounds")
            /\ ChunkCount(f) # 0 => m.key \in Used(f)
<1> DEFINE m == index[o][f]
           key == m.key
           size == EstimatedSize(m)
           bytes == Decode(Fetched(f), size).value
           parsed == FromBytes(bytes)
           file == parsed.value
           made == EncryptFile(key, f)
           n == Len(made.data)
<1>1. ReconstructFile(o, m, Fetched(f)).ok
  OBVIOUS
<1>2. /\ ~(Cardinality(Available(Fetched(f))) < DataShards)
      /\ Decode(Fetched(f), size).ok /\ parsed.ok /\ DecryptFile(key, file).ok
  BY <1>1, OpenSteps
<1>3. /\ size \in Nat /\ Len(EncryptedBytes(f, key)) <= size
      /\ Len(bytes) = size
      /\ \A p \in 1 .. size :
           \/ bytes[p].kind \notin {"length", "sealed", "fields"}
           \/ \E k \in Used(f) : bytes[p] = Padded(EncryptedBytes(f, k), size)[p]
  BY <1>2, DecodedBytes
<1>4. ASSUME NEW k
      PROVE  LET data == EncryptedBytes(f, k)
             IN /\ n \in Nat /\ Len(data) = n + 2
                /\ data[1].length = n
                /\ data[n + 2].chunk_offsets = made.chunk_offsets
                /\ \A j \in 1 .. n : data[j + 1] = EncryptFile(k, f).data[j]
  <2> DEFINE data == EncryptedBytes(f, k)
             other == EncryptFile(k, f)
  <2>1. Len(other.data) = n /\ other.chunk_offsets = made.chunk_offsets
    BY SameLayout
  <2>2. /\ Len(other.data) \in Nat /\ Len(data) = Len(other.data) + 2
        /\ data[1] = [kind |-> "length", length |-> Len(other.data)]
        /\ data[Len(other.data) + 2] = [kind |-> "fields", chunk_offsets |-> other.chunk_offsets]
        /\ \A j \in 1 .. Len(other.data) : data[j + 1] = other.data[j]
    BY FileLayout
  <2> HIDE DEF data, other, made, n
  <2> QED
    BY <2>1, <2>2 DEF data, other
<1>5. n \in Nat /\ n + 2 <= size
  BY <1>3, <1>4
<1> HIDE DEF m, key, size, bytes, made, n
<1>6. ASSUME NEW p \in 1 .. n + 2, bytes[p].kind \in {"length", "sealed", "fields"}
      PROVE  \E k \in Used(f) : bytes[p] = EncryptedBytes(f, k)[p]
  <2>1. p \in 1 .. size
    BY <1>3, <1>5
  <2>2. PICK k \in Used(f) : bytes[p] = Padded(EncryptedBytes(f, k), size)[p]
    BY <1>3, <1>6, <2>1
  <2>3. p <= Len(EncryptedBytes(f, k))
    BY <1>4, <1>5
  <2> QED
    BY <2>1, <2>2, <2>3 DEF Padded
<1>7. bytes[1].kind = "length" /\ bytes[1].length = n
  <2>1. bytes[1].kind = "length"
    BY <1>2 DEF FromBytes, Err
  <2>2. 1 \in 1 .. n + 2
    BY <1>5
  <2>3. PICK k \in Used(f) : bytes[1] = EncryptedBytes(f, k)[1]
    BY <1>6, <2>1, <2>2
  <2> QED
    BY <1>4, <2>1, <2>3
<1>8. bytes[n + 2].kind = "fields" /\ bytes[n + 2].chunk_offsets = made.chunk_offsets
  <2>1. bytes[n + 2].kind = "fields"
    BY <1>2, <1>7 DEF FromBytes, Err
  <2>2. n + 2 \in 1 .. n + 2
    BY <1>5
  <2>3. PICK k \in Used(f) : bytes[n + 2] = EncryptedBytes(f, k)[n + 2]
    BY <1>6, <2>1, <2>2
  <2> QED
    BY <1>4, <2>1, <2>3
<1>9. file = [data |-> SubSeq(bytes, 2, n + 1), chunk_offsets |-> made.chunk_offsets]
  BY <1>2, <1>7, <1>8 DEF FromBytes, Err, Ok
<1>10. /\ file.chunk_offsets = made.chunk_offsets
       /\ file.data \in Seq({bytes[p] : p \in 1 .. n + 2}) /\ Len(file.data) = n
       /\ \A j \in 1 .. n : file.data[j] = bytes[j + 1]
  <2> DEFINE S == {bytes[p] : p \in 1 .. n + 2}
             slice == SubSeq(bytes, 2, n + 1)
  <2>1. \A p \in 2 .. n + 1 : bytes[p] \in S
    BY <1>5
  <2>2. 2 \in Int /\ n + 1 \in Int /\ (n + 1) - 2 + 1 = n
    BY <1>5
  <2> HIDE DEF S
  <2>3. /\ slice \in Seq(S)
        /\ Len(slice) = IF 2 <= n + 1 THEN (n + 1) - 2 + 1 ELSE 0
        /\ \A j \in 1 .. (n + 1) - 2 + 1 : slice[j] = bytes[2 + j - 1]
    BY <2>1, <2>2, SubSeqProperties
  <2> HIDE DEF slice
  <2>4. Len(slice) = n
    BY <1>5, <2>2, <2>3
  <2>5. \A j \in 1 .. n : slice[j] = bytes[j + 1]
    <3>1. \A j \in 1 .. n : 2 + j - 1 = j + 1
      OBVIOUS
    <3> QED
      BY <2>2, <2>3, <3>1
  <2>6. file.data = slice /\ file.chunk_offsets = made.chunk_offsets
    <3> HIDE DEF file
    <3> QED
      BY <1>9 DEF slice
  <2> QED
    BY <2>3, <2>4, <2>5, <2>6 DEF S
<1>11. Len(made.chunk_offsets) = ChunkCount(f) /\ ChunkCount(f) \in Nat
  BY FileAssumption, EncryptedFile, ChunkCountBounds DEF made
<1> HIDE DEF file
<1>12. ASSUME NEW i \in 1 .. ChunkCount(f)
       PROVE  Decrypt(key, ChunkBytes(file, i)) = Ok(Chunk(f, i)) /\ key \in Used(f)
  <2> DEFINE slice == ChunkBytes(file, i)
             first == made.chunk_offsets[i] + 1
             last == IF i < Len(made.chunk_offsets) THEN made.chunk_offsets[i + 1] ELSE n
  <2>1. Decrypt(key, slice).ok
    <3> DEFINE opened == [j \in 1 .. Len(file.chunk_offsets) |->
                            Decrypt(key, ChunkBytes(file, j))]
    <3>1. ~\E j \in DOMAIN opened : ~opened[j].ok
      BY <1>2 DEF DecryptFile, Err
    <3>2. i \in 1 .. Len(file.chunk_offsets)
      BY <1>10, <1>11
    <3> QED
      BY <3>1, <3>2
  <2>2. slice[1].kind = "sealed" /\ Decrypt(key, slice) = Ok(slice[1].text)
    BY <2>1 DEF Decrypt, Err
  <2>3. first \in 1 .. n /\ first <= last /\ last \in Nat
    BY FileAssumption, ChunkEnd DEF made, n
  <2>4. slice = SubSeq(file.data, first, last)
    BY <1>10 DEF ChunkBytes
  <2> HIDE DEF slice, first, last
  <2>5. slice[1] = file.data[first]
    <3> DEFINE S == {file.data[j] : j \in first .. last}
    <3>1. \A j \in first .. last : file.data[j] \in S
      OBVIOUS
    <3> HIDE DEF S
    <3>2. \A j \in 1 .. last - first + 1 :
            SubSeq(file.data, first, last)[j] = file.data[first + j - 1]
      BY <2>3, <3>1, SubSeqProperties
    <3>3. 1 \in 1 .. last - first + 1 /\ first + 1 - 1 = first
      BY <2>3
    <3> QED
      BY <2>4, <3>2, <3>3
  <2>6. slice[1] = bytes[first + 1]
    BY <1>10, <2>3, <2>5
  <2>7. first + 1 \in 1 .. n + 2
    BY <1>5, <2>3
  <2>8. PICK k \in Used(f) : bytes[first + 1] = EncryptedBytes(f, k)[first + 1]
    BY <1>6, <2>2, <2>6, <2>7
  <2>9. slice[1] = EncryptFile(k, f).data[first]
    BY <1>4, <2>3, <2>6, <2>8
  <2>10. first = EncryptFile(k, f).chunk_offsets[i] + 1
    BY SameLayout DEF first, made
  <2>11. slice[1].text = Chunk(f, i) /\ slice[1].key = k
    BY FileAssumption, ChunkEnd, <2>9, <2>10
  <2>12. slice[1].key = key
    <3> DEFINE nonce == slice[1].nonce
               text == Chunk(f, i)
    <3>1. slice = Encrypt(key, nonce, text)
      BY <2>1, <2>11 DEF Decrypt, Err
    <3>2. 1 \in 1 .. Len(text) + SealBytes
      BY FileAssumption, ChunkType, CipherAssumption
    <3> HIDE DEF nonce, text
    <3>3. Encrypt(key, nonce, text)[1].key = key
      BY <3>2 DEF Encrypt
    <3> QED
      BY <3>1, <3>3
  <2> QED
    BY <2>2, <2>11, <2>12 DEF slice
<1>13. ASSUME NEW i \in 1 .. ChunkCount(f) + 1
       PROVE  DecryptChunk(key, file, i) =
                IF i <= ChunkCount(f) THEN Ok(Chunk(f, i)) ELSE Err("out of bounds")
  <2>1. CASE i <= ChunkCount(f)
    <3>1. i \in 1 .. ChunkCount(f) /\ ~(i > Len(file.chunk_offsets))
      BY <1>10, <1>11, <2>1
    <3> QED
      BY <1>12, <2>1, <3>1 DEF DecryptChunk
  <2>2. CASE ~(i <= ChunkCount(f))
    <3>1. i > Len(file.chunk_offsets)
      BY <1>10, <1>11, <2>2
    <3> QED
      BY <2>2, <3>1 DEF DecryptChunk
  <2> QED
    BY <2>1, <2>2
<1>14. ChunkCount(f) # 0 => key \in Used(f)
  <2> SUFFICES ASSUME ChunkCount(f) # 0 PROVE key \in Used(f)
    OBVIOUS
  <2>1. 1 \in 1 .. ChunkCount(f)
    BY <1>11
  <2> QED
    BY <1>12, <2>1
<1> QED
  BY <1>13, <1>14 DEF file, bytes, size, key, m

\* Each chunk of a file that opens is found and opened by its number alone.
THEOREM ChunksOpenAlone == Spec => []ChunksOpen
<1>1. ASSUME IInv, NEW o \in Owners, NEW f \in Files, index[o][f] # None, Opens(o, f)
      PROVE  ReconstructFile(o, index[o][f], Fetched(f)).ok
  BY <1>1 DEF Opens, Ok
<1>2. IInv => ChunksOpen
  BY <1>1, OpenedChunks DEF ChunksOpen
<1> QED
  BY Invariant, <1>2, PTL

\* A download with metadata of an upload none of whose shards is left fails,
\* whichever other uploads' shards reconstruct_file is given.
THEOREM StaleTheorem == Spec => []StaleOpensNothing
<1>1. ASSUME IInv, NEW o \in Owners, NEW f \in Files \ {<<>>}, index[o][f] # None,
             Intact(index[o][f]) = {}
      PROVE  ~ReconstructFile(o, index[o][f], Fetched(f)).ok
  <2> SUFFICES ASSUME ReconstructFile(o, index[o][f], Fetched(f)).ok PROVE FALSE
    OBVIOUS
  <2>1. ChunkCount(f) # 0
    <3> DEFINE T == ToSet(f)
    <3>1. f \in Seq(T) /\ f # <<>>
      BY FileAssumption
    <3> HIDE DEF T
    <3>2. ChunkCount(f) = 0 <=> f = <<>>
      BY <3>1, ChunkCountBounds
    <3> QED
      BY <3>1, <3>2
  <2>2. index[o][f].key \in Used(f)
    BY <1>1, <2>1, OpenedChunks
  <2>3. index[o][f].file_id = f
    BY <1>1, IndexEntry
  <2> QED
    BY <1>1, <2>2, <2>3 DEF Used, Intact
<1>2. IInv => StaleOpensNothing
  BY <1>1 DEF StaleOpensNothing
<1> QED
  BY Invariant, <1>2, PTL
=============================================================================
