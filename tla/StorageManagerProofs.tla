------------------------ MODULE StorageManagerProofs ------------------------
(***************************************************************************)
(* Theorems about StorageManager, for every set of ids, owners and         *)
(* payloads, every size, every offered maximum and every choice of faults. *)
(***************************************************************************)
EXTENDS StorageManager, FiniteSetTheorems, TLAPS

-----------------------------------------------------------------------------
(* Counting the bytes of an index *)


LEMMA SizeType == \A f \in Fragment : FragmentSize(f) \in Nat
BY StorageAssumption DEF Fragment, FragmentSize

\* An entry of an index is a fragment or Absent.
LEMMA EntryType ==
  \A idx \in Index : \A i \in Indexed(idx) : idx[i] \in Fragment
BY DEF Index, Indexed

\* No entry alone is over the offered maximum: the sets counted are finite.
Fits(idx) == \A i \in Indexed(idx) : FragmentSize(idx[i]) <= MaxStorage

LEMMA EmptyIndexBytes ==
  EmptyIndex \in Index /\ Fits(EmptyIndex) /\ Bytes(EmptyIndex) = 0
<1>1. Indexed(EmptyIndex) = {}
  BY DEF EmptyIndex, Indexed
<1>2. Slots(EmptyIndex) = {}
  BY <1>1 DEF Slots
<1> QED
  BY <1>1, <1>2, FS_EmptySet DEF EmptyIndex, Index, Fits, Bytes

LEMMA SlotsFinite ==
  ASSUME NEW idx \in Index, Fits(idx)
  PROVE  IsFiniteSet(Slots(idx)) /\ Bytes(idx) \in Nat
<1>1. IsFiniteSet(1 .. MaxStorage)
  BY FS_Interval, StorageAssumption
<1>2. IsFiniteSet(FragmentIds \X (1 .. MaxStorage))
  BY <1>1, FS_Product, StorageAssumption
<1>3. \A i \in Indexed(idx) : FragmentSize(idx[i]) \in Nat
  BY SizeType, EntryType
<1>4. Slots(idx) \subseteq FragmentIds \X (1 .. MaxStorage)
  BY <1>3, StorageAssumption DEF Slots, Indexed, Fits
<1>5. IsFiniteSet(Slots(idx))
  BY <1>2, <1>4, FS_Subset
<1> QED
  BY <1>5, FS_CardinalityType DEF Bytes

\* The slots of one fragment are as many as its bytes.
LEMMA FragmentSlots ==
  ASSUME NEW i, NEW f \in Fragment
  PROVE  /\ IsFiniteSet({i} \X (1 .. FragmentSize(f)))
         /\ Cardinality({i} \X (1 .. FragmentSize(f))) = FragmentSize(f)
<1>1. FragmentSize(f) \in Nat
  BY SizeType
<1>2. /\ IsFiniteSet(1 .. FragmentSize(f))
      /\ Cardinality(1 .. FragmentSize(f)) = FragmentSize(f)
  BY <1>1, FS_Interval
<1>3. IsFiniteSet({i}) /\ Cardinality({i}) = 1
  BY FS_Singleton
<1> QED
  BY <1>1, <1>2, <1>3, FS_Product

\* Inserting a fragment adds at most its bytes (fewer when it replaces one).
LEMMA InsertBytes ==
  ASSUME NEW idx \in Index, Fits(idx), NEW i \in FragmentIds,
         NEW f \in Fragment, FragmentSize(f) <= MaxStorage
  PROVE  LET new == [idx EXCEPT ![i] = f]
         IN  /\ new \in Index
             /\ Fits(new)
             /\ Bytes(new) <= Bytes(idx) + FragmentSize(f)
<1> DEFINE new == [idx EXCEPT ![i] = f]
           own == {i} \X (1 .. FragmentSize(f))
<1>1. new \in Index
  BY DEF Index
<1>2. Fits(new)
  BY DEF Fits, Index, Indexed
<1>3. Slots(new) \subseteq Slots(idx) \cup own
  BY DEF Slots, Index, Indexed
<1>4. /\ IsFiniteSet(Slots(idx) \cup own)
      /\ Cardinality(Slots(idx) \cup own) =
           Cardinality(Slots(idx)) + Cardinality(own)
             - Cardinality(Slots(idx) \cap own)
  BY SlotsFinite, FragmentSlots, FS_Union
<1>5. Cardinality(Slots(idx) \cap own) \in Nat
  BY SlotsFinite, FS_Intersection, FS_CardinalityType
<1>6. Cardinality(Slots(new)) <= Cardinality(Slots(idx) \cup own)
  BY <1>3, <1>4, FS_Subset
<1>7. Cardinality(Slots(idx)) \in Nat /\ Cardinality(own) = FragmentSize(f)
  BY SlotsFinite, FragmentSlots DEF Bytes
<1>8. Bytes(new) \in Nat /\ FragmentSize(f) \in Nat
  BY <1>1, <1>2, SlotsFinite, SizeType
<1> HIDE DEF new, own
<1>9. Bytes(new) <= Bytes(idx) + FragmentSize(f)
  BY <1>4, <1>5, <1>6, <1>7, <1>8 DEF Bytes
<1> QED
  BY <1>1, <1>2, <1>9 DEF new

\* Removing a fragment takes exactly its bytes.
LEMMA RemoveBytes ==
  ASSUME NEW idx \in Index, Fits(idx), NEW i \in Indexed(idx)
  PROVE  LET new == [idx EXCEPT ![i] = Absent]
         IN  /\ new \in Index
             /\ Fits(new)
             /\ Bytes(new) + FragmentSize(idx[i]) = Bytes(idx)
<1> DEFINE new == [idx EXCEPT ![i] = Absent]
           own == {i} \X (1 .. FragmentSize(idx[i]))
<1>1. new \in Index
  BY DEF Index, Indexed
<1>2. Indexed(new) = Indexed(idx) \ {i}
  BY DEF Index, Indexed
<1>3. \A j \in Indexed(new) : new[j] = idx[j]
  BY <1>2 DEF Index, Indexed
<1>4. Fits(new)
  BY <1>2, <1>3 DEF Fits
<1>5. idx[i] \in Fragment
  BY EntryType
<1>6. Slots(idx) = Slots(new) \cup own
  <2>1. ASSUME NEW s \in Slots(idx)  PROVE s \in Slots(new) \cup own
    <3>1. PICK j \in Indexed(idx) : s \in {j} \X (1 .. FragmentSize(idx[j]))
      BY <2>1 DEF Slots
    <3>2. CASE j = i
      BY <3>1, <3>2
    <3>3. CASE j # i
      <4>1. j \in Indexed(new) /\ new[j] = idx[j]
        BY <1>2, <1>3, <3>3
      <4> QED
        BY <3>1, <4>1 DEF Slots
    <3> QED
      BY <3>2, <3>3
  <2>2. Slots(new) \subseteq Slots(idx)
    BY <1>2, <1>3 DEF Slots
  <2>3. own \subseteq Slots(idx)
    BY DEF Slots
  <2> QED
    BY <2>1, <2>2, <2>3
<1>7. Slots(new) \cap own = {}
  <2> SUFFICES ASSUME NEW s \in Slots(new), s \in own  PROVE FALSE
    OBVIOUS
  <2>1. PICK j \in Indexed(new) : s \in {j} \X (1 .. FragmentSize(new[j]))
    BY DEF Slots
  <2>2. s[1] = j /\ s[1] = i
    BY <2>1
  <2> QED
    BY <1>2, <2>1, <2>2
<1>8. /\ IsFiniteSet(Slots(new)) /\ Cardinality(Slots(new)) \in Nat
      /\ IsFiniteSet(own) /\ Cardinality(own) = FragmentSize(idx[i])
      /\ FragmentSize(idx[i]) \in Nat
  BY <1>1, <1>4, <1>5, SlotsFinite, FragmentSlots, SizeType DEF Bytes
<1> HIDE DEF new, own
<1>9. Cardinality(Slots(idx)) =
        Cardinality(Slots(new)) + Cardinality(own)
          - Cardinality(Slots(new) \cap own)
  BY <1>6, <1>8, FS_Union
<1>10. Cardinality(Slots(new) \cap own) = 0
  BY <1>7, FS_EmptySet
<1>11. Bytes(new) + FragmentSize(idx[i]) = Bytes(idx)
  BY <1>8, <1>9, <1>10 DEF Bytes
<1> QED
  BY <1>1, <1>4, <1>11 DEF new

\* Two indexes that hold the same contents under the same ids count alike.
LEMMA SameBytes ==
  ASSUME NEW idx \in Index, NEW new \in Index, Fits(idx),
         Indexed(new) = Indexed(idx),
         \A i \in Indexed(idx) : new[i].content_hash = idx[i].content_hash
  PROVE  Fits(new) /\ Bytes(new) = Bytes(idx)
<1>1. \A i \in Indexed(idx) : FragmentSize(new[i]) = FragmentSize(idx[i])
  BY DEF FragmentSize
<1>2. Slots(new) = Slots(idx)
  BY <1>1 DEF Slots
<1> QED
  BY <1>1, <1>2 DEF Fits, Bytes

-----------------------------------------------------------------------------
(* The counter and the offered maximum *)

\* Inductive: a store past its check still fits, and every index in memory or
\* on disk fits entry by entry.
CapacityInv ==
  /\ TypeOK
  /\ pc # "idle" => phase = "up"
  /\ Fits(index)
  /\ diskIndex \in Index => Fits(diskIndex)
  /\ pc \in {"create", "write"} => HasSpace(FragmentSize(fragment))
  /\ CapacityRespected
  /\ NeverSaturates
  /\ SavedIndexFits

LEMMA CapacityInit == Init => CapacityInv
<1> SUFFICES ASSUME Init PROVE CapacityInv
  OBVIOUS
<1>1. TypeOK
  BY StorageAssumption, EmptyIndexBytes DEF Init, TypeOK
<1>2. diskIndex \notin Index
  BY SentinelAssumption DEF Init, Index
<1> QED
  BY <1>1, <1>2, EmptyIndexBytes, StorageAssumption
  DEF Init, CapacityInv, CapacityRespected, NeverSaturates, SavedIndexFits

\* Deleting an entry, from a call, an expired retrieve or a cleanup.
LEMMA CapacityDelete ==
  ASSUME CapacityInv, phase = "up", NEW i \in FragmentIds, DeleteBegin(i),
         todo' \subseteq FragmentIds
  PROVE  CapacityInv'
<1>1. i \in Indexed(index) /\ index[i] \in Fragment
  BY EntryType DEF DeleteBegin, Indexed, CapacityInv, TypeOK
<1>2. /\ index' \in Index
      /\ Fits(index')
      /\ Bytes(index') + FragmentSize(index[i]) = Bytes(index)
  BY <1>1, RemoveBytes DEF DeleteBegin, CapacityInv, TypeOK
<1>3. TypeOK'
  BY <1>1, <1>2 DEF DeleteBegin, CapacityInv, TypeOK
<1>4. Bytes(index) \in Nat /\ Bytes(index') \in Nat
      /\ FragmentSize(index[i]) \in Nat
  BY <1>1, <1>2, SlotsFinite, SizeType DEF CapacityInv, TypeOK
<1>5. CapacityRespected' /\ NeverSaturates'
  BY <1>2, <1>4
  DEF DeleteBegin, CapacityInv, TypeOK, CapacityRespected, NeverSaturates
<1>6. SavedIndexFits' /\ (diskIndex' \in Index => Fits(diskIndex'))
  BY DEF DeleteBegin, CapacityInv, SavedIndexFits, Fits, Bytes, Slots
<1> QED
  BY <1>2, <1>3, <1>5, <1>6 DEF DeleteBegin, CapacityInv

\* A step that keeps the fragments and their contents (it may change their
\* deadlines), the counter and index.json, and starts no store or delete.
LEMMA CapacityKeep ==
  ASSUME CapacityInv, TypeOK', used' = used, diskIndex' = diskIndex,
         Indexed(index') = Indexed(index),
         \A i \in Indexed(index) :
           index'[i].content_hash = index[i].content_hash,
         pc' \notin {"create", "write", "unlink"},
         pc' # "idle" => phase' = "up"
  PROVE  CapacityInv'
<1>1. Fits(index') /\ Bytes(index') = Bytes(index)
  BY SameBytes DEF CapacityInv, TypeOK
<1> QED
  BY <1>1 DEF CapacityInv, CapacityRespected, NeverSaturates, SavedIndexFits

LEMMA CapacityNext == CapacityInv /\ [Next]_vars => CapacityInv'
<1> SUFFICES ASSUME CapacityInv, [Next]_vars  PROVE CapacityInv'
  OBVIOUS
<1> USE StorageAssumption
<1>t. TypeOK
  BY DEF CapacityInv
<1>n. Bytes(index) \in Nat
  BY SlotsFinite DEF CapacityInv, TypeOK
<1>1. CASE Initialize
  <2>1. CASE diskIndex = NoFile
    BY <1>1, <2>1
    DEF Initialize, CapacityInv, TypeOK, CapacityRespected, NeverSaturates,
        SavedIndexFits, HasSpace
  <2>2. CASE diskIndex # NoFile
    <3>1. diskIndex \in Index /\ index' = diskIndex
          /\ used' = Bytes(diskIndex)
      BY <1>1, <2>2 DEF Initialize, CapacityInv, TypeOK
    <3>2. Fits(diskIndex) /\ Bytes(diskIndex) \in Nat
          /\ Bytes(diskIndex) <= MaxStorage
      BY <3>1, SlotsFinite DEF CapacityInv, SavedIndexFits
    <3>3. TypeOK'
      BY <1>1, <3>1, <3>2 DEF Initialize, CapacityInv, TypeOK
    <3>4. pc' = "idle"
      BY <1>1 DEF Initialize, CapacityInv
    <3> QED
      BY <1>1, <3>1, <3>2, <3>3, <3>4
      DEF Initialize, CapacityInv, CapacityRespected, NeverSaturates,
          SavedIndexFits
  <2> QED
    BY <2>1, <2>2
<1>2. ASSUME NEW i \in FragmentIds, NEW o \in Owners, NEW c \in Contents,
             NEW e \in Expiries, StoreFragment(i, o, c, e)
      PROVE  CapacityInv'
  <2>1. fragment' \in Fragment /\ FragmentSize(fragment') = Size[c]
    BY <1>2 DEF StoreFragment, Fragment, FragmentSize
  <2>2. TypeOK'
    BY <1>2, <1>t, <2>1 DEF StoreFragment, TypeOK
  <2> QED
    BY <1>2, <2>1, <2>2
    DEF StoreFragment, Ready, CapacityInv, HasSpace, CapacityRespected,
        NeverSaturates, SavedIndexFits, Fits, Bytes, Slots
<1>3. ASSUME NEW i \in FragmentIds, DeleteFragment(i)
      PROVE  CapacityInv'
  BY <1>3, <1>t, CapacityDelete DEF DeleteFragment, Ready, TypeOK
<1>4. ASSUME NEW i \in FragmentIds, RetrieveExpired(i)
      PROVE  CapacityInv'
  BY <1>4, <1>t, CapacityDelete DEF RetrieveExpired, Ready, TypeOK
<1>5. ASSUME NEW i \in FragmentIds, NEW e \in Expiries, ExtendFragment(i, e)
      PROVE  CapacityInv'
  <2>1. index[i] \in Fragment
    BY <1>5, <1>t DEF ExtendFragment, TypeOK, Index
  <2>2. /\ index' \in Index
        /\ Indexed(index') = Indexed(index)
        /\ \A j \in Indexed(index) :
             index'[j].content_hash = index[j].content_hash
    <3>1. [index[i] EXCEPT !.expires_at = e] \in Fragment
          /\ [index[i] EXCEPT !.expires_at = e].content_hash
               = index[i].content_hash
      BY <2>1 DEF Fragment
    <3>2. index' = [index EXCEPT ![i] = [index[i] EXCEPT !.expires_at = e]]
      BY <1>5, <1>t DEF ExtendFragment, TypeOK, Index
    <3> QED
      BY <1>t, <2>1, <3>1, <3>2, SentinelAssumption
      DEF TypeOK, Index, Indexed
  <2>3. TypeOK'
    BY <1>5, <1>t, <2>2 DEF ExtendFragment, TypeOK
  <2> QED
    BY <1>5, <2>2, <2>3, CapacityKeep DEF ExtendFragment, Ready
<1>6. ASSUME NEW o \in Owners, NEW days \in Extensions,
             ExtendOwnerFragments(o, days)
      PROVE  CapacityInv'
  <2> DEFINE mine == {i \in Indexed(index) : index[i].owner_id = o}
             moved(i) == [index[i] EXCEPT !.expires_at = now + days]
  <2>1. index' = [i \in FragmentIds |->
                    IF i \in mine THEN moved(i) ELSE index[i]]
    BY <1>6 DEF ExtendOwnerFragments
  <2>2. \A i \in Indexed(index) :
          /\ moved(i) \in Fragment
          /\ moved(i).content_hash = index[i].content_hash
    BY <1>t, EntryType DEF TypeOK, Fragment
  <2>3. index' \in Index
    BY <1>t, <2>1, <2>2 DEF TypeOK, Index
  <2> HIDE DEF moved
  <2>4. /\ Indexed(index') = Indexed(index)
        /\ \A j \in Indexed(index) :
             index'[j].content_hash = index[j].content_hash
    BY <2>1, <2>2, SentinelAssumption DEF Indexed
  <2>5. TypeOK'
    BY <1>6, <1>t, <2>3 DEF ExtendOwnerFragments, TypeOK
  <2> QED
    BY <1>6, <2>4, <2>5, CapacityKeep DEF ExtendOwnerFragments, Ready
<1>7. CASE CleanupExpired
  <2>1. TypeOK'
    BY <1>7, <1>t DEF CleanupExpired, TypeOK, Indexed
  <2> QED
    BY <1>7, <2>1, CapacityKeep DEF CleanupExpired, Ready
<1>8. CASE WriteBegin
  <2>1. TypeOK'
    BY <1>8, <1>t DEF WriteBegin, TypeOK
  <2> QED
    BY <1>8, <2>1
    DEF WriteBegin, CapacityInv, HasSpace, CapacityRespected, NeverSaturates,
        SavedIndexFits, Fits, Bytes, Slots
<1>9. CASE WriteEnd
  <2>1. /\ target \in FragmentIds /\ fragment \in Fragment
        /\ FragmentSize(fragment) \in Nat
        /\ used + FragmentSize(fragment) <= MaxStorage
    BY <1>9, <1>t, SizeType DEF WriteEnd, TypeOK, CapacityInv, HasSpace
  <2>2. FragmentSize(fragment) <= MaxStorage
    BY <1>t, <2>1 DEF TypeOK
  <2>3. /\ index' \in Index /\ Fits(index')
        /\ Bytes(index') <= Bytes(index) + FragmentSize(fragment)
    BY <1>9, <1>t, <2>1, <2>2, InsertBytes
    DEF WriteEnd, TypeOK, CapacityInv
  <2>4. Bytes(index') \in Nat
    BY <2>3, SlotsFinite
  <2>5. TypeOK'
    BY <1>9, <1>t, <2>1, <2>3 DEF WriteEnd, TypeOK, Fragment
  <2>6. CapacityRespected'
    BY <1>9, <1>n, <1>t, <2>1, <2>3, <2>4
    DEF WriteEnd, TypeOK, CapacityInv, CapacityRespected
  <2> QED
    BY <1>9, <2>3, <2>5, <2>6
    DEF WriteEnd, CapacityInv, NeverSaturates, SavedIndexFits, Fits, Bytes,
        Slots
<1>10. CASE Unlink
  <2>1. FragmentSize(fragment) \in Nat
        /\ Bytes(index) + FragmentSize(fragment) <= used
    BY <1>10, <1>t, SizeType DEF Unlink, TypeOK, CapacityInv, NeverSaturates
  <2>2. used' = used - FragmentSize(fragment) /\ used' \in Nat
    BY <1>10, <1>n, <1>t, <2>1 DEF Unlink, TypeOK
  <2>3. TypeOK'
    BY <1>10, <1>t, <2>2 DEF Unlink, TypeOK
  <2>4. CapacityRespected'
    BY <1>10, <1>n, <1>t, <2>1, <2>2
    DEF Unlink, TypeOK, CapacityInv, CapacityRespected, Bytes, Slots
  <2> QED
    BY <1>10, <2>3, <2>4
    DEF Unlink, CapacityInv, NeverSaturates, SavedIndexFits, Fits, Bytes,
        Slots
<1>11. CASE SaveBegin
  <2>1. TypeOK' /\ diskIndex' \notin Index
    BY <1>11, <1>t, SentinelAssumption DEF SaveBegin, TypeOK, Index
  <2> QED
    BY <1>11, <2>1
    DEF SaveBegin, CapacityInv, CapacityRespected, NeverSaturates,
        SavedIndexFits, Fits, Bytes, Slots
<1>12. CASE SaveEnd
  <2>1. \A i \in Indexed(index) : index[i].content_hash \in Contents
    BY <1>t, EntryType DEF TypeOK, Fragment
  <2>2. acked' \in [FragmentIds -> Contents \cup {Absent}]
    BY <1>12, <1>t, <2>1 DEF SaveEnd, TypeOK, Indexed
  <2>3. TypeOK'
    BY <1>12, <1>t, <2>2 DEF SaveEnd, Return, TypeOK
  <2>4. Bytes(index) <= MaxStorage
    BY <1>n, <1>t DEF TypeOK, CapacityInv, CapacityRespected
  <2> QED
    BY <1>12, <2>3, <2>4
    DEF SaveEnd, Return, CapacityInv, CapacityRespected, NeverSaturates,
        SavedIndexFits, Fits, Bytes, Slots
<1>13. ASSUME NEW i \in FragmentIds, Sweep(i)
       PROVE  CapacityInv'
  BY <1>13, <1>t, CapacityDelete DEF Sweep, CapacityInv, TypeOK
<1>14. CASE IOError
  <2>1. TypeOK'
    BY <1>14, <1>t DEF IOError, Return, TypeOK
  <2> QED
    BY <1>14, <2>1, CapacityKeep DEF IOError, Return
<1>15. CASE Crash
  <2>1. TypeOK'
    BY <1>15, <1>t, EmptyIndexBytes DEF Crash, Return, TypeOK
  <2> QED
    BY <1>15, <2>1, EmptyIndexBytes
    DEF Crash, Return, CapacityInv, CapacityRespected, NeverSaturates,
        SavedIndexFits, Fits, Bytes, Slots
<1>16. CASE Tick
  <2>1. TypeOK'
    BY <1>16, <1>t DEF Tick, TypeOK
  <2> QED
    BY <1>16, <2>1
    DEF Tick, CapacityInv, HasSpace, CapacityRespected, NeverSaturates,
        SavedIndexFits, Fits, Bytes, Slots
<1>17. CASE UNCHANGED vars
  BY <1>17
  DEF vars, CapacityInv, TypeOK, HasSpace, CapacityRespected, NeverSaturates,
      SavedIndexFits, Fits, Bytes, Slots
<1> QED
  BY <1>1, <1>2, <1>3, <1>4, <1>5, <1>6, <1>7, <1>8, <1>9, <1>10, <1>11,
     <1>12, <1>13, <1>14, <1>15, <1>16, <1>17 DEF Next, Progress

\* CapacityInv is an invariant.
LEMMA CapacityInvariant == Spec => []CapacityInv
BY CapacityInit, CapacityNext, PTL DEF Spec

\* Every variable of the manager keeps its type: an operation in progress
\* always has a fragment to work on.
THEOREM TypeCorrect == Spec => []TypeOK
<1>1. CapacityInv => TypeOK
  BY DEF CapacityInv
<1> QED
  BY <1>1, CapacityInvariant, PTL

\* The manager never indexes more than it offers, with any sizes and however
\* often calls fail and the process dies.
THEOREM CapacityHolds == Spec => []CapacityRespected
<1>1. CapacityInv => CapacityRespected
  BY DEF CapacityInv
<1> QED
  BY <1>1, CapacityInvariant, PTL

\* delete_fragment's saturating_sub is an ordinary subtraction.
THEOREM SubtractionExact == Spec => []NeverSaturates
<1>1. CapacityInv => NeverSaturates
  BY DEF CapacityInv
<1> QED
  BY <1>1, CapacityInvariant, PTL

\* A restart never comes up over its limit.
THEOREM SavedFits == Spec => []SavedIndexFits
<1>1. CapacityInv => SavedIndexFits
  BY DEF CapacityInv
<1> QED
  BY <1>1, CapacityInvariant, PTL

-----------------------------------------------------------------------------
(* Durability of what was acknowledged *)

\* Inductive: an acknowledged content is in its file, in the index in memory
\* and in every index.json a restart would load; while index.json is being
\* saved the file of the entry just stored is complete.
DurableInv ==
  /\ CapacityInv
  /\ \A i \in FragmentIds : acked[i] # Absent =>
       /\ files[i] = acked[i]
       /\ diskIndex # NoFile
       /\ phase = "up" => index[i] # Absent
                          /\ index[i].content_hash = acked[i]
       /\ diskIndex \in Index => diskIndex[i] # Absent
                                 /\ diskIndex[i].content_hash = acked[i]
  /\ pc \in {"write", "unlink"} => acked[target] = Absent
  /\ pc = "unlink" => index[target] = Absent
  /\ pc \in {"save", "truncated"} /\ target \in Indexed(index) =>
       files[target] = index[target].content_hash
  /\ pc \in {"idle", "sweep"} => target = NoId

LEMMA DurableInit == Init => DurableInv
BY CapacityInit DEF Init, DurableInv

\* Serving what was acknowledged follows from the invariant.
LEMMA DurableServes == DurableInv => AckedIsServed
<1> SUFFICES ASSUME DurableInv, NEW i \in FragmentIds, acked[i] # Absent
             PROVE  /\ phase = "up" =>
                         /\ Retrieve(i) \in {"ok", "expired"}
                         /\ index[i].content_hash = acked[i]
                    /\ phase = "down" /\ diskIndex # Torn =>
                         /\ diskIndex # NoFile /\ diskIndex[i] # Absent
                         /\ diskIndex[i].content_hash = acked[i]
                         /\ files[i] = acked[i]
  BY DEF AckedIsServed
<1>1. files[i] = acked[i] /\ acked[i] \in Contents /\ diskIndex # NoFile
  BY DEF DurableInv, CapacityInv, TypeOK
<1>2. CASE phase = "up"
  <2>1. index[i] # Absent /\ index[i].content_hash = acked[i]
    BY <1>2 DEF DurableInv
  <2>2. files[i] # NoFile
    BY <1>1, SentinelAssumption
  <2> QED
    BY <1>1, <1>2, <2>1, <2>2 DEF Retrieve
<1>3. CASE phase = "down" /\ diskIndex # Torn
  <2>1. diskIndex \in Index
    BY <1>1, <1>3 DEF DurableInv, CapacityInv, TypeOK
  <2> QED
    BY <1>1, <1>3, <2>1 DEF DurableInv
<1> QED
  BY <1>2, <1>3

LEMMA DurableDelete ==
  ASSUME DurableInv, CapacityInv', phase = "up", NEW i \in FragmentIds,
         DeleteBegin(i)
  PROVE  DurableInv'
BY SentinelAssumption
DEF DeleteBegin, DurableInv, CapacityInv, TypeOK, Index, Indexed

LEMMA DurableNext == DurableInv /\ [Next]_vars => DurableInv'
<1> SUFFICES ASSUME DurableInv, [Next]_vars  PROVE DurableInv'
  OBVIOUS
<1> USE StorageAssumption, SentinelAssumption
<1>t. TypeOK /\ CapacityInv /\ CapacityInv'
  BY CapacityNext DEF DurableInv, CapacityInv
<1>1. CASE Initialize
  BY <1>1, <1>t DEF Initialize, DurableInv, TypeOK, Indexed, CapacityInv
<1>2. ASSUME NEW i \in FragmentIds, NEW o \in Owners, NEW c \in Contents,
             NEW e \in Expiries, StoreFragment(i, o, c, e)
      PROVE  DurableInv'
  BY <1>2, <1>t DEF StoreFragment, DurableInv, TypeOK
<1>3. ASSUME NEW i \in FragmentIds, DeleteFragment(i)
      PROVE  DurableInv'
  BY <1>3, <1>t, DurableDelete DEF DeleteFragment, Ready
<1>4. ASSUME NEW i \in FragmentIds, RetrieveExpired(i)
      PROVE  DurableInv'
  BY <1>4, <1>t, DurableDelete DEF RetrieveExpired, Ready
<1>5. ASSUME NEW i \in FragmentIds, NEW e \in Expiries, ExtendFragment(i, e)
      PROVE  DurableInv'
  <2>1. index[i] \in Fragment
    BY <1>5, <1>t DEF ExtendFragment, TypeOK, Index
  <2> DEFINE f == [index[i] EXCEPT !.expires_at = e]
  <2>2. f \in Fragment /\ f.content_hash = index[i].content_hash
    BY <2>1 DEF Fragment
  <2>3. index' = [index EXCEPT ![i] = f]
    BY <1>5, <1>t DEF ExtendFragment, TypeOK, Index
  <2> HIDE DEF f
  <2>4. \A j \in FragmentIds :
          /\ index'[j] = Absent <=> index[j] = Absent
          /\ index[j] # Absent =>
               index'[j].content_hash = index[j].content_hash
    BY <1>t, <2>1, <2>2, <2>3 DEF TypeOK, Index
  <2> QED
    BY <1>5, <1>t, <2>4
    DEF ExtendFragment, Ready, DurableInv, TypeOK, Indexed
<1>6. ASSUME NEW o \in Owners, NEW days \in Extensions,
             ExtendOwnerFragments(o, days)
      PROVE  DurableInv'
  <2> DEFINE mine == {i \in Indexed(index) : index[i].owner_id = o}
             moved(i) == [index[i] EXCEPT !.expires_at = now + days]
  <2>1. index' = [i \in FragmentIds |->
                    IF i \in mine THEN moved(i) ELSE index[i]]
    BY <1>6 DEF ExtendOwnerFragments
  <2>2. \A i \in Indexed(index) :
          /\ moved(i) \in Fragment
          /\ moved(i).content_hash = index[i].content_hash
    BY <1>t, EntryType DEF TypeOK, Fragment
  <2> HIDE DEF moved
  <2>3. \A j \in FragmentIds :
          /\ index'[j] = Absent <=> index[j] = Absent
          /\ index[j] # Absent =>
               index'[j].content_hash = index[j].content_hash
    BY <2>1, <2>2 DEF Indexed
  <2> QED
    BY <1>6, <1>t, <2>3
    DEF ExtendOwnerFragments, Ready, DurableInv, TypeOK, Indexed
<1>7. CASE CleanupExpired
  BY <1>7, <1>t DEF CleanupExpired, Ready, DurableInv
<1>8. CASE WriteBegin
  BY <1>8, <1>t DEF WriteBegin, DurableInv, TypeOK
<1>9. CASE WriteEnd
  BY <1>9, <1>t DEF WriteEnd, DurableInv, TypeOK, Index, Indexed, Fragment
<1>10. CASE Unlink
  BY <1>10, <1>t DEF Unlink, DurableInv, TypeOK, Index, Indexed
<1>11. CASE SaveBegin
  BY <1>11, <1>t DEF SaveBegin, DurableInv, TypeOK, Index
<1>12. CASE SaveEnd
  BY <1>12, <1>t
  DEF SaveEnd, Return, DurableInv, CapacityInv, TypeOK, Index, Indexed,
      Fragment
<1>13. ASSUME NEW i \in FragmentIds, Sweep(i)
       PROVE  DurableInv'
  BY <1>13, <1>t, DurableDelete DEF Sweep, CapacityInv
<1>14. CASE IOError
  BY <1>14, <1>t DEF IOError, Return, DurableInv, TypeOK
<1>15. CASE Crash
  BY <1>15, <1>t DEF Crash, Return, DurableInv, TypeOK
<1>16. CASE Tick
  BY <1>16, <1>t DEF Tick, DurableInv
<1>17. CASE UNCHANGED vars
  BY <1>17, <1>t DEF vars, DurableInv, Indexed
<1> QED
  BY <1>1, <1>2, <1>3, <1>4, <1>5, <1>6, <1>7, <1>8, <1>9, <1>10, <1>11,
     <1>12, <1>13, <1>14, <1>15, <1>16, <1>17 DEF Next, Progress

\* What store_fragment acknowledged is served until its deadline in every life
\* of the node that comes up, and while it is down the next start loads it
\* unless index.json is torn.
THEOREM AckedServed == Spec => []AckedIsServed
BY DurableInit, DurableNext, DurableServes, PTL DEF Spec

-----------------------------------------------------------------------------
(* The manager implements the fragment store *)

LEMMA StoreInit == Init => Store!Init
BY DEF Init, Store!Init

\* A proof of storage reads exactly what was acknowledged.
LEMMA StoreHonest == DurableInv => Store!Honest
<1> SUFFICES ASSUME DurableInv, phase = "up",
                    NEW i \in FragmentIds, acked[i] # Absent
             PROVE  ProvenBytes(i) = acked[i]
  BY DEF Store!Honest, Store!Kept
<1>1. files[i] = acked[i] /\ acked[i] \in Contents /\ index[i] # Absent
  BY DEF DurableInv, CapacityInv, TypeOK
<1> QED
  BY <1>1, SentinelAssumption DEF ProvenBytes

\* What is acknowledged is in the index, so it fits with it.
LEMMA StoreFits == DurableInv /\ phase = "up" => Store!Fits
<1> SUFFICES ASSUME DurableInv, phase = "up"  PROVE Store!Fits
  OBVIOUS
<1> DEFINE held == UNION {{i} \X (1 .. Size[acked[i]]) : i \in Store!Kept}
<1>1. \A i \in Store!Kept : /\ i \in Indexed(index)
                            /\ Size[acked[i]] = FragmentSize(index[i])
  BY DEF DurableInv, Store!Kept, Indexed, FragmentSize
<1>2. held \subseteq Slots(index)
  BY <1>1 DEF Slots
<1>3. IsFiniteSet(Slots(index)) /\ Bytes(index) \in Nat
  BY SlotsFinite DEF DurableInv, CapacityInv, TypeOK
<1>4. Cardinality(held) \in Nat /\ Cardinality(held) <= Bytes(index)
  BY <1>2, <1>3, FS_Subset, FS_CardinalityType DEF Bytes
<1>5. Bytes(index) <= MaxStorage
  BY <1>3, StorageAssumption DEF DurableInv, CapacityInv, CapacityRespected, TypeOK
<1> HIDE DEF held
<1>6. Cardinality(held) <= MaxStorage
  BY <1>3, <1>4, <1>5, StorageAssumption
<1> QED
  BY <1>6 DEF held, Store!Fits, Store!Cardinality, Cardinality

\* A step of the manager is a step of the store or changes nothing it keeps.
LEMMA StoreNext ==
  DurableInv /\ [Next]_vars
    => [Store!Next]_<<phase = "up", acked,
                      [i \in FragmentIds |-> ProvenBytes(i)]>>
<1> SUFFICES ASSUME DurableInv, [Next]_vars  PROVE Store!Next
              \/ UNCHANGED <<phase = "up", acked,
                             [i \in FragmentIds |-> ProvenBytes(i)]>>
  OBVIOUS
<1>t. /\ DurableInv' /\ TypeOK
      /\ pc # "idle" => phase = "up"
      /\ pc \in {"create", "write", "unlink"} => target \in FragmentIds
  BY DurableNext DEF DurableInv, CapacityInv, TypeOK
<1>h. Store!Honest'
  BY <1>t, StoreHonest, PTL
<1>f. (phase = "up" => Store!Fits)'
  BY <1>t, StoreFits, PTL
<1>s. ASSUME phase = "up", phase' = "up",
             acked' = acked \/ (\E i \in FragmentIds : Store!Release(i))
               \/ \E i \in FragmentIds, c \in Contents : Store!Store(i, c)
      PROVE  Store!Next
  BY <1>h, <1>s DEF Store!Next, Store!Serve
<1>1. CASE Initialize
  BY <1>1, <1>h DEF Initialize, Store!Next, Store!StartOrStop
<1>2. ASSUME NEW i \in FragmentIds, NEW o \in Owners, NEW c \in Contents,
             NEW e \in Expiries, StoreFragment(i, o, c, e)
      PROVE  Store!Next
  BY <1>2, <1>s DEF StoreFragment, Ready
<1>d. ASSUME phase = "up", NEW i \in FragmentIds, DeleteBegin(i)
      PROVE  Store!Next
  BY <1>d, <1>s DEF DeleteBegin, Store!Release
<1>3. ASSUME NEW i \in FragmentIds, DeleteFragment(i) \/ RetrieveExpired(i)
      PROVE  Store!Next
  BY <1>3, <1>d DEF DeleteFragment, RetrieveExpired, Ready
<1>4. ASSUME NEW i \in FragmentIds, NEW e \in Expiries, ExtendFragment(i, e)
      PROVE  Store!Next
  BY <1>4, <1>s DEF ExtendFragment, Ready
<1>5. ASSUME NEW o \in Owners, NEW days \in Extensions,
             ExtendOwnerFragments(o, days)
      PROVE  Store!Next
  BY <1>5, <1>s DEF ExtendOwnerFragments, Ready
<1>6. CASE CleanupExpired
  BY <1>6, <1>s DEF CleanupExpired, Ready
<1>7. CASE WriteBegin
  BY <1>7, <1>s, <1>t DEF WriteBegin, Store!Release
<1>8. CASE WriteEnd \/ Unlink \/ SaveBegin
  BY <1>8, <1>s, <1>t DEF WriteEnd, Unlink, SaveBegin
<1>9. CASE SaveEnd
  <2>1. phase = "up" /\ phase' = "up"
    BY <1>9, <1>t DEF SaveEnd
  <2>2. CASE target \in Indexed(index)
    <3>1. target \in FragmentIds /\ index[target].content_hash \in Contents
      BY <1>t, <2>2, EntryType DEF TypeOK, Fragment, Indexed
    <3>2. Store!Store(target, index[target].content_hash)
      BY <1>9, <1>f, <2>1, <2>2 DEF SaveEnd, Store!Store
    <3> QED
      BY <1>s, <2>1, <3>1, <3>2
  <2>3. CASE target \notin Indexed(index)
    BY <1>9, <1>s, <2>1, <2>3 DEF SaveEnd
  <2> QED
    BY <2>2, <2>3
<1>10. ASSUME NEW i \in FragmentIds, Sweep(i)
       PROVE  Store!Next
  BY <1>10, <1>d, <1>t DEF Sweep
<1>11. CASE IOError
  BY <1>11, <1>s, <1>t DEF IOError
<1>12. CASE Crash
  BY <1>12, <1>h DEF Crash, Store!Next, Store!StartOrStop
<1>13. CASE Tick
  BY <1>13 DEF Tick, ProvenBytes
<1>14. CASE UNCHANGED vars
  BY <1>14 DEF vars, ProvenBytes
<1> QED
  BY <1>1, <1>2, <1>3, <1>4, <1>5, <1>6, <1>7, <1>8, <1>9, <1>10, <1>11,
     <1>12, <1>13, <1>14 DEF Next, Progress

\* The manager, with its files, its awaits, its failing calls and its crashes,
\* implements the store that knows none of them.
THEOREM StoreImplemented == Spec => ImplementsStore
BY DurableInit, DurableNext, StoreInit, StoreNext, PTL
DEF Spec, ImplementsStore, Store!Spec

-----------------------------------------------------------------------------
(* Every operation runs out of steps, the safety part of OperationsReturn: *)
(* what is left of an operation gets less with every step of the manager,  *)
(* and a cleanup always has an id it can delete.                           *)

\* The steps from each await to the end, when cleanup_expired has no id left.
StepsAfter ==
  [idle |-> 0, sweep |-> 1, truncated |-> 2, save |-> 3, unlink |-> 4,
   write |-> 4, create |-> 5]

\* Each id of a cleanup costs an unlink and a save of two steps.
Left == StepsAfter[pc] + 5 * Cardinality(todo)

\* Nothing happens but that time passes.
Waits ==
  UNCHANGED <<phase, index, used, files, diskIndex, pc, target, fragment, todo,
              acked>>

OperationsRunOut ==
  [][pc # "idle" => Left' \in Nat /\ (Left' < Left \/ Waits)]_vars

\* What cleanup_expired has collected is still there when its turn comes.
SweepGoesOn ==
  pc = "sweep" => \E i \in todo : index[i] # Absent

TodoInv ==
  /\ todo \subseteq Indexed(index)
  /\ pc = "sweep" => todo # {}
  /\ pc \in {"idle", "create", "write"} => todo = {}

LEMMA TodoNext == CapacityInv /\ TodoInv /\ [Next]_vars => TodoInv'
<1> SUFFICES ASSUME CapacityInv, TodoInv, [Next]_vars  PROVE TodoInv'
  OBVIOUS
<1>t. /\ index \in Index /\ todo \subseteq FragmentIds
      /\ pc = "idle" => todo = {}
      /\ Absent \notin Fragment
  BY SentinelAssumption DEF CapacityInv, TypeOK, TodoInv
<1>e. ASSUME todo = {}, todo' = {}, pc' # "sweep"
      PROVE  TodoInv'
  BY <1>e DEF TodoInv
<1>1. CASE Initialize
  BY <1>1, <1>t, <1>e DEF Initialize, TodoInv, CapacityInv
<1>2. CASE WriteBegin
  BY <1>2 DEF WriteBegin, TodoInv
<1>3. CASE WriteEnd
  BY <1>3, <1>e DEF WriteEnd, TodoInv
<1>4. CASE Unlink \/ SaveBegin
  BY <1>4 DEF Unlink, SaveBegin, TodoInv
<1>5. CASE SaveEnd
  BY <1>5 DEF SaveEnd, Return, TodoInv
<1>6. CASE IOError \/ Crash
  BY <1>6 DEF IOError, Crash, Return, TodoInv
<1>7. CASE Tick \/ UNCHANGED vars
  BY <1>7 DEF Tick, vars, TodoInv
<1>8. CASE CleanupExpired
  BY <1>8 DEF CleanupExpired, TodoInv
<1>9. ASSUME NEW i \in FragmentIds,
             \/ DeleteFragment(i) \/ RetrieveExpired(i)
             \/ \E e \in Expiries : ExtendFragment(i, e)
             \/ \E o \in Owners, c \in Contents, e \in Expiries :
                  StoreFragment(i, o, c, e)
      PROVE  TodoInv'
  BY <1>9, <1>t, <1>e DEF DeleteFragment, RetrieveExpired, DeleteBegin,
     ExtendFragment, StoreFragment, Ready
<1>10. ASSUME NEW i \in FragmentIds, Sweep(i)
       PROVE  TodoInv'
  <2>1. /\ todo' = todo \ {i} /\ pc' = "unlink"
        /\ index' = [index EXCEPT ![i] = Absent]
    BY <1>10 DEF Sweep, DeleteBegin
  <2>2. Indexed(index') = Indexed(index) \ {i}
    BY <1>t, <2>1 DEF Indexed, Index
  <2> QED
    BY <2>1, <2>2 DEF TodoInv
<1>11. ASSUME NEW o \in Owners, NEW days \in Extensions,
              ExtendOwnerFragments(o, days)
       PROVE  TodoInv'
  BY <1>11, <1>t, <1>e DEF ExtendOwnerFragments, Ready
<1> QED
  BY <1>1, <1>2, <1>3, <1>4, <1>5, <1>6, <1>7, <1>8, <1>9, <1>10, <1>11
  DEF Next, Progress

LEMMA LeftType ==
  CapacityInv => Left \in Nat /\ Cardinality(todo) \in Nat /\ IsFiniteSet(todo)
<1> SUFFICES ASSUME CapacityInv
             PROVE  Left \in Nat /\ Cardinality(todo) \in Nat /\ IsFiniteSet(todo)
  OBVIOUS
<1>1. IsFiniteSet(todo)
  BY StorageAssumption, FS_Subset DEF CapacityInv, TypeOK
<1>2. Cardinality(todo) \in Nat
  BY <1>1, FS_CardinalityType
<1>3. StepsAfter[pc] \in Nat
  BY DEF CapacityInv, TypeOK, StepsAfter
<1> QED
  BY <1>1, <1>2, <1>3 DEF Left

\* Every step of an operation brings it nearer its end.
LEMMA RunsOutStep ==
  ASSUME CapacityInv, TodoInv, [Next]_vars, pc # "idle"
  PROVE  Left' \in Nat /\ (Left' < Left \/ Waits)
<1>t. /\ Left \in Nat /\ Left' \in Nat /\ IsFiniteSet(todo)
      /\ Cardinality(todo) \in Nat /\ Cardinality(todo') \in Nat
  <2>1. CapacityInv'
    BY CapacityNext
  <2>2. (Left \in Nat /\ Cardinality(todo) \in Nat /\ IsFiniteSet(todo))'
    BY <2>1, LeftType, PTL
  <2> QED
    BY <2>2, LeftType
<1>p. /\ phase = "up" /\ ~Ready
      /\ pc \in {"create", "write", "unlink", "save", "truncated", "sweep"}
  BY DEF CapacityInv, TypeOK, Ready
<1>s. ASSUME todo' = todo, StepsAfter[pc'] < StepsAfter[pc],
             StepsAfter[pc] \in Nat, StepsAfter[pc'] \in Nat
      PROVE  Left' < Left
  BY <1>s, <1>t DEF Left
<1>r. ASSUME Return  PROVE Left' < Left
  <2>1. pc' = "idle" /\ todo' = {}
    BY <1>r DEF Return
  <2>2. Left' = 0
    BY <2>1, FS_EmptySet DEF Left, StepsAfter
  <2>3. StepsAfter[pc] \in Nat /\ StepsAfter[pc] > 0
    BY <1>p DEF StepsAfter
  <2> QED
    BY <1>t, <2>2, <2>3 DEF Left
<1>1. CASE WriteBegin \/ WriteEnd \/ Unlink \/ SaveBegin
  BY <1>1, <1>s, <1>t DEF WriteBegin, WriteEnd, Unlink, SaveBegin, StepsAfter
<1>2. CASE SaveEnd
  BY <1>2, <1>r, <1>s, <1>t DEF SaveEnd, StepsAfter
<1>3. ASSUME NEW i \in FragmentIds, Sweep(i)
      PROVE  Left' < Left
  <2>1. pc = "sweep" /\ pc' = "unlink" /\ i \in todo /\ todo' = todo \ {i}
    BY <1>3 DEF Sweep, DeleteBegin
  <2>2. Cardinality(todo') = Cardinality(todo) - 1
    BY <1>t, <2>1, FS_RemoveElement
  <2> QED
    BY <1>t, <2>1, <2>2 DEF Left, StepsAfter
<1>4. CASE IOError \/ Crash
  BY <1>4, <1>r, <1>t DEF IOError, Crash
<1>5. CASE Tick \/ UNCHANGED vars
  BY <1>5, <1>t DEF Tick, vars, Waits
<1>6. ~Initialize /\ ~CleanupExpired
  BY <1>p DEF Initialize, CleanupExpired
<1>7. \A i \in FragmentIds, e \in Expiries :
        /\ ~ExtendFragment(i, e)
        /\ \A o \in Owners, c \in Contents : ~StoreFragment(i, o, c, e)
  BY <1>p DEF ExtendFragment, StoreFragment
<1>8. \A o \in Owners, days \in Extensions : ~ExtendOwnerFragments(o, days)
  BY <1>p DEF ExtendOwnerFragments
<1>9. \A i \in FragmentIds : ~DeleteFragment(i) /\ ~RetrieveExpired(i)
  BY <1>p DEF DeleteFragment, RetrieveExpired
<1> QED
  BY <1>t, <1>1, <1>2, <1>3, <1>4, <1>5, <1>6, <1>7, <1>8, <1>9 DEF Next, Progress

\* An operation in progress can always go on, and never for ever: each step of
\* the manager takes one off what is left of it, and cleanup_expired finds every
\* id it collected.  With the fairness of the awaited calls this is why every
\* operation returns, for any number of fragments.
THEOREM OperationsEnd == Spec => OperationsRunOut /\ []SweepGoesOn
<1>1. Init => TodoInv
  BY DEF Init, TodoInv
<1>2. TodoInv => SweepGoesOn
  BY DEF TodoInv, SweepGoesOn, Indexed
<1>3. CapacityInv /\ TodoInv /\ [Next]_vars =>
        [pc # "idle" => Left' \in Nat /\ (Left' < Left \/ Waits)]_vars
  BY RunsOutStep
<1> QED
  BY <1>1, <1>2, <1>3, TodoNext, CapacityInvariant, PTL
  DEF Spec, OperationsRunOut
=============================================================================
