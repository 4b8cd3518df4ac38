-------------------------- MODULE PeerManagerProofs --------------------------
(* Theorems about PeerManager, for every set of peers and announcements. *)
EXTENDS PeerManager, TLAPS

-----------------------------------------------------------------------------
(* Type correctness *)

LEMMA ClampType == \A x \in Int : Clamp(x) \in 0 .. 10
BY DEF Clamp

LEMMA LaterType ==
  \A a, b \in Int : Later(a, b) \in Int /\ Later(a, b) >= a /\ Later(a, b) >= b
BY DEF Later

LEMMA BlacklistType ==
  ASSUME TypeOK, NEW p \in Peers, NEW d \in Int, Blacklist(p, d)
  PROVE  /\ blacklist' \in [Peers -> {Unknown} \cup Int]
         /\ banned' \in [Peers -> Int]
<1>1. now + d \in Int
  BY DEF TypeOK
<1>2. Later(banned[p], now + d) \in Int
  BY <1>1, LaterType DEF TypeOK
<1> QED
  BY <1>1, <1>2 DEF TypeOK, Blacklist

LEMMA TypeNext == TypeOK /\ [Next]_vars => TypeOK'
<1> SUFFICES ASSUME TypeOK, [Next]_vars  PROVE TypeOK'
  OBVIOUS
<1> USE PeerAssumption
<1>1. ASSUME NEW p \in Peers, NEW info \in Infos, AddPeer(p, info)
      PROVE  TypeOK'
  <2>1. [offered |-> info.offered, available |-> info.available,
         reliability |-> info.reliability, latency |-> info.latency,
         last_seen |-> now] \in PeerInfo
    BY DEF TypeOK, PeerInfo
  <2> QED
    BY <1>1, <2>1 DEF AddPeer, TypeOK
<1>2. ASSUME NEW p \in Peers, NEW d \in Durations, BlacklistPeer(p, d)
      PROVE  TypeOK'
  <2>1. d \in Int /\ Blacklist(p, d)
    BY <1>2 DEF BlacklistPeer
  <2>2. /\ blacklist' \in [Peers -> {Unknown} \cup Int]
        /\ banned' \in [Peers -> Int]
    BY <2>1, BlacklistType
  <2> QED
    BY <1>2, <2>2 DEF BlacklistPeer, TypeOK
<1>3. ASSUME NEW p \in Peers, NEW d \in Deltas, UpdateReliability(p, d)
      PROVE  TypeOK'
  <2>1. peers[p] \in PeerInfo
    BY <1>3 DEF UpdateReliability, Known, TypeOK
  <2>2. Clamp(peers[p].reliability + d) \in 0 .. 10
    BY <2>1, ClampType DEF PeerInfo
  <2>3. peers' = [peers EXCEPT ![p] = [peers[p] EXCEPT !.reliability =
                                         Clamp(peers[p].reliability + d)]]
    BY <1>3, <2>1 DEF UpdateReliability, TypeOK
  <2>4. [peers[p] EXCEPT !.reliability = Clamp(peers[p].reliability + d)]
          \in PeerInfo
    BY <2>1, <2>2 DEF PeerInfo
  <2>5. /\ blacklist' \in [Peers -> {Unknown} \cup Int]
        /\ banned' \in [Peers -> Int]
    <3>1. CASE Blacklist(p, AutoBan)
      BY <3>1, BlacklistType
    <3>2. CASE UNCHANGED <<blacklist, banned>>
      BY <3>2 DEF TypeOK
    <3> QED
      BY <1>3, <3>1, <3>2 DEF UpdateReliability
  <2> QED
    BY <1>3, <2>3, <2>4, <2>5 DEF UpdateReliability, TypeOK
<1>4. CASE PruneStale
  BY <1>4 DEF PruneStale, TypeOK
<1>5. CASE Tick
  BY <1>5 DEF Tick, TypeOK
<1>6. CASE UNCHANGED vars
  BY <1>6 DEF vars, TypeOK
<1> QED
  BY <1>1, <1>2, <1>3, <1>4, <1>5, <1>6 DEF Next

\* The clamped reliability stays within 0.0 .. 1.0 whatever the deltas.
THEOREM TypeCorrect == Spec => []TypeOK
<1>1. Init => TypeOK
  BY DEF Init, TypeOK
<1> QED
  BY <1>1, TypeNext, PTL DEF Spec

-----------------------------------------------------------------------------
(* Blacklisting *)

\* Inductive: with one duration for all, the entry in force is always the
\* latest asked for, and no entry reaches further than that duration.
BanInv ==
  /\ TypeOK
  /\ \A p \in Peers : /\ banned[p] <= now + AutoBan
                      /\ now < banned[p] => blacklist[p] = banned[p]

LEMMA BlacklistBan ==
  ASSUME BanInv, NEW p \in Peers, Blacklist(p, AutoBan), now' = now
  PROVE  \A q \in Peers : /\ banned'[q] <= now' + AutoBan
                          /\ now' < banned'[q] => blacklist'[q] = banned'[q]
<1>1. banned[p] <= now + AutoBan /\ banned[p] \in Int
      /\ now + AutoBan \in Int
  BY PeerAssumption DEF BanInv, TypeOK
<1>2. Later(banned[p], now + AutoBan) = now + AutoBan
  BY <1>1 DEF Later
<1> QED
  BY <1>1, <1>2 DEF BanInv, TypeOK, Blacklist

LEMMA BanNext ==
  ASSUME Durations \subseteq {AutoBan}
  PROVE  BanInv /\ [Next]_vars => BanInv'
<1> SUFFICES ASSUME BanInv, [Next]_vars  PROVE BanInv'
  OBVIOUS
<1> USE PeerAssumption
<1>t. TypeOK /\ TypeOK'
  BY TypeNext DEF BanInv
<1>1. ASSUME NEW p \in Peers, NEW info \in Infos, AddPeer(p, info)
      PROVE  BanInv'
  BY <1>1, <1>t DEF AddPeer, BanInv
<1>2. ASSUME NEW p \in Peers, NEW d \in Durations, BlacklistPeer(p, d)
      PROVE  BanInv'
  <2>1. d = AutoBan
    OBVIOUS
  <2> QED
    BY <1>2, <1>t, <2>1, BlacklistBan DEF BlacklistPeer, BanInv
<1>3. ASSUME NEW p \in Peers, NEW d \in Deltas, UpdateReliability(p, d)
      PROVE  BanInv'
  <2>1. CASE Blacklist(p, AutoBan)
    BY <1>3, <1>t, <2>1, BlacklistBan DEF UpdateReliability, BanInv
  <2>2. CASE UNCHANGED <<blacklist, banned>>
    BY <1>3, <1>t, <2>2 DEF UpdateReliability, BanInv
  <2> QED
    BY <1>3, <2>1, <2>2 DEF UpdateReliability
<1>4. CASE PruneStale
  <2>1. ASSUME NEW p \in Peers, now < banned[p]
        PROVE  blacklist'[p] = banned'[p]
    <3>1. blacklist[p] = banned[p] /\ banned[p] # Unknown
      BY <1>t, <2>1 DEF BanInv, TypeOK
    <3> QED
      BY <1>4, <2>1, <3>1 DEF PruneStale
  <2> QED
    BY <1>4, <1>t, <2>1 DEF PruneStale, BanInv
<1>5. CASE Tick
  BY <1>5, <1>t DEF Tick, BanInv, TypeOK
<1>6. CASE UNCHANGED vars
  BY <1>6, <1>t DEF vars, BanInv
<1> QED
  BY <1>1, <1>2, <1>3, <1>4, <1>5, <1>6 DEF Next

LEMMA BanKeepsOut == BanInv => BanHolds
<1> SUFFICES ASSUME BanInv, NEW p \in Peers, now < banned[p]
             PROVE  /\ p \notin Healthy
                    /\ \A n \in 1 .. Cardinality(Peers) :
                         \A s \in Selections(0, n) : p \notin s
  BY DEF BanHolds
<1>1. IsBlacklisted(p)
  BY PeerAssumption DEF BanInv, TypeOK, IsBlacklisted
<1>2. p \notin Healthy
  BY <1>1 DEF Healthy
<1> QED
  BY <1>2 DEF Selections, Candidates

\* With one duration for every blacklisting, a blacklisted peer is out of
\* every selection until the latest time asked for.
THEOREM BanTheorem ==
  ASSUME Durations \subseteq {AutoBan}
  PROVE  Spec => []BanHolds
<1>1. Init => BanInv
  BY PeerAssumption DEF Init, BanInv, TypeOK
<1>2. BanInv /\ [Next]_vars => BanInv'
  BY BanNext
<1> QED
  BY <1>1, <1>2, BanKeepsOut, PTL DEF Spec

\* prune_stale removes only what the selection already ignores.
THEOREM PruneTheorem == Spec => PruneIsInvisible
<1>1. TypeOK /\ [Next]_vars => [PruneStale => Healthy' = Healthy]_vars
  <2> SUFFICES ASSUME TypeOK, PruneStale  PROVE Healthy' = Healthy
    OBVIOUS
  <2>1. \A p \in Peers :
          /\ IsBlacklisted(p)' <=> IsBlacklisted(p)
          /\ p \in Known' => p \in Known /\ peers'[p] = peers[p]
          /\ p \in Known /\ ~IsStale(p) => p \in Known'
    BY PeerAssumption DEF PruneStale, IsBlacklisted, IsStale, Known, TypeOK,
                          PeerInfo
  <2>2. \A p \in Known' : IsStale(p)' <=> IsStale(p)
    BY <2>1 DEF PruneStale, IsStale, Known
  <2>3. Known' \subseteq Peers /\ Known \subseteq Peers
    BY DEF Known
  <2> QED
    BY <2>1, <2>2, <2>3 DEF Healthy
<1> QED
  BY <1>1, TypeCorrect, PTL DEF Spec, PruneIsInvisible
=============================================================================
