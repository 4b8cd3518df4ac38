----------------------------- MODULE PeerManager -----------------------------
(***************************************************************************)
(* Known peers, their reliability and the blacklist                        *)
(* (rust_core/src/p2p/discovery.rs).                                       *)
(*                                                                         *)
(* Reliability is counted in tenths (0 .. 10), so 1.0 is 10; latency in    *)
(* tenths of a second, capped at one second as score() does.  Every        *)
(* method takes &mut self or &self and awaits nothing: an action is a      *)
(* whole call.                                                             *)
(***************************************************************************)
EXTENDS Integers, FiniteSets

CONSTANTS
  Peers,           \* peer ids
  MaxAge,          \* max_age_seconds
  AutoBan,         \* duration of an automatic blacklisting
  Durations,       \* durations callers pass to blacklist_peer
  Deltas,          \* changes of reliability callers pass
  Infos,           \* what a discovered peer announces: offered, available,
                   \* reliability and latency
  MaxTime,         \* bound: the clock stops there
  Unknown          \* no entry

MinReliability == 3
BanBelow == 1

ASSUME PeerAssumption ==
  /\ MaxAge \in Nat
  /\ AutoBan \in Nat
  /\ Durations \subseteq Int
  /\ Deltas \subseteq Int
  /\ Infos \subseteq [offered : Nat, available : Nat, reliability : 0 .. 10,
                      latency : 0 .. 10]
  /\ MaxTime \in Nat
  /\ Unknown \notin Int
  /\ Unknown \notin [offered : Nat, available : Nat, reliability : 0 .. 10,
                     latency : 0 .. 10, last_seen : Nat]

PeerInfo == [offered : Nat, available : Nat, reliability : 0 .. 10,
             latency : 0 .. 10, last_seen : Nat]

VARIABLES
  peers,           \* PeerManager.peers
  blacklist,       \* PeerManager.blacklist: the expiry of each entry
  now,             \* chrono::Utc::now().timestamp()
  banned           \* history: the latest time any call asked each peer to be
                   \* blacklisted until

vars == <<peers, blacklist, now, banned>>

Known == {p \in Peers : peers[p] # Unknown}

\* Only the upper bound. (Faulty... operators are wrong variants of a
\* definition that follows them.)
FaultyClamp(x) == IF x > 10 THEN 10 ELSE x

\* f32::clamp(0.0, 1.0)
Clamp(x) == IF x < 0 THEN 0 ELSE IF x > 10 THEN 10 ELSE x

Later(a, b) == IF a > b THEN a ELSE b

IsBlacklisted(p) == blacklist[p] # Unknown /\ now < blacklist[p]
IsStale(p) == now - peers[p].last_seen > MaxAge

\* healthy_peers
Healthy ==
  {p \in Known : /\ ~IsBlacklisted(p)
                 /\ peers[p].reliability >= MinReliability
                 /\ ~IsStale(p)}

\* The filter of select_storage_peers.
Candidates(bytes) == {p \in Healthy : peers[p].available >= bytes}

\* score(), times 100 for an available / offered of at most two decimals.
Score(p) ==
  LET i == peers[p]
  IN  4 * i.reliability + 3 * (10 - i.latency)
      + IF i.offered > 0 THEN (30 * i.available) \div i.offered ELSE 0

\* The sets select_storage_peers may answer: the best scores, ties in the
\* order the map gave.
Selections(bytes, count) ==
  LET c == Candidates(bytes)
      n == IF count < Cardinality(c) THEN count ELSE Cardinality(c)
  IN  {s \in SUBSET c : /\ Cardinality(s) = n
                        /\ \A p \in s, q \in c \ s : Score(p) >= Score(q)}

-----------------------------------------------------------------------------
\* A peer seen again starts with a clean blacklist.
FaultyAddPeer(p, info) ==
  /\ peers' = [peers EXCEPT ![p] =
                 [offered |-> info.offered, available |-> info.available,
                  reliability |-> info.reliability, latency |-> info.latency,
                  last_seen |-> now]]
  /\ blacklist' = [blacklist EXCEPT ![p] = Unknown]
  /\ UNCHANGED <<now, banned>>

\* A peer is pruned in the last second it is fresh.
FaultyPruneStale ==
  /\ peers' = [p \in Peers |->
                 IF p \in Known /\ now - peers[p].last_seen < MaxAge
                   THEN peers[p] ELSE Unknown]
  /\ blacklist' = [p \in Peers |->
                     IF IsBlacklisted(p) THEN blacklist[p] ELSE Unknown]
  /\ UNCHANGED <<now, banned>>

-----------------------------------------------------------------------------
Init ==
  /\ peers = [p \in Peers |-> Unknown]
  /\ blacklist = [p \in Peers |-> Unknown]
  /\ now = 0
  /\ banned = [p \in Peers |-> 0]

\* add_peer touches the entry and replaces the one that was there.
AddPeer(p, info) ==
  /\ peers' = [peers EXCEPT ![p] =
                 [offered |-> info.offered, available |-> info.available,
                  reliability |-> info.reliability, latency |-> info.latency,
                  last_seen |-> now]]
  /\ UNCHANGED <<blacklist, now, banned>>

\* The effect of blacklist_peer: the last call decides.
Blacklist(p, duration) ==
  /\ blacklist' = [blacklist EXCEPT ![p] = now + duration]
  /\ banned' = [banned EXCEPT ![p] = Later(@, now + duration)]

BlacklistPeer(p, duration) ==
  /\ Blacklist(p, duration)
  /\ UNCHANGED <<peers, now>>

\* update_reliability: whichever way it moved, a score below the threshold
\* blacklists the peer for the automatic duration from now.
UpdateReliability(p, delta) ==
  /\ p \in Known
  /\ peers' = [peers EXCEPT ![p].reliability = Clamp(@ + delta)]
  /\ IF Clamp(peers[p].reliability + delta) < BanBelow
       THEN Blacklist(p, AutoBan)
       ELSE UNCHANGED <<blacklist, banned>>
  /\ UNCHANGED now

PruneStale ==
  /\ peers' = [p \in Peers |->
                 IF p \in Known /\ now - peers[p].last_seen <= MaxAge
                   THEN peers[p] ELSE Unknown]
  /\ blacklist' = [p \in Peers |->
                     IF blacklist[p] # Unknown /\ now < blacklist[p]
                       THEN blacklist[p] ELSE Unknown]
  /\ UNCHANGED <<now, banned>>

Tick ==
  /\ now < MaxTime
  /\ now' = now + 1
  /\ UNCHANGED <<peers, blacklist, banned>>

Next ==
  \/ \E p \in Peers, info \in Infos : AddPeer(p, info)
  \/ \E p \in Peers, d \in Durations : BlacklistPeer(p, d)
  \/ \E p \in Peers, d \in Deltas : UpdateReliability(p, d)
  \/ PruneStale
  \/ Tick

Spec == Init /\ [][Next]_vars

-----------------------------------------------------------------------------
(* Properties *)

TypeOK ==
  /\ peers \in [Peers -> {Unknown} \cup PeerInfo]
  /\ blacklist \in [Peers -> {Unknown} \cup Int]
  /\ now \in Nat
  /\ banned \in [Peers -> Int]

\* A peer is kept out of every selection until the latest time asked for:
\* neither being seen again, nor pruning, nor a better score lets it back in
\* earlier.  It holds while all durations are alike.
BanHolds ==
  \A p \in Peers : now < banned[p] =>
    /\ p \notin Healthy
    /\ \A n \in 1 .. Cardinality(Peers) :
         \A s \in Selections(0, n) : p \notin s

\* Pruning changes nothing for the selection: it drops only peers and entries
\* that are not taken into account any more, to the very second.
PruneIsInvisible == [][PruneStale => Healthy' = Healthy]_vars
=============================================================================
