----------------------------- MODULE Heartbeats -----------------------------
(***************************************************************************)
(* Identities, heartbeats and the storage contracts they keep alive        *)
(* (rust_core/src/identity/mod.rs, rust_core/src/p2p/protocol.rs).         *)
(*                                                                         *)
(* A user's device sends signed heartbeats over a network that may lose,   *)
(* repeat, delay and reorder them; a storing node whose clock differs from *)
(* the device's extends the user's contracts when one verifies and is      *)
(* recent.  The repository has the operations and no code yet that calls   *)
(* them in this order: Receive and Drop are external.  An identity stands  *)
(* for its keys and its public id, which are derived from it.              *)
(***************************************************************************)
EXTENDS Integers, FiniteSets

CONSTANTS
  SeedPhrase,        \* the user's seed phrase
  Passwords,         \* passwords the user may type at a recovery
  Fragments,         \* fragments stored for the user
  Day,               \* seconds of a day
  ExpirationDays,    \* days a contract is made for
  ExtensionDays,     \* days a heartbeat may extend it for
  MaxAge,            \* max_age_seconds
  Skews,             \* by how much the device's clock may be ahead
  MaxTime,           \* bound: the node's clock stops there
  MaxHeartbeats,     \* bound: heartbeats sent
  None               \* no contract

ASSUME HeartbeatAssumption ==
  /\ Day \in Nat \ {0} /\ ExpirationDays \in Nat /\ MaxAge \in Nat
  /\ ExtensionDays \subseteq Nat
  /\ MaxTime \in Nat /\ MaxHeartbeats \in Nat
  /\ Skews \subseteq Int

VARIABLES
  identity,          \* the identity the device holds
  skew,              \* how much its clock is ahead
  mail,              \* heartbeats sent: each may arrive often or never
  contracts,         \* the storing node's contract of each fragment
  now,               \* the storing node's clock
  lastBeat,          \* history: when each identity last sent a heartbeat, or
                     \* made a contract
  term               \* history: days each contract was last made or extended for

vars == <<identity, skew, mail, contracts, now, lastBeat, term>>

\* from_seed_phrase: any password gives an identity, no password the one of
\* the empty password.
Identity(password) == <<SeedPhrase, password>>
Identities == {Identity(password) : password \in Passwords}

Seconds(days) == days * Day

\* Signatures verify with the key they were made with and the same message.
Sign(id, message) == <<id, message>>

\* generate_heartbeat, at the time of the device.
Heartbeat(id, time) ==
  [node_id |-> id, timestamp |-> time, signature |-> Sign(id, <<id, time>>)]

-----------------------------------------------------------------------------
(* Faulty variants of the definitions below. *)

FaultyVerify(h, id) == h.signature = Sign(h.node_id, <<h.node_id, h.timestamp>>)
FaultyIsRecent(h) == now - h.timestamp < 2 * MaxAge
FaultyExtended(c, days) == [c EXCEPT !.expires_at = now + days]
FaultyNewContract(fragment, id) ==
  [fragment_id |-> id, owner_id |-> fragment, created_at |-> now,
   expires_at |-> now + Seconds(ExpirationDays)]
FaultyDaysUntilExpiration(c) ==
  LET left == c.expires_at - now
  IN 1 + (IF left >= 0 THEN left \div Day ELSE -((-left) \div Day))

-----------------------------------------------------------------------------
\* HeartbeatMessage::verify
Verify(h, id) == h.signature = Sign(id, <<h.node_id, h.timestamp>>)

\* HeartbeatMessage::is_recent
IsRecent(h) ==
  LET age == now - h.timestamp
  IN age < MaxAge /\ -age < MaxAge

\* StorageContract::new
NewContract(fragment, id) ==
  [fragment_id |-> fragment, owner_id |-> id, created_at |-> now,
   expires_at |-> now + Seconds(ExpirationDays)]

\* StorageContract::extend: counted from the node's present time.
Extended(c, days) == [c EXCEPT !.expires_at = now + Seconds(days)]

IsExpired(c) == now > c.expires_at

\* days_until_expiration: the division truncates towards zero.
DaysUntilExpiration(c) ==
  LET left == c.expires_at - now
  IN IF left >= 0 THEN left \div Day ELSE -((-left) \div Day)

-----------------------------------------------------------------------------
Init ==
  /\ identity \in Identities
  /\ skew \in Skews
  /\ mail = {}
  /\ contracts = [f \in Fragments |-> None]
  /\ now = 0
  /\ lastBeat = [id \in Identities |-> 0]
  /\ term = [f \in Fragments |-> ExpirationDays]

\* The user recovers the account, with the right password or another one.
Recover(password) ==
  /\ identity' = Identity(password)
  /\ UNCHANGED <<skew, mail, contracts, now, lastBeat, term>>

GenerateHeartbeat ==
  /\ Cardinality(mail) < MaxHeartbeats
  /\ mail' = mail \cup {Heartbeat(identity, now + skew)}
  /\ lastBeat' = [lastBeat EXCEPT ![identity] = now]
  /\ UNCHANGED <<identity, skew, contracts, now, term>>

\* A store request of the user makes a contract.
Store(f) ==
  /\ contracts[f] = None
  /\ contracts' = [contracts EXCEPT ![f] = NewContract(f, identity)]
  /\ lastBeat' = [lastBeat EXCEPT ![identity] = now]
  /\ term' = [term EXCEPT ![f] = ExpirationDays]
  /\ UNCHANGED <<identity, skew, mail, now>>

\* A heartbeat arrives, for the first time or again.
Receive(h, f, days) ==
  /\ contracts[f] # None
  /\ Verify(h, contracts[f].owner_id)
  /\ IsRecent(h)
  /\ contracts' = [contracts EXCEPT ![f] = Extended(@, days)]
  /\ term' = [term EXCEPT ![f] = days]
  /\ UNCHANGED <<identity, skew, mail, now, lastBeat>>

\* The node forgets an expired contract.
Drop(f) ==
  /\ contracts[f] # None
  /\ IsExpired(contracts[f])
  /\ contracts' = [contracts EXCEPT ![f] = None]
  /\ UNCHANGED <<identity, skew, mail, now, lastBeat, term>>

Tick ==
  /\ now < MaxTime
  /\ now' = now + 1
  /\ UNCHANGED <<identity, skew, mail, contracts, lastBeat, term>>

Next ==
  \/ \E password \in Passwords : Recover(password)
  \/ GenerateHeartbeat
  \/ \E f \in Fragments :
       \/ Store(f) \/ Drop(f)
       \/ \E h \in mail, days \in ExtensionDays : Receive(h, f, days)
  \/ Tick

Spec == Init /\ [][Next]_vars

-----------------------------------------------------------------------------
(* Properties *)

Contract ==
  [fragment_id : Fragments, owner_id : Identities, created_at : Nat,
   expires_at : Nat]

\* Contracts, heartbeats and times are well formed, and every heartbeat sent
\* carries the signature of its sender.
TypeOK ==
  /\ identity \in Identities
  /\ skew \in Skews
  /\ \A h \in mail :
       /\ h.node_id \in Identities /\ h.timestamp \in Int
       /\ h = Heartbeat(h.node_id, h.timestamp)
  /\ contracts \in [Fragments -> Contract \cup {None}]
  /\ now \in Nat
  /\ lastBeat \in [Identities -> Nat]
  /\ term \in [Fragments -> Nat]

\* protocol.rs:204: "Expiration timestamp (90 days from last heartbeat)": a
\* contract ends at most the days it was last given after the last sign of life
\* of the identity that made it, give or take the window heartbeats are accepted in and the
\* difference of the clocks.  Heartbeats that arrive late, twice or out of
\* order, or of an identity recovered with another password, do not keep it
\* longer.
EndsWithOwner ==
  \A f \in Fragments : contracts[f] # None =>
    contracts[f].expires_at <=
      lastBeat[contracts[f].owner_id] + Seconds(term[f])
        + (IF skew + MaxAge > 0 THEN skew + MaxAge ELSE 0)

\* A heartbeat that extends a contract for no fewer days than it was given
\* before takes no time away from it, in whatever order heartbeats arrive.
NeverShortened ==
  [][\A f \in Fragments :
       contracts[f] # None /\ contracts'[f] # None /\ term'[f] >= term[f]
         => contracts'[f].expires_at >= contracts[f].expires_at]_vars

\* The days shown and the expiration agree: with days left a contract has not
\* expired, and one that has not expired is never shown as overdue.
DaysAgree ==
  \A f \in Fragments : contracts[f] # None =>
    /\ DaysUntilExpiration(contracts[f]) > 0 => ~IsExpired(contracts[f])
    /\ DaysUntilExpiration(contracts[f]) < 0 => IsExpired(contracts[f])
=============================================================================
