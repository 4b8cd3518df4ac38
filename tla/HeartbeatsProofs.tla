-------------------------- MODULE HeartbeatsProofs --------------------------
(***************************************************************************)
(* What Heartbeats promises for every number of identities, heartbeats and *)
(* fragments, every window and term and every difference of the clocks.    *)
(*                                                                         *)
(* The inductive invariant adds to the types that nothing is dated later   *)
(* than it was sent: a heartbeat carries at most the time of its sender's  *)
(* last sign of life, on the device's clock, and a contract ends at most   *)
(* the days it was last given from now.                                    *)
(***************************************************************************)
EXTENDS Heartbeats, TLAPS

Dated == \A h \in mail : h.timestamp <= lastBeat[h.node_id] + skew

Within ==
  \A f \in Fragments : contracts[f] # None => contracts[f].expires_at <= now + Seconds(term[f])

Past == \A id \in Identities : lastBeat[id] <= now

IInv == TypeOK /\ Dated /\ Within /\ Past /\ EndsWithOwner

-----------------------------------------------------------------------------
\* Integer division of natural numbers is natural.
LEMMA DivNat ==
  ASSUME NEW a \in Nat, NEW b \in Nat \ {0}
  PROVE  a \div b \in Nat
  OBVIOUS

LEMMA SecondsNat ==
  ASSUME NEW days \in Nat
  PROVE  Seconds(days) \in Nat
  BY HeartbeatAssumption DEF Seconds

\* The seconds every contract was last given.
LEMMA TermSeconds ==
  ASSUME TypeOK
  PROVE  \A f \in Fragments : term[f] \in Nat /\ Seconds(term[f]) \in Nat
  <1>1. \A f \in Fragments : term[f] \in Nat
    BY DEF TypeOK
  <1> QED BY <1>1, SecondsNat

LEMMA SecondsMonotone ==
  ASSUME NEW m \in Nat, NEW n \in Nat, m <= n
  PROVE  Seconds(m) <= Seconds(n)
  BY HeartbeatAssumption DEF Seconds

\* A heartbeat that verifies for an identity was sent by it.
LEMMA VerifiedIsOwn ==
  ASSUME TypeOK, NEW h \in mail, NEW id, Verify(h, id)
  PROVE  h.node_id = id
  <1>1. h = Heartbeat(h.node_id, h.timestamp)
    BY DEF TypeOK
  <1>2. h.signature = <<h.node_id, <<h.node_id, h.timestamp>>>>
    BY <1>1 DEF Heartbeat, Sign
  <1>3. h.signature = <<id, <<h.node_id, h.timestamp>>>>
    BY DEF Verify, Sign
  <1> QED BY <1>2, <1>3

LEMMA InitIInv == Init => IInv
  <1> SUFFICES ASSUME Init PROVE IInv
    OBVIOUS
  <1> USE HeartbeatAssumption DEF Init
  <1>1. TypeOK
    BY DEF TypeOK
  <1>2. Dated /\ Within /\ EndsWithOwner
    BY DEF Dated, Within, EndsWithOwner
  <1>3. Past
    BY DEF Past
  <1> QED BY <1>1, <1>2, <1>3 DEF IInv

-----------------------------------------------------------------------------
\* A recovery changes only what the device will sign with.
LEMMA RecoverStep ==
  ASSUME IInv, NEW password \in Passwords, Recover(password)
  PROVE  IInv'
  BY DEF IInv, Recover, TypeOK, Dated, Within, Past, EndsWithOwner, Identities

\* A new heartbeat is dated by the device at its sender's new sign of life.
LEMMA GenerateStep ==
  ASSUME IInv, GenerateHeartbeat
  PROVE  IInv'
  <1> USE HeartbeatAssumption, SecondsNat DEF IInv, GenerateHeartbeat
  <1> DEFINE new == Heartbeat(identity, now + skew)
  <1>0. /\ identity \in Identities /\ now \in Nat /\ skew \in Int
        /\ lastBeat \in [Identities -> Nat]
        /\ new.node_id = identity /\ new.timestamp = now + skew
    BY DEF TypeOK, Heartbeat
  <1>1. new = Heartbeat(new.node_id, new.timestamp)
    BY <1>0 DEF Heartbeat
  <1>2. TypeOK'
    BY <1>0, <1>1 DEF TypeOK
  <1>3. \A id \in Identities : lastBeat'[id] \in Nat /\ lastBeat[id] \in Nat
                               /\ lastBeat[id] <= lastBeat'[id]
    BY <1>0 DEF Past
  <1>4. Dated'
    <2> SUFFICES ASSUME NEW h \in mail'
                 PROVE  h.timestamp <= lastBeat'[h.node_id] + skew
      BY DEF Dated
    <2>1. CASE h = new
      BY <2>1, <1>0
    <2>2. CASE h \in mail
      <3>1. /\ h.node_id \in Identities /\ h.timestamp \in Int
            /\ h.timestamp <= lastBeat[h.node_id] + skew
        BY <2>2 DEF TypeOK, Dated
      <3> QED BY <3>1, <1>0, <1>3
    <2> QED BY <2>1, <2>2
  <1>5. Within'
    BY DEF Within
  <1>6. Past'
    BY <1>0 DEF Past
  <1>7. EndsWithOwner'
    <2> SUFFICES ASSUME NEW f \in Fragments, contracts[f] # None
                 PROVE  contracts[f].expires_at <=
                          lastBeat'[contracts[f].owner_id] + Seconds(term[f])
                            + (IF skew + MaxAge > 0 THEN skew + MaxAge ELSE 0)
      BY DEF EndsWithOwner
    <2>1. contracts[f] \in Contract
      BY DEF TypeOK
    <2>2. contracts[f].owner_id \in Identities /\ contracts[f].expires_at \in Nat
      BY <2>1 DEF Contract
    <2>3. contracts[f].expires_at <=
            lastBeat[contracts[f].owner_id] + Seconds(term[f])
              + (IF skew + MaxAge > 0 THEN skew + MaxAge ELSE 0)
      BY DEF EndsWithOwner
    <2>4. Seconds(term[f]) \in Nat
      BY TermSeconds
    <2> QED BY <2>2, <2>3, <2>4, <1>3, <1>0
  <1> QED BY <1>2, <1>4, <1>5, <1>6, <1>7

\* A new contract counts as a sign of life of its owner.
LEMMA StoreStep ==
  ASSUME IInv, NEW f \in Fragments, Store(f)
  PROVE  IInv'
  <1> USE HeartbeatAssumption, SecondsNat DEF IInv, Store
  <1>0. /\ identity \in Identities /\ now \in Nat /\ skew \in Int
        /\ lastBeat \in [Identities -> Nat]
        /\ contracts \in [Fragments -> Contract \cup {None}]
    BY DEF TypeOK
  <1>s. /\ Seconds(ExpirationDays) \in Nat
        /\ term' = [term EXCEPT ![f] = ExpirationDays]
        /\ term \in [Fragments -> Nat]
    BY DEF TypeOK
  <1>1. /\ NewContract(f, identity) \in Contract
        /\ NewContract(f, identity).owner_id = identity
        /\ NewContract(f, identity).expires_at = now + Seconds(ExpirationDays)
    BY <1>0, <1>s DEF NewContract, Contract
  <1>2. TypeOK'
    BY <1>0, <1>1, <1>s DEF TypeOK
  <1>3. \A id \in Identities : lastBeat'[id] \in Nat /\ lastBeat[id] \in Nat
                               /\ lastBeat[id] <= lastBeat'[id]
    BY <1>0 DEF Past
  <1>4. Dated'
    <2> SUFFICES ASSUME NEW h \in mail
                 PROVE  h.timestamp <= lastBeat'[h.node_id] + skew
      BY DEF Dated
    <2>1. /\ h.node_id \in Identities /\ h.timestamp \in Int
          /\ h.timestamp <= lastBeat[h.node_id] + skew
      BY DEF TypeOK, Dated
    <2> QED BY <2>1, <1>0, <1>3
  <1>5. Past'
    BY <1>0 DEF Past
  <1>6. Within' /\ EndsWithOwner'
    <2> SUFFICES ASSUME NEW g \in Fragments, contracts'[g] # None
                 PROVE  /\ contracts'[g].expires_at <= now + Seconds(term'[g])
                        /\ contracts'[g].expires_at <=
                             lastBeat'[contracts'[g].owner_id] + Seconds(term'[g])
                               + (IF skew + MaxAge > 0 THEN skew + MaxAge ELSE 0)
      BY DEF Within, EndsWithOwner
    <2>1. CASE g = f
      <3>1. contracts'[g] = NewContract(f, identity) /\ term'[g] = ExpirationDays
        BY <2>1, <1>0, <1>s
      <3>2. lastBeat'[identity] = now
        BY <1>0
      <3> QED BY <3>1, <3>2, <1>0, <1>1, <1>s
    <2>2. CASE g # f
      <3>1. /\ contracts'[g] = contracts[g] /\ contracts[g] \in Contract
            /\ term'[g] = term[g] /\ Seconds(term[g]) \in Nat
        BY <2>2, <1>0, <1>s, TermSeconds
      <3>2. contracts[g].owner_id \in Identities /\ contracts[g].expires_at \in Nat
        BY <3>1 DEF Contract
      <3>3. /\ contracts[g].expires_at <= now + Seconds(term[g])
            /\ contracts[g].expires_at <=
                 lastBeat[contracts[g].owner_id] + Seconds(term[g])
                   + (IF skew + MaxAge > 0 THEN skew + MaxAge ELSE 0)
        BY <3>1 DEF Within, EndsWithOwner
      <3> QED BY <3>1, <3>2, <3>3, <1>0, <1>3
    <2> QED BY <2>1, <2>2
  <1> QED BY <1>2, <1>4, <1>5, <1>6

\* A heartbeat that verifies is the owner's own, so it is dated by the
\* owner's last sign of life; being recent, it is not much older than now.
LEMMA ReceiveStep ==
  ASSUME IInv, NEW f \in Fragments, NEW h \in mail, NEW days \in ExtensionDays,
         Receive(h, f, days)
  PROVE  IInv'
  <1> USE HeartbeatAssumption, SecondsNat DEF IInv, Receive
  <1>0. /\ now \in Nat /\ skew \in Int /\ MaxAge \in Nat
        /\ lastBeat \in [Identities -> Nat]
        /\ contracts \in [Fragments -> Contract \cup {None}]
    BY DEF TypeOK
  <1>s. /\ days \in Nat /\ Seconds(days) \in Nat
        /\ term' = [term EXCEPT ![f] = days]
        /\ term \in [Fragments -> Nat]
    BY DEF TypeOK
  <1>1. contracts[f] \in Contract
    BY <1>0
  <1>2. /\ Extended(contracts[f], days) \in Contract
        /\ Extended(contracts[f], days).owner_id = contracts[f].owner_id
        /\ Extended(contracts[f], days).expires_at = now + Seconds(days)
    BY <1>0, <1>1, <1>s DEF Extended, Contract
  <1>3. TypeOK'
    BY <1>0, <1>2, <1>s DEF TypeOK
  <1>4. Dated' /\ Past'
    BY DEF Dated, Past
  <1>5. /\ h.node_id = contracts[f].owner_id
        /\ h.node_id \in Identities /\ h.timestamp \in Int
        /\ h.timestamp <= lastBeat[h.node_id] + skew
    BY VerifiedIsOwn DEF TypeOK, Dated
  <1>6. now - h.timestamp < MaxAge
    BY DEF IsRecent
  <1>7. Within' /\ EndsWithOwner'
    <2> SUFFICES ASSUME NEW g \in Fragments, contracts'[g] # None
                 PROVE  /\ contracts'[g].expires_at <= now + Seconds(term'[g])
                        /\ contracts'[g].expires_at <=
                             lastBeat[contracts'[g].owner_id] + Seconds(term'[g])
                               + (IF skew + MaxAge > 0 THEN skew + MaxAge ELSE 0)
      BY DEF Within, EndsWithOwner
    <2>1. CASE g = f
      <3>1. contracts'[g] = Extended(contracts[f], days) /\ term'[g] = days
        BY <2>1, <1>0, <1>s
      <3>2. lastBeat[h.node_id] \in Nat /\ now <= lastBeat[h.node_id] + skew + MaxAge
        BY <1>0, <1>5, <1>6
      <3> QED BY <3>1, <3>2, <1>0, <1>2, <1>5, <1>s
    <2>2. CASE g # f
      <3>1. contracts'[g] = contracts[g] /\ term'[g] = term[g]
        BY <2>2, <1>0, <1>s
      <3> QED BY <3>1 DEF Within, EndsWithOwner
    <2> QED BY <2>1, <2>2
  <1> QED BY <1>3, <1>4, <1>7

LEMMA DropStep ==
  ASSUME IInv, NEW f \in Fragments, Drop(f)
  PROVE  IInv'
  <1> USE DEF IInv, Drop
  <1>1. \A g \in Fragments : contracts'[g] = contracts[g] \/ contracts'[g] = None
    BY DEF TypeOK
  <1>2. TypeOK'
    BY DEF TypeOK
  <1>3. Dated' /\ Past'
    BY DEF Dated, Past
  <1>4. Within' /\ EndsWithOwner'
    BY <1>1 DEF Within, EndsWithOwner
  <1> QED BY <1>2, <1>3, <1>4

LEMMA TickStep ==
  ASSUME IInv, Tick
  PROVE  IInv'
  <1> USE HeartbeatAssumption, SecondsNat DEF IInv, Tick
  <1>0. now \in Nat /\ lastBeat \in [Identities -> Nat]
    BY DEF TypeOK
  <1>1. TypeOK'
    BY DEF TypeOK
  <1>2. Dated' /\ EndsWithOwner'
    BY DEF Dated, EndsWithOwner
  <1>3. Past'
    BY <1>0 DEF Past
  <1>4. Within'
    <2> SUFFICES ASSUME NEW f \in Fragments, contracts[f] # None
                 PROVE  contracts[f].expires_at <= now' + Seconds(term[f])
      BY DEF Within
    <2>1. contracts[f].expires_at \in Nat
      BY DEF TypeOK, Contract
    <2>2. Seconds(term[f]) \in Nat
      BY TermSeconds
    <2> QED BY <2>1, <2>2, <1>0 DEF Within
  <1> QED BY <1>1, <1>2, <1>3, <1>4

LEMMA NextIInv == IInv /\ [Next]_vars => IInv'
  <1> SUFFICES ASSUME IInv, [Next]_vars PROVE IInv'
    OBVIOUS
  <1>1. CASE UNCHANGED vars
    BY <1>1 DEF vars, IInv, TypeOK, Dated, Within, Past, EndsWithOwner
  <1>2. CASE Next
    BY <1>2, RecoverStep, GenerateStep, StoreStep, ReceiveStep, DropStep, TickStep
       DEF Next
  <1> QED BY <1>1, <1>2

LEMMA Invariance == Spec => []IInv
  BY InitIInv, NextIInv, PTL DEF Spec

-----------------------------------------------------------------------------
\* Contracts, heartbeats and times stay well formed, and every heartbeat
\* carries its sender's signature.
THEOREM TypeCorrect == Spec => []TypeOK
  <1>1. IInv => TypeOK
    BY DEF IInv
  <1> QED BY <1>1, Invariance, PTL

\* protocol.rs:204: whatever is lost, repeated, late or reordered, a contract
\* ends at most a term, a window and the clocks' difference after the last
\* sign of life of its owner.
THEOREM EndsTheorem == Spec => []EndsWithOwner
  <1>1. IInv => EndsWithOwner
    BY DEF IInv
  <1> QED BY <1>1, Invariance, PTL

\* protocol.rs:260-263: no extension for as many days shortens a contract.
THEOREM ExtendTheorem == Spec => NeverShortened
  <1>1. ASSUME IInv, [Next]_vars, NEW f \in Fragments,
               contracts[f] # None, contracts'[f] # None, term'[f] >= term[f]
        PROVE  contracts'[f].expires_at >= contracts[f].expires_at
    <2> USE HeartbeatAssumption, SecondsNat
    <2>0. /\ contracts \in [Fragments -> Contract \cup {None}] /\ now \in Nat
          /\ contracts[f] \in Contract
      BY <1>1 DEF IInv, TypeOK
    <2>1. contracts[f].expires_at \in Nat /\ contracts[f].expires_at <= now + Seconds(term[f])
      BY <1>1, <2>0 DEF IInv, Within, Contract
    <2>2. CASE contracts'[f] = contracts[f]
      BY <2>1, <2>2
    <2>3. ASSUME NEW h \in mail, NEW days \in ExtensionDays, Receive(h, f, days)
          PROVE  contracts'[f].expires_at >= contracts[f].expires_at
      <3>1. contracts'[f] = Extended(contracts[f], days)
        BY <2>0, <2>3 DEF Receive
      <3>2. contracts'[f].expires_at = now + Seconds(days)
        BY <3>1, <2>0 DEF Extended, Contract
      <3>3. term'[f] = days /\ days \in Nat /\ term[f] \in Nat
        BY <1>1, <2>3 DEF IInv, TypeOK, Receive
      <3>4. Seconds(term[f]) <= Seconds(days)
        BY <1>1, <3>3, SecondsMonotone
      <3>5. Seconds(term[f]) \in Nat /\ Seconds(days) \in Nat
        BY <3>3
      <3> QED BY <3>2, <3>4, <3>5, <2>0, <2>1
    <2>4. CASE UNCHANGED contracts
      BY <2>2, <2>4
    <2>5. ASSUME NEW g \in Fragments, Store(g) PROVE contracts'[f] = contracts[f]
      BY <1>1, <2>0, <2>5 DEF Store
    <2>6. ASSUME NEW g \in Fragments, Drop(g) PROVE contracts'[f] = contracts[f]
      BY <1>1, <2>0, <2>6 DEF Drop
    <2>7. ASSUME NEW g \in Fragments, NEW h \in mail, NEW days \in ExtensionDays,
               Receive(h, g, days), g # f
          PROVE  contracts'[f] = contracts[f]
      BY <2>0, <2>7 DEF Receive
    <2>8. CASE UNCHANGED vars
      BY <2>4, <2>8 DEF vars
    <2>9. CASE Next
      BY <2>9, <2>2, <2>3, <2>4, <2>5, <2>6, <2>7
         DEF Next, Recover, GenerateHeartbeat, Tick
    <2> QED BY <1>1, <2>8, <2>9
  <1>2. IInv /\ [Next]_vars =>
          [\A f \in Fragments :
             contracts[f] # None /\ contracts'[f] # None /\ term'[f] >= term[f]
               => contracts'[f].expires_at >= contracts[f].expires_at]_vars
    BY <1>1
  <1> QED BY <1>2, Invariance, PTL DEF Spec, NeverShortened

\* protocol.rs:253-269: the days shown agree with the expiration.
THEOREM DaysTheorem == Spec => []DaysAgree
  <1>1. ASSUME IInv PROVE DaysAgree
    <2> SUFFICES ASSUME NEW f \in Fragments, contracts[f] # None
                 PROVE  /\ DaysUntilExpiration(contracts[f]) > 0
                             => ~IsExpired(contracts[f])
                        /\ DaysUntilExpiration(contracts[f]) < 0
                             => IsExpired(contracts[f])
      BY DEF DaysAgree
    <2> DEFINE left == contracts[f].expires_at - now
    <2>1. contracts[f].expires_at \in Nat /\ now \in Nat
      BY <1>1 DEF IInv, TypeOK, Contract
    <2>2. CASE left >= 0
      <3>1. left \div Day \in Nat
        BY <2>1, <2>2, DivNat, HeartbeatAssumption
      <3>2. DaysUntilExpiration(contracts[f]) = left \div Day
        BY <2>2 DEF DaysUntilExpiration
      <3> HIDE DEF left
      <3>3. ~(DaysUntilExpiration(contracts[f]) < 0)
        BY <3>1, <3>2
      <3>4. ~IsExpired(contracts[f])
        BY <2>1, <2>2 DEF IsExpired, left
      <3> QED BY <3>3, <3>4
    <2>3. CASE left < 0
      <3>1. (-left) \div Day \in Nat
        BY <2>1, <2>3, DivNat, HeartbeatAssumption
      <3>2. DaysUntilExpiration(contracts[f]) = -((-left) \div Day)
        BY <2>1, <2>3 DEF DaysUntilExpiration
      <3> HIDE DEF left
      <3>3. ~(DaysUntilExpiration(contracts[f]) > 0)
        BY <3>1, <3>2
      <3>4. IsExpired(contracts[f])
        BY <2>1, <2>3 DEF IsExpired, left
      <3> QED BY <3>3, <3>4
    <2> QED BY <2>1, <2>2, <2>3
  <1> QED BY <1>1, Invariance, PTL
=============================================================================
