---------------------------- MODULE P2PNodeProofs ----------------------------
(***************************************************************************)
(* Theorems about P2PNode, for any number of peers, connections, events    *)
(* and topics.                                                             *)
(***************************************************************************)
EXTENDS P2PNode, WellFoundedInduction, TLAPS

\* The end of a connection comes after its beginning in the queue.
OpensLast ==
  \A p \in Peers, i \in 1 .. Len(queue) :
    queue[i] = Event("open", p) =>
      \/ connections[p] > 0
      \/ \E j \in i + 1 .. Len(queue) : queue[j] = Event("close", p)

GhostInv == TypeOK /\ OpensLast /\ NoGhosts

LEMMA SurfacedKinds ==
  /\ DOMAIN Surfaced =
       {"open", "close", "request", "response", "record", "gossip", "address"}
  /\ \A e \in SwarmEvent : e.kind \in DOMAIN Surfaced =>
       Event(Surfaced[e.kind], e.peer) \in P2PEvent
<1>1. DOMAIN Surfaced =
        {"open", "close", "request", "response", "record", "gossip", "address"}
  BY DEF Surfaced
<1> QED
  BY <1>1 DEF Event, SwarmEvent, P2PEvent

\* What the head and the tail of the queue are.
LEMMA QueueTail ==
  ASSUME TypeOK, NEW kinds, Take(kinds)
  PROVE  /\ Head(queue) \in SwarmEvent /\ Head(queue) = queue[1]
         /\ Head(queue).kind \in kinds
         /\ Tail(queue) \in Seq(SwarmEvent)
         /\ Len(queue) \in Nat \ {0}
         /\ Len(Tail(queue)) = Len(queue) - 1
         /\ \A i \in 1 .. Len(queue) - 1 : Tail(queue)[i] = queue[i + 1]
<1>1. queue \in Seq(SwarmEvent) /\ queue # <<>> /\ Head(queue).kind \in kinds
  BY DEF TypeOK, Take
<1> QED
  BY <1>1

LEMMA QueueAppend ==
  ASSUME NEW s \in Seq(SwarmEvent), NEW e \in SwarmEvent
  PROVE  /\ Append(s, e) \in Seq(SwarmEvent)
         /\ Len(s) \in Nat /\ Len(Append(s, e)) = Len(s) + 1
         /\ \A i \in 1 .. Len(s) : Append(s, e)[i] = s[i]
         /\ Append(s, e)[Len(s) + 1] = e
OBVIOUS

LEMMA GhostInit == Init => GhostInv
<1> SUFFICES ASSUME Init PROVE GhostInv
  OBVIOUS
<1>1. TypeOK
  <2>1. 0 \in 0 .. MaxConnections /\ 0 \in 0 .. MaxEvents
    BY NodeAssumption
  <2>2. connections \in [Peers -> 0 .. MaxConnections]
    BY <2>1 DEF Init
  <2>3. queue \in Seq(SwarmEvent) /\ events \in Seq(P2PEvent)
    BY DEF Init
  <2>4. running \in BOOLEAN /\ listening \in BOOLEAN /\ routing \in BOOLEAN
    BY DEF Init
  <2> QED
    BY <2>1, <2>2, <2>3, <2>4 DEF Init, TypeOK
<1>2. OpensLast /\ NoGhosts
  BY DEF Init, OpensLast, NoGhosts
<1> QED
  BY <1>1, <1>2 DEF GhostInv

LEMMA TypeNext == TypeOK /\ [Next]_vars => TypeOK'
<1> SUFFICES ASSUME TypeOK, [Next]_vars PROVE TypeOK'
  OBVIOUS
<1> USE NodeAssumption DEF TypeOK, callerVars, swarmVars, channelVars
<1>e. ASSUME NEW k \in DOMAIN Surfaced \cup {"discovered", "identified", "failure"},
             NEW p \in Peers
      PROVE  Event(k, p) \in SwarmEvent
  BY DEF Event, SwarmEvent
<1>k. \A k \in {"open", "close", "request", "gossip", "response", "record", "address"} :
        k \in DOMAIN Surfaced
  BY SurfacedKinds
<1>h. ASSUME NEW e \in SwarmEvent, Happens(e)
      PROVE  /\ queue' \in Seq(SwarmEvent) /\ happened' \in 0 .. MaxEvents
             /\ UNCHANGED <<callerVars, channelVars>>
  <2>1. queue \in Seq(SwarmEvent) /\ queue' = Append(queue, e)
    BY <1>h DEF Happens
  <2>2. queue' \in Seq(SwarmEvent)
    BY <2>1, QueueAppend
  <2> QED
    BY <1>h, <2>2 DEF Happens
<1>1. CASE StartListenFails
  BY <1>1 DEF StartListenFails
<1>2. ASSUME NEW configured \in BOOLEAN, NEW named \in BOOLEAN,
             Start(configured, named)
      PROVE  TypeOK'
  <2>1. routing' \in BOOLEAN /\ listening' \in BOOLEAN
    <3>1. routing' = (routing \/ named) /\ listening' = TRUE
      BY <1>2 DEF Start
    <3> QED
      BY <3>1, Zenon
  <2>2. topics' \subseteq StartTopics
    BY <1>2 DEF Start
  <2> QED
    BY <1>2, <2>1, <2>2 DEF Start
<1>3. CASE Run \/ Cancel
  BY <1>3 DEF Run, Cancel
<1>4. CASE Receive
  <2>1. /\ events # <<>> /\ events' = Tail(events)
        /\ view' = Told(view, Head(events))
    BY <1>4 DEF Receive
  <2>3. Head(events) \in P2PEvent /\ events' \in Seq(P2PEvent)
    BY <2>1
  <2>4. Head(events).peer \in Peers
    BY <2>3 DEF P2PEvent
  <2>2. Told(view, Head(events)) \subseteq Peers
    BY <2>4 DEF Told
  <2> QED
    BY <1>4, <2>1, <2>2, <2>3 DEF Receive
<1>5. ASSUME NEW p \in Peers, Open(p) PROVE TypeOK'
  <2>1. Happens(Event("open", p)) /\ Event("open", p) \in SwarmEvent
    BY <1>5, <1>e, <1>k DEF Open
  <2>2. /\ connections' \in [Peers -> 0 .. MaxConnections]
        /\ overlapped' \subseteq Peers
    BY <1>5 DEF Open
  <2> QED
    BY <1>5, <1>h, <2>1, <2>2 DEF Open
<1>6. ASSUME NEW p \in Peers, Close(p) PROVE TypeOK'
  <2>1. Happens(Event("close", p)) /\ Event("close", p) \in SwarmEvent
    BY <1>6, <1>e, <1>k DEF Close
  <2>2. /\ connections' \in [Peers -> 0 .. MaxConnections]
        /\ overlapped' \subseteq Peers
    BY <1>6 DEF Close
  <2> QED
    BY <1>6, <1>h, <2>1, <2>2 DEF Close
<1>7. ASSUME NEW p \in Peers,
             NEW kind \in {"request", "gossip", "discovered", "identified", "address"},
             Arrive(kind, p)
      PROVE  TypeOK'
  BY <1>7, <1>e, <1>h, <1>k DEF Arrive
<1>8. ASSUME NEW p \in Peers, NEW kind \in {"response", "record"}, Ask(kind, p)
      PROVE  TypeOK'
  BY <1>8 DEF Ask, Event
<1>9. ASSUME NEW p \in Peers, NEW kind \in {"response", "record"},
             Answer(kind, p)
      PROVE  TypeOK'
  <2>1. PICK outcome \in {kind, "failure"} : Happens(Event(outcome, p))
    BY <1>9 DEF Answer
  <2>2. Event(outcome, p) \in SwarmEvent
    BY <1>e, <1>k
  <2> QED
    BY <1>9, <1>h, <2>1, <2>2 DEF Answer
<1>t. ASSUME NEW e \in SwarmEvent, e.kind \in DOMAIN Surfaced, Tell(e)
      PROVE  events' \in Seq(P2PEvent)
  BY <1>t, SurfacedKinds DEF Tell
<1>10. CASE ConnectionEstablished
  <2>1. /\ Head(queue) \in SwarmEvent /\ Head(queue).kind = "open"
        /\ Tail(queue) \in Seq(SwarmEvent)
    BY <1>10, QueueTail DEF ConnectionEstablished
  <2> QED
    BY <1>10, <1>k, <1>t, <2>1 DEF ConnectionEstablished, SwarmEvent
<1>11. CASE ConnectionClosed
  <2>1. /\ Head(queue) \in SwarmEvent /\ Head(queue).kind = "close"
        /\ Tail(queue) \in Seq(SwarmEvent)
    BY <1>11, QueueTail DEF ConnectionClosed
  <2> QED
    BY <1>11, <1>k, <1>t, <2>1 DEF ConnectionClosed, SwarmEvent
<1>12. CASE Message
  <2>4. Take({"request", "response", "record", "gossip", "address"})
    BY <1>12 DEF Message
  <2>5. /\ Head(queue) \in SwarmEvent /\ Tail(queue) \in Seq(SwarmEvent)
        /\ Head(queue).kind \in {"request", "response", "record", "gossip", "address"}
    BY <2>4, QueueTail
  <2>1. /\ Head(queue) \in SwarmEvent /\ Head(queue).kind \in DOMAIN Surfaced
        /\ Tail(queue) \in Seq(SwarmEvent)
    BY <1>k, <2>5
  <2>2. Event("failure", Head(queue).peer) \in SwarmEvent
    BY <1>e, <2>1 DEF SwarmEvent
  <2>3. queue' \in Seq(SwarmEvent)
    <3>1. Append(Tail(queue), Event("failure", Head(queue).peer))
            \in Seq(SwarmEvent)
      BY <2>1, <2>2, QueueAppend
    <3> QED
      BY <1>12, <2>1, <3>1 DEF Message
  <2> QED
    BY <1>12, <1>t, <2>1, <2>3 DEF Message
<1>13. CASE AddAddress \/ Ignore
  <2>1. Tail(queue) \in Seq(SwarmEvent)
    BY <1>13, QueueTail DEF AddAddress, Ignore
  <2> QED
    BY <1>13, <2>1 DEF AddAddress, Ignore
<1>14. CASE UNCHANGED vars
  BY <1>14 DEF vars
<1> QED
  BY <1>1, <1>2, <1>3, <1>4, <1>5, <1>6, <1>7, <1>8, <1>9, <1>10, <1>11,
     <1>12, <1>13, <1>14 DEF Next, Step

\* All state of the node is well typed, whatever the network does.
THEOREM TypeCorrect == Spec => []TypeOK
<1>1. Init => TypeOK
  BY GhostInit DEF GhostInv
<1> QED
  BY <1>1, TypeNext, PTL DEF Spec

-----------------------------------------------------------------------------
(* No ghosts *)

\* A step that leaves connections, the queue and the list alone.
LEMMA GhostIdle ==
  GhostInv /\ UNCHANGED <<connections, queue, connected_peers>>
    => OpensLast' /\ NoGhosts'
BY DEF GhostInv, OpensLast, NoGhosts, Queued

\* An event other than the end of a connection joins the queue.
LEMMA GhostAppend ==
  ASSUME GhostInv, NEW k, NEW p \in Peers, k # "open",
         connections' = connections, connected_peers' = connected_peers,
         queue' = Append(queue, Event(k, p))
  PROVE  OpensLast' /\ NoGhosts'
<1>1. /\ queue \in Seq(SwarmEvent) /\ Len(queue') = Len(queue) + 1
      /\ \A i \in 1 .. Len(queue) : queue'[i] = queue[i]
      /\ queue'[Len(queue')] = Event(k, p) /\ Len(queue) \in Nat
  BY DEF GhostInv, TypeOK
<1>2. ASSUME NEW q \in Peers, NEW i \in 1 .. Len(queue'),
             queue'[i] = Event("open", q)
      PROVE  \/ connections'[q] > 0
             \/ \E j \in i + 1 .. Len(queue') : queue'[j] = Event("close", q)
  <2>1. i \in 1 .. Len(queue) /\ queue[i] = Event("open", q)
    BY <1>1, <1>2 DEF Event
  <2>2. \/ connections[q] > 0
        \/ \E j \in i + 1 .. Len(queue) : queue[j] = Event("close", q)
    BY <2>1 DEF GhostInv, OpensLast
  <2> QED
    BY <1>1, <2>1, <2>2
<1>3. NoGhosts'
  BY <1>1 DEF GhostInv, NoGhosts, Queued
<1> QED
  BY <1>2, <1>3 DEF OpensLast

\* An event that neither begins nor ends a connection is taken.
LEMMA GhostTake ==
  ASSUME GhostInv, NEW kinds, Take(kinds), {"open", "close"} \cap kinds = {},
         connections' = connections, connected_peers' = connected_peers,
         \/ queue' = Tail(queue)
         \/ queue' = Append(Tail(queue), Event("failure", Head(queue).peer))
  PROVE  OpensLast' /\ NoGhosts'
<1> DEFINE n == Len(queue)
           tail == Tail(queue)
           failure == Event("failure", Head(queue).peer)
<1>1. /\ queue[1].kind \notin {"open", "close"} /\ n \in Nat \ {0}
      /\ Len(tail) = n - 1 /\ tail \in Seq(SwarmEvent)
      /\ \A i \in 1 .. n - 1 : tail[i] = queue[i + 1]
      /\ failure \in SwarmEvent
  BY QueueTail DEF GhostInv, Event, SwarmEvent
<1> HIDE DEF tail, failure, n
<1>2. /\ Len(queue') \in {n - 1, n}
      /\ \A i \in 1 .. n - 1 : queue'[i] = queue[i + 1]
      /\ Len(queue') = n => queue'[n] = failure
  <2>1. CASE queue' = tail
    BY <1>1, <2>1
  <2>2. CASE queue' = Append(tail, failure)
    <3>1. /\ Len(queue') = n /\ queue'[n] = failure
          /\ \A i \in 1 .. n - 1 : queue'[i] = tail[i]
      BY <1>1, <2>2, QueueAppend
    <3> QED
      BY <1>1, <3>1
  <2> QED
    BY <2>1, <2>2 DEF tail, failure
<1>5. \A q \in Peers : failure # Event("open", q) /\ failure # Event("close", q)
  BY DEF failure, Event
<1>3. ASSUME NEW q \in Peers, NEW i \in 1 .. Len(queue'),
             queue'[i] = Event("open", q)
      PROVE  \/ connections'[q] > 0
             \/ \E j \in i + 1 .. Len(queue') : queue'[j] = Event("close", q)
  <2>1. i \in 1 .. n - 1 /\ i + 1 \in 1 .. n /\ queue[i + 1] = Event("open", q)
    BY <1>1, <1>2, <1>3, <1>5
  <2>2. \/ connections[q] > 0
        \/ \E j \in (i + 1) + 1 .. n : queue[j] = Event("close", q)
    BY <1>1, <2>1 DEF GhostInv, OpensLast, n
  <2>3. ASSUME NEW j \in (i + 1) + 1 .. n, queue[j] = Event("close", q)
        PROVE  j - 1 \in i + 1 .. Len(queue') /\ queue'[j - 1] = Event("close", q)
    <3>1. j - 1 \in i + 1 .. n - 1 /\ j - 1 \in 1 .. n - 1
      BY <1>1, <2>1
    <3> QED
      BY <1>1, <1>2, <2>3, <3>1
  <2> QED
    BY <2>2, <2>3
<1>4. ASSUME NEW q \in connected_peers, Queued("close", q)
      PROVE  Queued("close", q)'
  <2>1. PICK j \in 1 .. n : queue[j] = Event("close", q)
    BY <1>4 DEF Queued, n
  <2>2. j # 1
    BY <1>1, <2>1 DEF Event
  <2>3. j - 1 \in 1 .. n - 1
    BY <1>1, <2>1, <2>2 DEF n
  <2>4. j - 1 \in 1 .. Len(queue') /\ queue'[j - 1] = Event("close", q)
    BY <1>1, <1>2, <2>1, <2>3
  <2> QED
    BY <2>4 DEF Queued
<1> QED
  BY <1>3, <1>4 DEF OpensLast, NoGhosts, GhostInv

LEMMA GhostNext == GhostInv /\ [Next]_vars => GhostInv'
<1> SUFFICES ASSUME GhostInv, [Next]_vars PROVE OpensLast' /\ NoGhosts'
  BY TypeNext DEF GhostInv
<1>t. TypeOK
  BY DEF GhostInv
<1>a. ASSUME NEW k, NEW p \in Peers, k # "open",
             Event(k, p) \in SwarmEvent, Happens(Event(k, p)),
             connections' = connections
      PROVE  OpensLast' /\ NoGhosts'
  BY <1>a, GhostAppend DEF Happens, channelVars
<1>1. CASE StartListenFails \/ Run \/ Cancel \/ Receive
  BY <1>1, GhostIdle
  DEF StartListenFails, Run, Cancel, Receive, swarmVars, channelVars
<1>2. ASSUME NEW configured \in BOOLEAN, NEW named \in BOOLEAN,
             Start(configured, named)
      PROVE  OpensLast' /\ NoGhosts'
  BY <1>2, GhostIdle DEF Start, swarmVars, channelVars
<1>3. ASSUME NEW p \in Peers, NEW kind \in {"response", "record"}, Ask(kind, p)
      PROVE  OpensLast' /\ NoGhosts'
  BY <1>3, GhostIdle DEF Ask, channelVars
<1>4. ASSUME NEW p \in Peers,
             NEW kind \in {"request", "gossip", "discovered", "identified", "address"},
             Arrive(kind, p)
      PROVE  OpensLast' /\ NoGhosts'
  <2>1. Event(kind, p) \in SwarmEvent
    BY SurfacedKinds DEF Event, SwarmEvent
  <2>2. Happens(Event(kind, p)) /\ connections' = connections
    BY <1>4 DEF Arrive
  <2>3. kind # "open"
    OBVIOUS
  <2> QED
    BY <1>a, <2>1, <2>2, <2>3
<1>5. ASSUME NEW p \in Peers, NEW kind \in {"response", "record"},
             Answer(kind, p)
      PROVE  OpensLast' /\ NoGhosts'
  <2>1. PICK outcome \in {kind, "failure"} : Happens(Event(outcome, p))
    BY <1>5 DEF Answer
  <2>2. Event(outcome, p) \in SwarmEvent
    BY SurfacedKinds DEF Event, SwarmEvent
  <2> QED
    <3>1. outcome # "open" /\ connections' = connections
      BY <1>5 DEF Answer
    <3> QED
      BY <1>a, <2>1, <2>2, <3>1
<1>6. ASSUME NEW p \in Peers, Open(p)
      PROVE  OpensLast' /\ NoGhosts'
  <2>1. /\ Event("open", p) \in SwarmEvent /\ queue \in Seq(SwarmEvent)
        /\ queue' = Append(queue, Event("open", p))
        /\ connected_peers' = connected_peers
        /\ connections \in [Peers -> Nat]
        /\ connections' = [connections EXCEPT ![p] = @ + 1]
    BY <1>6, <1>t, SurfacedKinds, NodeAssumption
    DEF Open, Happens, TypeOK, Event, SwarmEvent, channelVars
  <2>2. /\ connections'[p] > 0
        /\ \A q \in Peers : connections[q] > 0 => connections'[q] > 0
    BY <2>1
  <2>3. /\ Len(queue) \in Nat /\ Len(queue') = Len(queue) + 1
        /\ \A i \in 1 .. Len(queue) : queue'[i] = queue[i]
        /\ queue'[Len(queue) + 1] = Event("open", p)
    BY <2>1, QueueAppend
  <2>4. ASSUME NEW q \in Peers, NEW i \in 1 .. Len(queue'),
               queue'[i] = Event("open", q)
        PROVE  \/ connections'[q] > 0
               \/ \E j \in i + 1 .. Len(queue') : queue'[j] = Event("close", q)
    <3>1. CASE i \in 1 .. Len(queue)
      <4>1. \/ connections[q] > 0
            \/ \E j \in i + 1 .. Len(queue) : queue[j] = Event("close", q)
        BY <2>3, <2>4, <3>1 DEF GhostInv, OpensLast
      <4> QED
        BY <2>2, <2>3, <3>1, <4>1
    <3>2. CASE i = Len(queue) + 1
      <4>1. q = p
        BY <2>3, <2>4, <3>2 DEF Event
      <4> QED
        BY <2>2, <4>1
    <3> QED
      BY <2>3, <3>1, <3>2
  <2>5. NoGhosts'
    BY <2>1, <2>2, <2>3, <1>t DEF GhostInv, NoGhosts, Queued, TypeOK
  <2> QED
    BY <2>4, <2>5 DEF OpensLast
<1>7. ASSUME NEW p \in Peers, Close(p)
      PROVE  OpensLast' /\ NoGhosts'
  <2>1. /\ Event("close", p) \in SwarmEvent /\ queue \in Seq(SwarmEvent)
        /\ queue' = Append(queue, Event("close", p))
        /\ connected_peers' = connected_peers
        /\ \A q \in Peers : q # p => connections'[q] = connections[q]
    BY <1>7, <1>t, SurfacedKinds
    DEF Close, Happens, TypeOK, Event, SwarmEvent, channelVars
  <2>2. /\ Len(queue) \in Nat /\ Len(queue') = Len(queue) + 1
        /\ \A i \in 1 .. Len(queue) : queue'[i] = queue[i]
        /\ queue'[Len(queue')] = Event("close", p)
    BY <2>1, QueueAppend
  <2>3. ASSUME NEW q \in Peers, NEW i \in 1 .. Len(queue'),
               queue'[i] = Event("open", q)
        PROVE  \/ connections'[q] > 0
               \/ \E j \in i + 1 .. Len(queue') : queue'[j] = Event("close", q)
    <3>1. i \in 1 .. Len(queue)
      BY <2>2, <2>3 DEF Event
    <3>2. CASE q = p
      BY <2>2, <3>1, <3>2
    <3>3. CASE q # p
      <4>1. \/ connections[q] > 0
            \/ \E j \in i + 1 .. Len(queue) : queue[j] = Event("close", q)
        BY <2>2, <2>3, <3>1 DEF GhostInv, OpensLast
      <4> QED
        BY <2>1, <2>2, <3>1, <3>3, <4>1
    <3> QED
      BY <3>2, <3>3
  <2>4. NoGhosts'
    <3> SUFFICES ASSUME NEW q \in connected_peers
                 PROVE  connections'[q] > 0 \/ Queued("close", q)'
      BY <2>1 DEF NoGhosts
    <3>1. CASE q = p
      BY <2>2, <3>1 DEF Queued
    <3>2. CASE q # p
      <4>1. q \in Peers /\ (connections[q] > 0 \/ Queued("close", q))
        BY <1>t DEF GhostInv, NoGhosts, TypeOK
      <4> QED
        BY <2>1, <2>2, <3>2, <4>1 DEF Queued
    <3> QED
      BY <3>1, <3>2
  <2> QED
    BY <2>3, <2>4 DEF OpensLast
<1>8. CASE ConnectionEstablished \/ ConnectionClosed
  <2> DEFINE n == Len(queue)
             p == queue[1].peer
             k == queue[1].kind
  <2>1. \/ Take({"open"}) /\ ConnectionEstablished
        \/ Take({"close"}) /\ ConnectionClosed
    BY <1>8 DEF ConnectionEstablished, ConnectionClosed
  <2>2. /\ queue[1] \in SwarmEvent /\ Head(queue) = queue[1]
        /\ \/ k = "open" /\ ConnectionEstablished
           \/ k = "close" /\ ConnectionClosed
        /\ n \in Nat \ {0} /\ Len(Tail(queue)) = n - 1
        /\ \A i \in 1 .. n - 1 : Tail(queue)[i] = queue[i + 1]
    BY <1>t, <2>1, QueueTail
  <2>3. /\ p \in Peers /\ queue[1] = Event(k, p)
        /\ queue' = Tail(queue) /\ connections' = connections
        /\ connected_peers' = IF k = "open" THEN connected_peers \cup {p}
                                            ELSE connected_peers \ {p}
    BY <2>2 DEF ConnectionEstablished, ConnectionClosed, SwarmEvent, Event,
                swarmVars
  <2> HIDE DEF n, p, k
  <2>4. Len(queue') = n - 1 /\ \A i \in 1 .. n - 1 : queue'[i] = queue[i + 1]
    BY <2>2, <2>3
  <2>5. ASSUME NEW q \in Peers, NEW i \in 1 .. n - 1,
               queue[i + 1] = Event("open", q)
        PROVE  \/ connections[q] > 0
               \/ \E j \in i + 1 .. n - 1 : queue'[j] = Event("close", q)
    <3>1. i + 1 \in 1 .. n
      BY <2>2
    <3>2. \/ connections[q] > 0
          \/ \E j \in (i + 1) + 1 .. n : queue[j] = Event("close", q)
      BY <2>5, <3>1 DEF GhostInv, OpensLast, n
    <3>3. ASSUME NEW j \in (i + 1) + 1 .. n, queue[j] = Event("close", q)
          PROVE  j - 1 \in i + 1 .. n - 1 /\ queue'[j - 1] = Event("close", q)
      <4>1. j - 1 \in i + 1 .. n - 1 /\ j - 1 \in 1 .. n - 1
        BY <2>2
      <4> QED
        BY <2>4, <3>3, <4>1
    <3> QED
      BY <3>2, <3>3
  <2>6. OpensLast'
    BY <2>3, <2>4, <2>5 DEF OpensLast
  <2>7. ASSUME NEW q \in Peers, NEW j \in 2 .. n, queue[j] = Event("close", q)
        PROVE  Queued("close", q)'
    <3>1. j - 1 \in 1 .. n - 1
      BY <2>2
    <3> QED
      BY <2>4, <2>7, <3>1 DEF Queued
  <2>8. ASSUME NEW q \in connected_peers'
        PROVE  connections'[q] > 0 \/ Queued("close", q)'
    <3>1. CASE k = "open" /\ q = p
      <4>1. 1 \in 1 .. n
        BY <2>2
      <4>2. \/ connections[p] > 0
            \/ \E j \in 1 + 1 .. n : queue[j] = Event("close", p)
        BY <2>3, <3>1, <4>1 DEF GhostInv, OpensLast, n
      <4> QED
        BY <2>3, <2>7, <3>1, <4>2
    <3>2. CASE ~(k = "open" /\ q = p)
      <4>1. q \in connected_peers /\ q \in Peers
        BY <1>t, <2>3, <3>2 DEF TypeOK
      <4>2. CASE connections[q] > 0
        BY <2>3, <4>2
      <4>3. CASE Queued("close", q)
        <5>1. PICK j \in 1 .. n : queue[j] = Event("close", q)
          BY <4>3 DEF Queued, n
        <5>2. j # 1
          BY <2>2, <2>3, <2>8, <3>2, <5>1 DEF Event
        <5> QED
          BY <2>2, <2>7, <4>1, <5>1, <5>2
      <4> QED
        BY <4>1, <4>2, <4>3 DEF GhostInv, NoGhosts
    <3> QED
      BY <3>1, <3>2
  <2> QED
    BY <2>6, <2>8 DEF NoGhosts
<1>9. CASE Message
  <2>1. Take({"request", "response", "record", "gossip", "address"})
        /\ connections' = connections /\ connected_peers' = connected_peers
        /\ \/ queue' = Tail(queue)
           \/ queue' = Append(Tail(queue), Event("failure", Head(queue).peer))
    BY <1>9 DEF Message, swarmVars
  <2> QED
    BY <2>1, GhostTake
<1>10. CASE AddAddress \/ Ignore
  <2>1. Take({"discovered", "identified"}) \/ Take({"failure"})
    BY <1>10 DEF AddAddress, Ignore
  <2>2. /\ connections' = connections /\ connected_peers' = connected_peers
        /\ queue' = Tail(queue)
    BY <1>10 DEF AddAddress, Ignore, swarmVars, channelVars
  <2> QED
    BY <2>1, <2>2, GhostTake
<1>11. CASE UNCHANGED vars
  BY <1>11, GhostIdle DEF vars, swarmVars, channelVars
<1> QED
  BY <1>1, <1>2, <1>3, <1>4, <1>5, <1>6, <1>7, <1>8, <1>9, <1>10, <1>11
  DEF Next, Step

\* Nobody stays listed as connected for good after its connections ended,
\* however the caller starts and drops run().
THEOREM GhostTheorem == Spec => []NoGhosts
<1>1. GhostInv => NoGhosts
  BY DEF GhostInv
<1> QED
  BY <1>1, GhostInit, GhostNext, PTL DEF Spec

-----------------------------------------------------------------------------
(* Nobody missed without overlapping connections *)

\* Nothing in the queue takes the peer off the list.
Listed(p) ==
  /\ p \in connected_peers
  /\ \A i \in 1 .. Len(queue) : queue[i] # Event("close", p)

\* The queue puts the peer on the list, and nothing after takes it off.
Opening(p) ==
  \E i \in 1 .. Len(queue) :
    /\ queue[i] = Event("open", p)
    /\ \A j \in i + 1 .. Len(queue) : queue[j] # Event("close", p)

MissedInv ==
  /\ TypeOK
  /\ \A p \in Peers : connections[p] > 1 => p \in overlapped
  /\ \A p \in Peers :
       connections[p] > 0 /\ p \notin overlapped => Listed(p) \/ Opening(p)

\* An event that does not end a connection with the peer joins the queue.
LEMMA MissedAppend ==
  ASSUME TypeOK, NEW p \in Peers, NEW e \in SwarmEvent, e # Event("close", p),
         queue' = Append(queue, e), connected_peers' = connected_peers,
         Listed(p) \/ Opening(p)
  PROVE  Listed(p)' \/ Opening(p)'
<1>1. /\ Len(queue) \in Nat /\ Len(queue') = Len(queue) + 1
      /\ \A i \in 1 .. Len(queue) : queue'[i] = queue[i]
      /\ queue'[Len(queue) + 1] = e
  BY QueueAppend DEF TypeOK
<1>2. CASE Listed(p)
  BY <1>1, <1>2 DEF Listed
<1>3. CASE Opening(p)
  <2>1. PICK i \in 1 .. Len(queue) :
          /\ queue[i] = Event("open", p)
          /\ \A j \in i + 1 .. Len(queue) : queue[j] # Event("close", p)
    BY <1>3 DEF Opening
  <2>2. i \in 1 .. Len(queue') /\ queue'[i] = Event("open", p)
    BY <1>1, <2>1
  <2>3. ASSUME NEW j \in i + 1 .. Len(queue')
        PROVE  queue'[j] # Event("close", p)
    <3>1. j = Len(queue) + 1 \/ (j \in 1 .. Len(queue) /\ j \in i + 1 .. Len(queue))
      BY <1>1
    <3> QED
      BY <1>1, <2>1, <3>1
  <2> QED
    BY <2>2, <2>3 DEF Opening
<1> QED
  BY <1>2, <1>3

\* The first event of the queue is taken: an opening lists its peer, and only
\* the end of a connection with a peer takes it off the list.
LEMMA MissedTake ==
  ASSUME TypeOK, NEW kinds, Take(kinds), NEW p \in Peers,
         \/ queue' = Tail(queue)
         \/ queue' = Append(Tail(queue), Event("failure", Head(queue).peer)),
         queue[1] = Event("open", p) => p \in connected_peers',
         queue[1] # Event("close", p) /\ p \in connected_peers
           => p \in connected_peers',
         Listed(p) \/ Opening(p)
  PROVE  Listed(p)' \/ Opening(p)'
<1> DEFINE n == Len(queue)
           tail == Tail(queue)
           failure == Event("failure", Head(queue).peer)
<1>1. /\ n \in Nat \ {0} /\ Len(tail) = n - 1 /\ tail \in Seq(SwarmEvent)
      /\ \A i \in 1 .. n - 1 : tail[i] = queue[i + 1]
      /\ failure \in SwarmEvent /\ failure # Event("close", p)
  BY QueueTail DEF Event, SwarmEvent
<1> HIDE DEF tail, failure, n
<1>2. /\ Len(queue') \in {n - 1, n}
      /\ \A i \in 1 .. n - 1 : queue'[i] = queue[i + 1]
      /\ Len(queue') = n => queue'[n] = failure
  <2>1. CASE queue' = tail
    BY <1>1, <2>1
  <2>2. CASE queue' = Append(tail, failure)
    <3>1. /\ Len(queue') = n /\ queue'[n] = failure
          /\ \A i \in 1 .. n - 1 : queue'[i] = tail[i]
      BY <1>1, <2>2, QueueAppend
    <3> QED
      BY <1>1, <3>1
  <2> QED
    BY <2>1, <2>2 DEF tail, failure
\* What follows the place i of the queue follows i - 1 now.
<1>3. ASSUME NEW i \in 1 .. n,
             \A j \in i + 1 .. n : queue[j] # Event("close", p)
      PROVE  \A j \in 1 .. Len(queue') : j >= i => queue'[j] # Event("close", p)
  <2> SUFFICES ASSUME NEW j \in 1 .. Len(queue'), j >= i
               PROVE  queue'[j] # Event("close", p)
    OBVIOUS
  <2>1. CASE j = n
    BY <1>1, <1>2, <2>1
  <2>2. CASE j # n
    <3>1. j \in 1 .. n - 1 /\ j + 1 \in i + 1 .. n
      BY <1>1, <1>2, <2>2
    <3> QED
      BY <1>2, <1>3, <3>1
  <2> QED
    BY <2>1, <2>2
<1>4. CASE Listed(p)
  <2>1. /\ 1 \in 1 .. n /\ p \in connected_peers
        /\ \A j \in 1 .. n : queue[j] # Event("close", p)
    BY <1>1, <1>4 DEF Listed, n
  <2>2. p \in connected_peers'
    BY <2>1
  <2>3. \A j \in 1 .. Len(queue') : queue'[j] # Event("close", p)
    <3>1. \A j \in 1 + 1 .. n : queue[j] # Event("close", p)
      BY <2>1
    <3>2. \A j \in 1 .. Len(queue') : j >= 1 => queue'[j] # Event("close", p)
      BY <1>3, <2>1, <3>1
    <3> QED
      BY <1>1, <1>2, <3>2
  <2> QED
    BY <2>2, <2>3 DEF Listed
<1>5. CASE Opening(p)
  <2>1. PICK i \in 1 .. n :
          /\ queue[i] = Event("open", p)
          /\ \A j \in i + 1 .. n : queue[j] # Event("close", p)
    BY <1>5 DEF Opening, n
  <2>2. \A j \in 1 .. Len(queue') : j >= i => queue'[j] # Event("close", p)
    BY <1>3, <2>1
  <2>3. CASE i = 1
    <3>1. p \in connected_peers'
      BY <2>1, <2>3
    <3>2. \A j \in 1 .. Len(queue') : queue'[j] # Event("close", p)
      BY <1>1, <1>2, <2>2, <2>3
    <3> QED
      BY <3>1, <3>2 DEF Listed
  <2>4. CASE i # 1
    <3>1. i - 1 \in 1 .. n - 1 /\ i - 1 \in 1 .. Len(queue')
      BY <1>1, <1>2, <2>4
    <3>2. queue'[i - 1] = Event("open", p)
      BY <1>1, <1>2, <2>1, <3>1
    <3>3. \A j \in (i - 1) + 1 .. Len(queue') : queue'[j] # Event("close", p)
      BY <1>1, <1>2, <2>2
    <3> QED
      BY <3>1, <3>2, <3>3 DEF Opening
  <2> QED
    BY <2>3, <2>4
<1> QED
  BY <1>4, <1>5

LEMMA MissedInit == Init => MissedInv
BY GhostInit DEF GhostInv, Init, MissedInv

LEMMA MissedNext == MissedInv /\ [Next]_vars => MissedInv'
<1> DEFINE Known(p) ==
      /\ connections[p] > 1 => p \in overlapped
      /\ connections[p] > 0 /\ p \notin overlapped => Listed(p) \/ Opening(p)
<1> SUFFICES ASSUME MissedInv, [Next]_vars, NEW p \in Peers PROVE Known(p)'
  BY TypeNext DEF MissedInv
<1>t. /\ TypeOK /\ Known(p)
      /\ queue \in Seq(SwarmEvent) /\ connections[p] \in Nat
  BY NodeAssumption DEF MissedInv, TypeOK
<1>u. ASSUME UNCHANGED <<connections, overlapped, queue, connected_peers>>
      PROVE  Known(p)'
  BY <1>t, <1>u DEF Listed, Opening
<1>a. ASSUME NEW e \in SwarmEvent, e # Event("close", p), Happens(e),
             connections'[p] = connections[p],
             p \in overlapped' <=> p \in overlapped
      PROVE  Known(p)'
  <2>1. queue' = Append(queue, e) /\ connected_peers' = connected_peers
    BY <1>a DEF Happens, channelVars
  <2>2. Listed(p) \/ Opening(p) => Listed(p)' \/ Opening(p)'
    BY <1>a, <1>t, <2>1, MissedAppend
  <2> QED
    BY <1>a, <1>t, <2>2
<1>b. ASSUME NEW kinds, Take(kinds), UNCHANGED <<connections, overlapped>>,
             \/ queue' = Tail(queue)
             \/ queue' = Append(Tail(queue), Event("failure", Head(queue).peer)),
             queue[1] = Event("open", p) => p \in connected_peers',
             queue[1] # Event("close", p) /\ p \in connected_peers
               => p \in connected_peers'
      PROVE  Known(p)'
  <2>1. Listed(p) \/ Opening(p) => Listed(p)' \/ Opening(p)'
    BY <1>b, <1>t, MissedTake
  <2> QED
    BY <1>b, <1>t, <2>1
<1> HIDE DEF Known
<1>1. CASE StartListenFails \/ Run \/ Cancel \/ Receive
  BY <1>1, <1>u
  DEF StartListenFails, Run, Cancel, Receive, swarmVars, channelVars
<1>2. ASSUME NEW configured \in BOOLEAN, NEW named \in BOOLEAN,
             Start(configured, named)
      PROVE  Known(p)'
  BY <1>2, <1>u DEF Start, swarmVars, channelVars
<1>3. ASSUME NEW q \in Peers, NEW kind \in {"response", "record"}, Ask(kind, q)
      PROVE  Known(p)'
  BY <1>3, <1>u DEF Ask, channelVars
<1>4. ASSUME NEW q \in Peers,
             NEW kind \in {"request", "gossip", "discovered", "identified", "address"},
             Arrive(kind, q)
      PROVE  Known(p)'
  <2>1. Event(kind, q) \in SwarmEvent /\ Event(kind, q) # Event("close", p)
    BY SurfacedKinds DEF Event, SwarmEvent
  <2>2. Happens(Event(kind, q)) /\ UNCHANGED <<connections, overlapped>>
    BY <1>4 DEF Arrive
  <2> QED
    BY <1>a, <2>1, <2>2
<1>5. ASSUME NEW q \in Peers, NEW kind \in {"response", "record"},
             Answer(kind, q)
      PROVE  Known(p)'
  <2>1. PICK outcome \in {kind, "failure"} : Happens(Event(outcome, q))
    BY <1>5 DEF Answer
  <2>2. /\ Event(outcome, q) \in SwarmEvent
        /\ Event(outcome, q) # Event("close", p)
    BY SurfacedKinds DEF Event, SwarmEvent
  <2>3. UNCHANGED <<connections, overlapped>>
    BY <1>5 DEF Answer
  <2> QED
    BY <1>a, <2>1, <2>2, <2>3
<1>6. ASSUME NEW q \in Peers, Open(q)
      PROVE  Known(p)'
  <2>1. Event("open", q) \in SwarmEvent /\ Event("open", q) # Event("close", p)
    BY SurfacedKinds DEF Event, SwarmEvent
  <2>2. /\ Happens(Event("open", q))
        /\ connections' = [connections EXCEPT ![q] = @ + 1]
        /\ overlapped' = IF connections[q] > 0 THEN overlapped \cup {q}
                                               ELSE overlapped
        /\ connections \in [Peers -> 0 .. MaxConnections]
    BY <1>6, <1>t DEF Open, TypeOK
  <2>3. CASE p # q
    <3>1. /\ connections'[p] = connections[p]
          /\ p \in overlapped' <=> p \in overlapped
      BY <2>2, <2>3
    <3> QED
      BY <1>a, <2>1, <2>2, <3>1
  <2>4. CASE p = q /\ connections[p] > 0
    <3>1. p \in overlapped'
      BY <2>2, <2>4
    <3> QED
      BY <3>1 DEF Known
  <2>5. CASE p = q /\ ~(connections[p] > 0)
    <3>1. ~(connections'[p] > 1)
      BY <1>t, <2>2, <2>5
    <3>2. queue' = Append(queue, Event("open", p))
      BY <2>2, <2>5 DEF Happens
    <3>3. /\ Len(queue) \in Nat /\ Len(queue') = Len(queue) + 1
          /\ queue'[Len(queue) + 1] = Event("open", p)
      BY <1>t, <2>1, <2>5, <3>2, QueueAppend
    <3>4. Opening(p)'
      <4>1. Len(queue) + 1 \in 1 .. Len(queue')
        BY <3>3
      <4>2. \A j \in (Len(queue) + 1) + 1 .. Len(queue') : FALSE
        BY <3>3
      <4> QED
        BY <3>3, <4>1, <4>2 DEF Opening
    <3> QED
      BY <3>1, <3>4 DEF Known
  <2> QED
    BY <2>3, <2>4, <2>5
<1>7. ASSUME NEW q \in Peers, Close(q)
      PROVE  Known(p)'
  <2>1. Event("close", q) \in SwarmEvent
    BY SurfacedKinds DEF Event, SwarmEvent
  <2>2. /\ Happens(Event("close", q))
        /\ connections' = [connections EXCEPT ![q] = @ - 1]
        /\ overlapped' = IF connections[q] = 1 THEN overlapped \ {q}
                                               ELSE overlapped
        /\ connections \in [Peers -> 0 .. MaxConnections]
    BY <1>7, <1>t DEF Close, TypeOK
  <2>3. CASE p # q
    <3>1. /\ connections'[p] = connections[p]
          /\ p \in overlapped' <=> p \in overlapped
          /\ Event("close", q) # Event("close", p)
      BY <2>2, <2>3 DEF Event
    <3> QED
      BY <1>a, <2>1, <2>2, <3>1
  <2>4. CASE p = q /\ connections[p] > 1
    <3>1. p \in overlapped'
      BY <1>t, <2>2, <2>4 DEF Known
    <3> QED
      BY <3>1 DEF Known
  <2>5. CASE p = q /\ ~(connections[p] > 1)
    <3>1. ~(connections'[p] > 0)
      BY <1>t, <2>2, <2>5
    <3>2. connections'[p] \in Int
      BY <1>t, <2>2, <2>5
    <3>3. ~(connections'[p] > 1)
      BY <3>1, <3>2
    <3> QED
      BY <3>1, <3>3 DEF Known
  <2> QED
    BY <2>3, <2>4, <2>5
<1>8. CASE ConnectionEstablished
  <2>1. /\ Take({"open"}) /\ UNCHANGED <<connections, overlapped>>
        /\ queue' = Tail(queue)
        /\ connected_peers' = connected_peers \cup {Head(queue).peer}
    BY <1>8 DEF ConnectionEstablished, swarmVars
  <2>2. Head(queue) = queue[1]
    BY <1>t, <2>1, QueueTail
  <2>3. queue[1] = Event("open", p) => p \in connected_peers'
    BY <2>1, <2>2 DEF Event
  <2> QED
    BY <1>b, <2>1, <2>3
<1>9. CASE ConnectionClosed
  <2>1. /\ Take({"close"}) /\ UNCHANGED <<connections, overlapped>>
        /\ queue' = Tail(queue)
        /\ connected_peers' = connected_peers \ {Head(queue).peer}
    BY <1>9 DEF ConnectionClosed, swarmVars
  <2>2. /\ Head(queue) = queue[1] /\ queue[1] \in SwarmEvent
        /\ queue[1].kind = "close"
    BY <1>t, <2>1, QueueTail
  <2>3. queue[1] # Event("open", p)
    BY <2>2 DEF Event
  <2>4. queue[1] # Event("close", p) => queue[1].peer # p
    BY <2>2 DEF Event, SwarmEvent
  <2> QED
    BY <1>b, <2>1, <2>2, <2>3, <2>4
<1>10. CASE Message
  <2>1. /\ Take({"request", "response", "record", "gossip", "address"})
        /\ UNCHANGED <<connections, overlapped, connected_peers>>
        /\ \/ queue' = Tail(queue)
           \/ queue' = Append(Tail(queue), Event("failure", Head(queue).peer))
    BY <1>10 DEF Message, swarmVars
  <2>2. queue[1] # Event("open", p)
    <3>1. queue[1].kind \in {"request", "response", "record", "gossip", "address"}
      BY <1>t, <2>1, QueueTail
    <3> QED
      BY <3>1 DEF Event
  <2> QED
    BY <1>b, <2>1, <2>2
<1>11. CASE AddAddress \/ Ignore
  <2>1. PICK kinds \in {{"discovered", "identified"}, {"failure"}} : Take(kinds)
    BY <1>11 DEF AddAddress, Ignore
  <2>2. /\ UNCHANGED <<connections, overlapped, connected_peers>>
        /\ queue' = Tail(queue)
    BY <1>11 DEF AddAddress, Ignore, swarmVars, channelVars
  <2>3. queue[1] # Event("open", p)
    <3>1. queue[1].kind \in kinds /\ "open" \notin kinds
      BY <1>t, <2>1, QueueTail
    <3> QED
      BY <3>1 DEF Event
  <2> QED
    BY <1>b, <2>1, <2>2, <2>3
<1>12. CASE UNCHANGED vars
  BY <1>12, <1>u DEF vars, swarmVars, channelVars
<1> QED
  BY <1>1, <1>2, <1>3, <1>4, <1>5, <1>6, <1>7, <1>8, <1>9, <1>10, <1>11,
     <1>12
  DEF Next, Step

\* A peer that is connected and missing from the list, with no opening left to
\* handle, had several connections at a time.
THEOREM MissedTheorem == Spec => []MissedOnlyIfOverlapped
<1>1. MissedInv => MissedOnlyIfOverlapped
  BY DEF MissedInv, MissedOnlyIfOverlapped, Listed, Opening, Queued
<1> QED
  BY <1>1, MissedInit, MissedNext, PTL DEF Spec

-----------------------------------------------------------------------------
(***************************************************************************)
(* What the caller was told (ViewFollows), by induction over the fold that  *)
(* defines it.                                                             *)
(***************************************************************************)

\* A set of numbers that is not empty has a least one: < is well-founded.
LEMMA LeastNumber ==
  ASSUME NEW T, T \subseteq Nat, T # {}
  PROVE  \E x \in T : \A y \in T : ~(y < x)
<1> DEFINE R == OpToRel(<, Nat)
<1>1. IsWellFoundedOn(R, Nat)
  BY NatLessThanWellFounded
<1>2. \A x, y \in Nat : y < x => <<y, x>> \in R
  BY DEF OpToRel
<1> HIDE DEF R
<1>3. \E x \in T : \A y \in T : ~(<<y, x>> \in R)
  BY <1>1, WFMin
<1> QED
  BY <1>2, <1>3

\* Induction on the numbers, as a statement about a set of them.
LEMMA Induction ==
  ASSUME NEW S, 0 \in S, \A n \in Nat : n \in S => n + 1 \in S
  PROVE  Nat \subseteq S
<1>1. CASE Nat \ S = {}
  BY <1>1
<1>2. CASE Nat \ S # {}
  <2>1. PICK x \in Nat \ S : \A y \in Nat \ S : ~(y < x)
    BY <1>2, LeastNumber
  <2>2. x # 0 /\ x - 1 \in Nat /\ x - 1 < x
    BY <2>1
  <2>3. x - 1 \in S
    BY <2>1, <2>2
  <2> QED
    BY <2>2, <2>3
<1> QED
  BY <1>1, <1>2

\* The largest element of a set of indexes, where the fold goes on.
LEMMA MaxIs ==
  ASSUME NEW S, S \subseteq Nat, NEW m \in S, \A i \in S : i <= m
  PROVE  Max(S) = m
<1>1. \A i \in S : m >= i
  OBVIOUS
<1>2. \A x \in S : (\A i \in S : x >= i) => x = m
  OBVIOUS
<1> QED
  BY <1>1, <1>2 DEF Max

\* How FoldLeft goes through a set of indexes.
Folding(g, n, base, seq) ==
  g = [s \in SUBSET (1 .. n) |->
         IF s = {} THEN base
         ELSE Told(g[s \ {Max(s)}], seq[Max(s)])]

\* There is such a function for every sequence, built one index at a time.
LEMMA FoldDefined ==
  ASSUME NEW base, NEW seq, NEW n \in Nat
  PROVE  \E g : Folding(g, n, base, seq)
<1> DEFINE S == {m \in Nat : \E g : Folding(g, m, base, seq)}
<1>1. 0 \in S
  <2> DEFINE g == [s \in SUBSET (1 .. 0) |-> base]
  <2>1. \A s \in SUBSET (1 .. 0) : s = {}
    OBVIOUS
  <2>2. Folding(g, 0, base, seq)
    BY <2>1 DEF Folding
  <2> QED
    BY <2>2
<1>2. ASSUME NEW m \in Nat, m \in S
      PROVE  m + 1 \in S
  <2>1. PICK f : Folding(f, m, base, seq)
    BY <1>2
  <2> DEFINE g == [s \in SUBSET (1 .. m + 1) |->
                     IF m + 1 \in s THEN Told(f[s \ {m + 1}], seq[m + 1]) ELSE f[s]]
  <2>2. ASSUME NEW s \in SUBSET (1 .. m + 1)
        PROVE  g[s] = IF s = {} THEN base ELSE Told(g[s \ {Max(s)}], seq[Max(s)])
    <3>1. CASE s = {}
      <4>1. {} \in SUBSET (1 .. m) /\ m + 1 \notin s
        BY <3>1
      <4>2. f[{}] = base
        BY <2>1, <4>1 DEF Folding
      <4> QED
        BY <3>1, <4>1, <4>2
    <3>2. CASE m + 1 \in s
      <4>1. Max(s) = m + 1
        <5>1. s \subseteq Nat /\ m + 1 \in s /\ \A i \in s : i <= m + 1
          BY <3>2
        <5> QED
          BY <5>1, MaxIs
      <4>2. s \ {m + 1} \in SUBSET (1 .. m + 1) /\ m + 1 \notin s \ {m + 1}
        OBVIOUS
      <4>3. g[s \ {m + 1}] = f[s \ {m + 1}]
        BY <4>2
      <4> QED
        BY <3>2, <4>1, <4>3
    <3>3. CASE m + 1 \notin s /\ s # {}
      <4>1. s \in SUBSET (1 .. m)
        BY <3>3
      <4>2. f[s] = Told(f[s \ {Max(s)}], seq[Max(s)])
        BY <2>1, <3>3, <4>1 DEF Folding
      <4>3. s \ {Max(s)} \in SUBSET (1 .. m + 1) /\ m + 1 \notin s \ {Max(s)}
        BY <3>3
      <4>4. g[s \ {Max(s)}] = f[s \ {Max(s)}]
        BY <4>3
      <4> QED
        BY <3>3, <4>2, <4>4
    <3> QED
      BY <3>1, <3>2, <3>3
  <2>3. Folding(g, m + 1, base, seq)
    <3>1. g = [s \in SUBSET (1 .. m + 1) |-> g[s]]
      OBVIOUS
    <3> HIDE DEF g
    <3> QED
      BY <2>2, <3>1 DEF Folding
  <2> HIDE DEF g
  <2> QED
    BY <2>3
<1> HIDE DEF S
<1>3. n \in S
  BY <1>1, <1>2, Induction
<1> QED
  BY <1>3 DEF S

\* What the caller's view is after each of the events.
Follows(run, n, seq) == \A i \in 1 .. n : run[i] = Told(run[i - 1], seq[i])

Views(run, base, seq) ==
  /\ run[0] = base
  /\ Follows(run, Len(seq), seq)
  /\ FoldLeft(Told, base, seq) = run[Len(seq)]

\* The fold over a sequence is what the view is after its last event.
LEMMA FoldSteps ==
  ASSUME NEW S, NEW base, NEW seq \in Seq(S)
  PROVE  \E run : Views(run, base, seq)
<1> DEFINE n == Len(seq)
           g == CHOOSE f : Folding(f, n, base, seq)
           run == [i \in 0 .. n |-> g[1 .. i]]
<1>1. n \in Nat /\ DOMAIN seq = 1 .. n
  OBVIOUS
<1>2. FoldLeft(Told, base, seq) = g[1 .. n]
  BY <1>1 DEF FoldLeft, MapThenFoldSet, Folding
<1>3. Folding(g, n, base, seq)
  BY <1>1, FoldDefined
<1> HIDE DEF g, n
<1>4. g[1 .. 0] = base
  <2>1. 1 .. 0 = {} /\ {} \in SUBSET (1 .. n)
    OBVIOUS
  <2> QED
    BY <1>3, <2>1 DEF Folding
<1>5. ASSUME NEW i \in 1 .. n
      PROVE  g[1 .. i] = Told(g[1 .. i - 1], seq[i])
  <2>1. 1 .. i \in SUBSET (1 .. n) /\ 1 .. i # {} /\ (1 .. i) \ {i} = 1 .. i - 1
    BY <1>1
  <2>2. Max(1 .. i) = i
    <3>1. 1 .. i \subseteq Nat /\ i \in 1 .. i /\ \A j \in 1 .. i : j <= i
      BY <1>1
    <3> QED
      BY <3>1, MaxIs
  <2> QED
    BY <1>3, <2>1, <2>2 DEF Folding
<1>6. run[0] = base /\ run[n] = g[1 .. n]
  BY <1>1, <1>4
<1>7. \A i \in 1 .. n : run[i] = Told(run[i - 1], seq[i])
  <2>1. \A i \in 1 .. n : i \in 0 .. n /\ i - 1 \in 0 .. n
    BY <1>1
  <2> QED
    BY <1>5, <2>1
<1>8. Views(run, base, seq)
  <2> HIDE DEF run
  <2> QED
    BY <1>2, <1>6, <1>7 DEF Views, Follows, n
<1> QED
  BY <1>8

\* Two ways through the same events agree.
LEMMA ViewsAgree ==
  ASSUME NEW n \in Nat, NEW f, NEW g, NEW s, NEW t,
         f[0] = g[0], Follows(f, n, s), Follows(g, n, t),
         \A i \in 1 .. n : s[i] = t[i]
  PROVE  f[n] = g[n]
<1> DEFINE S == {m \in Nat : m <= n => f[m] = g[m]}
<1>1. 0 \in S
  OBVIOUS
<1>2. ASSUME NEW m \in Nat, m \in S
      PROVE  m + 1 \in S
  <2>1. CASE m + 1 <= n
    <3>1. m + 1 \in 1 .. n /\ (m + 1) - 1 = m /\ f[m] = g[m]
      BY <1>2, <2>1
    <3>2. f[m + 1] = Told(f[m], s[m + 1]) /\ g[m + 1] = Told(g[m], t[m + 1])
      BY <3>1 DEF Follows
    <3>3. s[m + 1] = t[m + 1]
      BY <3>1
    <3>4. f[m + 1] = g[m + 1]
      BY <3>1, <3>2, <3>3
    <3> QED
      BY <3>4
  <2>2. CASE ~(m + 1 <= n)
    BY <2>2
  <2> QED
    BY <2>1, <2>2
<1> HIDE DEF S
<1>3. n \in S
  BY <1>1, <1>2, Induction
<1> QED
  BY <1>3 DEF S

\* What the caller will have been told is connected, after some events.
Known(base, seq) == FoldLeft(Told, base, seq)

\* One event more is told last.
LEMMA FoldAppend ==
  ASSUME NEW S, NEW base, NEW seq \in Seq(S), NEW e \in S
  PROVE  Known(base, Append(seq, e)) = Told(Known(base, seq), e)
<1> DEFINE n == Len(seq)
           more == Append(seq, e)
<1>1. /\ n \in Nat /\ more \in Seq(S) /\ Len(more) = n + 1
      /\ \A i \in 1 .. n : more[i] = seq[i]
      /\ more[n + 1] = e
  OBVIOUS
<1>2. PICK f : Views(f, base, seq)
  BY FoldSteps
<1> HIDE DEF more
<1>3. PICK g : Views(g, base, more)
  BY <1>1, FoldSteps
<1> HIDE DEF n
<1>4. Follows(f, n, seq)
  BY <1>2 DEF Views, n
<1>5. Follows(g, n + 1, more)
  BY <1>1, <1>3 DEF Views
<1>6. Follows(g, n, more)
  BY <1>1, <1>5 DEF Follows
<1>7. f[0] = g[0]
  BY <1>2, <1>3 DEF Views
<1>8. f[n] = g[n]
  BY <1>1, <1>4, <1>6, <1>7, ViewsAgree
<1>9. g[n + 1] = Told(g[n], e)
  <2>1. n + 1 \in 1 .. n + 1 /\ (n + 1) - 1 = n
    BY <1>1
  <2> QED
    BY <1>1, <1>5, <2>1 DEF Follows
<1> QED
  BY <1>1, <1>2, <1>3, <1>8, <1>9 DEF Views, Known, more, n

\* The first event is told first.
LEMMA FoldTail ==
  ASSUME NEW S, NEW base, NEW seq \in Seq(S), seq # <<>>
  PROVE  Known(Told(base, Head(seq)), Tail(seq)) = Known(base, seq)
<1> DEFINE n == Len(seq) - 1
           tail == Tail(seq)
<1>1. /\ n \in Nat /\ Len(seq) = n + 1 /\ tail \in Seq(S) /\ Len(tail) = n
      /\ Head(seq) = seq[1] /\ \A i \in 1 .. n : tail[i] = seq[i + 1]
  OBVIOUS
<1> HIDE DEF tail, n
<1>2. PICK f : Views(f, base, seq)
  BY FoldSteps
<1>3. PICK g : Views(g, Told(base, Head(seq)), tail)
  BY <1>1, FoldSteps
<1> DEFINE h == [i \in 0 .. n |-> f[i + 1]]
<1>4. \A i \in 1 .. n + 1 : f[i] = Told(f[i - 1], seq[i])
  BY <1>1, <1>2 DEF Views, Follows
<1>5. h[0] = g[0]
  <2>1. 1 \in 1 .. n + 1 /\ 0 \in 0 .. n /\ 1 - 1 = 0 /\ 0 + 1 = 1
    BY <1>1
  <2>2. f[1] = Told(f[0], seq[1])
    BY <1>4, <2>1
  <2>3. h[0] = f[1]
    BY <2>1
  <2> QED
    BY <1>1, <1>2, <1>3, <2>2, <2>3 DEF Views
<1>6. ASSUME NEW i \in 1 .. n
      PROVE  h[i] = Told(h[i - 1], tail[i])
  <2>1. i + 1 \in 1 .. n + 1 /\ i \in 0 .. n /\ i - 1 \in 0 .. n
        /\ (i + 1) - 1 = i /\ (i - 1) + 1 = i
    BY <1>1
  <2>2. f[i + 1] = Told(f[i], seq[i + 1])
    BY <1>4, <2>1
  <2>3. h[i] = f[i + 1] /\ h[i - 1] = f[i]
    BY <2>1
  <2> QED
    BY <1>1, <2>2, <2>3
<1>7. Follows(g, n, tail)
  BY <1>1, <1>3 DEF Views
<1>8. h[n] = f[n + 1]
  BY <1>1
<1> HIDE DEF h
<1>9. h[n] = g[n]
  <2>1. Follows(h, n, tail)
    BY <1>6 DEF Follows
  <2> QED
    BY <1>1, <1>5, <1>7, <2>1, ViewsAgree
<1> QED
  BY <1>1, <1>2, <1>3, <1>8, <1>9 DEF Views, Known, tail

\* What a step says to the caller, it writes down.
LEMMA ViewTold ==
  ASSUME TypeOK, ViewFollows, NEW e \in SwarmEvent, e.kind \in DOMAIN Surfaced, Tell(e),
         view' = view, connected_peers' = Told(connected_peers, Event(Surfaced[e.kind], e.peer))
  PROVE  ViewFollows'
<1> DEFINE told == Event(Surfaced[e.kind], e.peer)
<1>1. told \in P2PEvent /\ events \in Seq(P2PEvent) /\ events' = Append(events, told)
  BY SurfacedKinds DEF TypeOK, Tell
<1> HIDE DEF told
<1>2. Known(view, Append(events, told)) = Told(Known(view, events), told)
  BY <1>1, FoldAppend
<1>3. connected_peers' = Told(connected_peers, told)
  BY DEF told
<1> QED
  BY <1>1, <1>2, <1>3 DEF ViewFollows, Known

\* Telling adds an event at the end, reading takes the first one: neither changes
\* what the caller will know once it has read them all.
LEMMA ViewNext == TypeOK /\ ViewFollows /\ [Next]_vars => ViewFollows'
<1> SUFFICES ASSUME TypeOK, ViewFollows, [Next]_vars PROVE ViewFollows'
  OBVIOUS
<1>1. ASSUME UNCHANGED channelVars PROVE ViewFollows'
  <2>1. connected_peers' = connected_peers /\ events' = events /\ view' = view
    BY <1>1 DEF channelVars
  <2> QED
    BY <2>1 DEF ViewFollows
<1>2. CASE Receive
  <2>1. /\ events # <<>> /\ events' = Tail(events) /\ view' = Told(view, Head(events))
        /\ connected_peers' = connected_peers
    BY <1>2 DEF Receive
  <2>2. events \in Seq(P2PEvent)
    BY DEF TypeOK
  <2>3. Known(Told(view, Head(events)), Tail(events)) = Known(view, events)
    BY <2>1, <2>2, FoldTail
  <2> QED
    BY <2>1, <2>3 DEF ViewFollows, Known
<1>3. CASE ConnectionEstablished
  <2>1. Take({"open"}) /\ Tell(Head(queue)) /\ view' = view
        /\ connected_peers' = connected_peers \cup {Head(queue).peer}
    BY <1>3 DEF ConnectionEstablished
  <2>2. Head(queue) \in SwarmEvent /\ Head(queue).kind = "open"
    BY <2>1, QueueTail
  <2>3. Told(connected_peers, Event(Surfaced["open"], Head(queue).peer))
          = connected_peers \cup {Head(queue).peer}
    BY DEF Told, Event, Surfaced
  <2> QED
    BY <2>1, <2>2, <2>3, SurfacedKinds, ViewTold
<1>4. CASE ConnectionClosed
  <2>1. Take({"close"}) /\ Tell(Head(queue)) /\ view' = view
        /\ connected_peers' = connected_peers \ {Head(queue).peer}
    BY <1>4 DEF ConnectionClosed
  <2>2. Head(queue) \in SwarmEvent /\ Head(queue).kind = "close"
    BY <2>1, QueueTail
  <2>3. Told(connected_peers, Event(Surfaced["close"], Head(queue).peer))
          = connected_peers \ {Head(queue).peer}
    BY DEF Told, Event, Surfaced
  <2> QED
    BY <2>1, <2>2, <2>3, SurfacedKinds, ViewTold
<1>5. CASE Message
  <2>1. /\ Take({"request", "response", "record", "gossip", "address"})
        /\ Tell(Head(queue)) /\ view' = view /\ connected_peers' = connected_peers
    BY <1>5 DEF Message
  <2>2. /\ Head(queue) \in SwarmEvent
        /\ Head(queue).kind \in {"request", "response", "record", "gossip", "address"}
    BY <2>1, QueueTail
  <2>3. Told(connected_peers, Event(Surfaced[Head(queue).kind], Head(queue).peer))
          = connected_peers
    BY <2>2 DEF Told, Event, Surfaced
  <2> QED
    BY <2>1, <2>2, <2>3, SurfacedKinds, ViewTold
<1>6. CASE \/ StartListenFails \/ Run \/ Cancel \/ AddAddress \/ Ignore \/ UNCHANGED vars
           \/ \E configured, named \in BOOLEAN : Start(configured, named)
  BY <1>1, <1>6 DEF StartListenFails, Run, Cancel, AddAddress, Ignore, vars, Start
<1>7. ASSUME NEW p \in Peers,
             \/ Open(p) \/ Close(p)
             \/ \E kind \in {"request", "gossip", "discovered", "identified", "address"} :
                  Arrive(kind, p)
             \/ \E kind \in {"response", "record"} : Ask(kind, p) \/ Answer(kind, p)
      PROVE  ViewFollows'
  BY <1>1, <1>7 DEF Open, Close, Arrive, Ask, Answer, Happens
<1> QED
  BY <1>2, <1>3, <1>4, <1>5, <1>6, <1>7 DEF Next, Step

\* What the caller has read and has yet to read adds up to connected_peers.
THEOREM ViewTheorem == Spec => []ViewFollows
<1>1. Init => ViewFollows
  <2>1. ASSUME Init PROVE ViewFollows
    <3>1. events = <<>> /\ view = {} /\ connected_peers = {} /\ events \in Seq({})
      BY <2>1 DEF Init
    <3>2. PICK run : Views(run, view, events)
      BY <3>1, FoldSteps
    <3> QED
      BY <3>1, <3>2 DEF Views, ViewFollows
  <2> QED
    BY <2>1
<1>2. Spec => []TypeOK
  BY TypeCorrect
<1> QED
  BY <1>1, <1>2, ViewNext, PTL DEF Spec

-----------------------------------------------------------------------------
(* A request of a peer keeps its place, the safety part of RequestSurfaces *)

\* The arms of run() take every event there can be: the loop never waits with
\* events in the queue.
EveryEventHasAnArm ==
  running /\ queue # <<>> =>
    Take({"open"}) \/ Take({"close"}) \/ Take({"failure"})
      \/ Take({"request", "response", "record", "gossip", "address"})
      \/ Take({"discovered", "identified"})

\* The place of an event after a step, and the caller's channel when it leaves.
Advances(e, i, told) ==
  IF Step
    THEN IF i = 1
           THEN events' = Append(events, told)
           ELSE i - 1 <= Len(queue') /\ queue'[i - 1] = e
    ELSE i <= Len(queue') /\ queue'[i] = e

RequestsAdvance ==
  [][\A p \in Peers, i \in 1 .. Len(queue) :
       queue[i] = Event("request", p) =>
         Advances(queue[i], i, Event("StorageRequest", p))]_vars

LEMMA AdvanceStep ==
  ASSUME TypeOK, [Next]_vars, NEW p \in Peers, NEW i \in 1 .. Len(queue),
         queue[i] = Event("request", p)
  PROVE  Advances(queue[i], i, Event("StorageRequest", p))
<1>1. queue \in Seq(SwarmEvent) /\ Len(queue) \in Nat /\ events \in Seq(P2PEvent)
  BY DEF TypeOK
<1>2. CASE Step
  <2>1. PICK kinds \in {{"open"}, {"close"}, {"discovered", "identified"}, {"failure"},
                        {"request", "response", "record", "gossip", "address"}} :
          Take(kinds)
    BY <1>2 DEF Step, ConnectionEstablished, ConnectionClosed, Message,
       AddAddress, Ignore
  <2>2. /\ Head(queue) \in SwarmEvent /\ Head(queue) = queue[1]
        /\ Tail(queue) \in Seq(SwarmEvent) /\ Len(Tail(queue)) = Len(queue) - 1
        /\ \A j \in 1 .. Len(queue) - 1 : Tail(queue)[j] = queue[j + 1]
    BY <2>1, QueueTail
  <2>3. queue' = Tail(queue) \/ \E e \in SwarmEvent : queue' = Append(Tail(queue), e)
    <3>1. Event("failure", Head(queue).peer) \in SwarmEvent
      BY <2>2 DEF SwarmEvent, Event
    <3> QED
      BY <1>2, <3>1 DEF Step, ConnectionEstablished, ConnectionClosed, Message,
         AddAddress, Ignore
  <2>4. CASE i = 1
    <3>1. Head(queue).kind = "request" /\ Head(queue).peer = p
      BY <2>2, <2>4 DEF Event
    <3>2. Tell(Head(queue))
      BY <1>2, <3>1 DEF Step, ConnectionEstablished, ConnectionClosed, Message,
         AddAddress, Ignore, Take
    <3>3. Surfaced["request"] = "StorageRequest"
      BY DEF Surfaced
    <3> QED
      BY <1>2, <2>4, <3>1, <3>2, <3>3 DEF Tell, Advances
  <2>5. CASE i # 1
    <3>1. i - 1 \in 1 .. Len(queue) - 1 /\ (i - 1) + 1 = i
      BY <1>1, <2>5
    <3>2. Tail(queue)[i - 1] = queue[i]
      BY <2>2, <3>1
    <3>3. i - 1 <= Len(queue') /\ queue'[i - 1] = queue[i]
      BY <1>1, <2>2, <2>3, <3>1, <3>2
    <3> QED
      BY <1>2, <2>5, <3>3 DEF Advances
  <2> QED
    BY <2>4, <2>5
<1>3. CASE ~Step
  <2>1. queue' = queue \/ \E e : queue' = Append(queue, e)
    <3>1. CASE \/ StartListenFails \/ Run \/ Cancel \/ Receive \/ UNCHANGED vars
               \/ \E configured, named \in BOOLEAN : Start(configured, named)
      BY <3>1 DEF StartListenFails, Run, Cancel, Receive, Start, vars
    <3>2. ASSUME NEW q \in Peers,
                 \/ Open(q) \/ Close(q)
                 \/ \E kind \in {"request", "gossip", "discovered",
                                 "identified", "address"} : Arrive(kind, q)
                 \/ \E kind \in {"response", "record"} :
                      Ask(kind, q) \/ Answer(kind, q)
          PROVE  queue' = queue \/ \E e : queue' = Append(queue, e)
      BY <3>2 DEF Open, Close, Arrive, Ask, Answer, Happens
    <3> QED
      BY <1>3, <3>1, <3>2 DEF Next
  <2>2. i <= Len(queue') /\ queue'[i] = queue[i]
    BY <1>1, <2>1
  <2> QED
    BY <1>3, <2>2 DEF Advances
<1> QED
  BY <1>2, <1>3

\* Whatever events surround it, a request in the swarm's queue moves up by one
\* with each turn of run(), stays where it is otherwise, and at the head is
\* told to the caller; and run() never finds an event it has no arm for.  With
\* the fairness of a polled future this is why every request surfaces.
THEOREM RequestsTheorem == Spec => RequestsAdvance /\ []EveryEventHasAnArm
<1>1. TypeOK => EveryEventHasAnArm
  <2> SUFFICES ASSUME TypeOK, running, queue # <<>>
               PROVE  EveryEventHasAnArm
    BY DEF EveryEventHasAnArm
  <2>1. Head(queue) \in SwarmEvent
    BY DEF TypeOK
  <2>2. Head(queue).kind \in
          {"open", "close", "request", "response", "record", "gossip", "address",
           "discovered", "identified", "failure"}
    BY <2>1, SurfacedKinds DEF SwarmEvent
  <2> QED
    BY <2>2 DEF EveryEventHasAnArm, Take
<1>2. ASSUME TypeOK, [Next]_vars
      PROVE  [\A p \in Peers, i \in 1 .. Len(queue) :
                queue[i] = Event("request", p) =>
                  Advances(queue[i], i, Event("StorageRequest", p))]_vars
  BY <1>2, AdvanceStep
<1> QED
  BY <1>1, <1>2, TypeCorrect, PTL DEF Spec, RequestsAdvance
=============================================================================
