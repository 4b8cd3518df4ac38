------------------------------- MODULE P2PNode -------------------------------
(***************************************************************************)
(* The libp2p node and its event loop (rust_core/src/p2p/node.rs).         *)
(*                                                                         *)
(* The swarm is external: connections open and close, messages and         *)
(* discoveries arrive, and each becomes one event of a queue.  run() takes *)
(* them one by one, keeps connected_peers and tells the caller over an     *)
(* unbounded channel.  run() borrows the node: start, requests and the     *)
(* receiving end of the channel can be used only when the caller has       *)
(* dropped it, which it may do at every await; no handler awaits between   *)
(* taking an event and the end of its arm.  publish and put_dht change     *)
(* nothing that is kept here.                                              *)
(***************************************************************************)
EXTENDS Naturals, SequencesExt

CONSTANTS
  Peers,             \* other nodes
  StartTopics,       \* the topics start() subscribes to
  MaxConnections,    \* bound: connections with one peer at a time
  MaxEvents          \* bound: what happens in the network and is asked of it

ASSUME NodeAssumption ==
  {MaxConnections, MaxEvents} \subseteq Nat

VARIABLES
  running,           \* the caller polls run()
  listening,         \* the swarm accepted a listen address
  topics,            \* gossipsub subscriptions
  routing,           \* Kademlia's routing table has a peer in it
  pending,           \* storage requests sent and DHT lookups, unanswered
  connections,       \* connections the swarm has with each peer
  queue,             \* swarm events not yet taken
  connected_peers,
  events,            \* the channel to the caller
  view,              \* the peers the caller was told are connected
  overlapped,        \* history: peers that had two connections at a time
                     \* since they last had none
  happened           \* bound: what happened so far

callerVars == <<running, listening, topics, routing>>
swarmVars == <<connections, overlapped, happened>>
channelVars == <<connected_peers, events, view>>
vars == <<callerVars, pending, queue, swarmVars, channelVars>>

Event(kind, p) == [kind |-> kind, peer |-> p]

\* The swarm events run() tells the caller of, and as what.
Surfaced ==
  [open |-> "PeerConnected", close |-> "PeerDisconnected",
   request |-> "StorageRequest", response |-> "StorageResponse",
   record |-> "DhtValue", gossip |-> "GossipMessage",
   address |-> "Listening"]

-----------------------------------------------------------------------------
Init ==
  /\ running = FALSE
  /\ listening = FALSE /\ routing = FALSE
  /\ topics = {} /\ pending = {}
  /\ connections = [p \in Peers |-> 0]
  /\ queue = <<>>
  /\ connected_peers = {}
  /\ events = <<>>
  /\ view = {}
  /\ overlapped = {}
  /\ happened = 0

-----------------------------------------------------------------------------
(* What the caller does with the node *)

\* start() when a listen address is refused: those before it stay, if any, and
\* nothing else of start() is done.
StartListenFails ==
  /\ ~running
  /\ listening' \in {listening, TRUE}
  /\ UNCHANGED <<running, topics, routing, pending, queue, swarmVars,
                 channelVars>>

\* start() with every address accepted.  Bootstrap addresses that name a peer
\* enter the routing table; if some are configured and the table is empty,
\* bootstrap() is an Err before the topics are subscribed to.
Start(configured, named) ==
  /\ ~running
  /\ named => configured
  /\ listening' = TRUE
  /\ routing' = (routing \/ named)
  /\ topics' = IF configured /\ ~routing' THEN topics ELSE topics \cup StartTopics
  /\ UNCHANGED <<running, pending, queue, swarmVars, channelVars>>

Run == ~running /\ running' = TRUE
       /\ UNCHANGED <<listening, topics, routing, pending, queue, swarmVars,
                      channelVars>>

\* The future of run() is dropped.
Cancel == running /\ running' = FALSE
          /\ UNCHANGED <<listening, topics, routing, pending, queue, swarmVars,
                         channelVars>>

\* send_storage_request and get_dht: what answers them are events.
Ask(kind, p) ==
  /\ ~running
  /\ happened < MaxEvents
  /\ happened' = happened + 1
  /\ pending' = pending \cup {Event(kind, p)}
  /\ UNCHANGED <<callerVars, queue, connections, overlapped, channelVars>>

\* What the caller makes of an event it is told.
Told(set, e) ==
  CASE e.kind = "PeerConnected" -> set \cup {e.peer}
    [] e.kind = "PeerDisconnected" -> set \ {e.peer}
    [] OTHER -> set

\* event_receiver().recv()
Receive ==
  /\ ~running
  /\ events # <<>>
  /\ events' = Tail(events)
  /\ view' = Told(view, Head(events))
  /\ UNCHANGED <<callerVars, pending, queue, swarmVars, connected_peers>>

-----------------------------------------------------------------------------
(* What the swarm and the network do (external) *)

Happens(e) ==
  /\ happened < MaxEvents
  /\ happened' = happened + 1
  /\ queue' = Append(queue, e)
  /\ UNCHANGED <<callerVars, channelVars>>

\* Dialled from either side: an outbound one needs no listen address.
Open(p) ==
  /\ connections[p] < MaxConnections
  /\ connections' = [connections EXCEPT ![p] = @ + 1]
  /\ overlapped' = IF connections[p] > 0 THEN overlapped \cup {p} ELSE overlapped
  /\ Happens(Event("open", p))
  /\ UNCHANGED pending

\* Either side closes a connection, or it was idle for 60 seconds.
Close(p) ==
  /\ connections[p] > 0
  /\ connections' = [connections EXCEPT ![p] = @ - 1]
  /\ overlapped' = IF connections[p] = 1 THEN overlapped \ {p} ELSE overlapped
  /\ Happens(Event("close", p))
  /\ UNCHANGED pending

\* A message of a connected peer, an mDNS discovery, which needs no connection,
\* or a new listen address, which is of no peer.
Arrive(kind, p) ==
  /\ kind = "discovered" \/ (kind = "address" /\ listening) \/ connections[p] > 0
  /\ Happens(Event(kind, p))
  /\ UNCHANGED <<pending, connections, overlapped>>

\* A request or a lookup ends, with an answer or without; a lookup may find
\* more than one record.
Answer(kind, p) ==
  /\ Event(kind, p) \in pending
  /\ \/ pending' = pending \ {Event(kind, p)}
     \/ kind = "record" /\ pending' = pending
  /\ \E outcome \in {kind, "failure"} : Happens(Event(outcome, p))
  /\ UNCHANGED <<connections, overlapped>>

-----------------------------------------------------------------------------
(* The arms of run() and handle_behaviour_event *)

Take(kinds) == running /\ queue # <<>> /\ Head(queue).kind \in kinds

\* Faulty variant: the swarm's event is passed on as it is.
FaultyTell(e) == events' = Append(events, e)

Tell(e) == events' = Append(events, Event(Surfaced[e.kind], e.peer))

\* Faulty variants: a peer is told and not inserted, or told and not removed;
\* gossip has no arm and stops the loop.
FaultyConnectionEstablished ==
  /\ Take({"open"})
  /\ Tell(Head(queue))
  /\ queue' = Tail(queue)
  /\ UNCHANGED <<callerVars, pending, swarmVars, connected_peers, view>>

FaultyConnectionClosed ==
  /\ Take({"close"})
  /\ Tell(Head(queue))
  /\ queue' = Tail(queue)
  /\ UNCHANGED <<callerVars, pending, swarmVars, connected_peers, view>>

FaultyMessage ==
  /\ Take({"request", "response", "record", "address"})
  /\ Tell(Head(queue))
  /\ queue' = IF Head(queue).kind = "request"
                THEN Append(Tail(queue), Event("failure", Head(queue).peer))
                ELSE Tail(queue)
  /\ UNCHANGED <<callerVars, pending, swarmVars, connected_peers, view>>

ConnectionEstablished ==
  /\ Take({"open"})
  /\ connected_peers' = connected_peers \cup {Head(queue).peer}
  /\ Tell(Head(queue))
  /\ queue' = Tail(queue)
  /\ UNCHANGED <<callerVars, pending, swarmVars, view>>

\* Of one connection: whether others with the peer are open is not asked.
ConnectionClosed ==
  /\ Take({"close"})
  /\ connected_peers' = connected_peers \ {Head(queue).peer}
  /\ Tell(Head(queue))
  /\ queue' = Tail(queue)
  /\ UNCHANGED <<callerVars, pending, swarmVars, view>>

\* The channel a request could be answered on is dropped with the event: the
\* swarm reports that as a failure.
Message ==
  /\ Take({"request", "response", "record", "gossip", "address"})
  /\ Tell(Head(queue))
  /\ queue' = IF Head(queue).kind = "request"
                THEN Append(Tail(queue), Event("failure", Head(queue).peer))
                ELSE Tail(queue)
  /\ UNCHANGED <<callerVars, pending, swarmVars, connected_peers, view>>

\* mDNS or identify gives addresses of a peer.
AddAddress ==
  /\ Take({"discovered", "identified"})
  /\ routing' = TRUE
  /\ queue' = Tail(queue)
  /\ UNCHANGED <<running, listening, topics, pending, swarmVars, channelVars>>

\* Every other event, a request or a lookup that failed among them.
Ignore ==
  /\ Take({"failure"})
  /\ queue' = Tail(queue)
  /\ UNCHANGED <<callerVars, pending, swarmVars, channelVars>>

Step ==
  ConnectionEstablished \/ ConnectionClosed \/ Message \/ AddAddress \/ Ignore

Next ==
  \/ StartListenFails
  \/ \E configured, named \in BOOLEAN : Start(configured, named)
  \/ Run \/ Cancel \/ Receive
  \/ \E p \in Peers :
       \/ Open(p) \/ Close(p)
       \/ \E kind \in {"request", "gossip", "discovered", "identified",
                       "address"} :
            Arrive(kind, p)
       \/ \E kind \in {"response", "record"} : Ask(kind, p) \/ Answer(kind, p)
  \/ Step

Spec == Init /\ [][Next]_vars

\* A future that is polled makes progress.
FairSpec == Spec /\ WF_vars(Step)

-----------------------------------------------------------------------------
(* Properties *)

SwarmEvent ==
  [kind : DOMAIN Surfaced \cup {"discovered", "identified", "failure"},
   peer : Peers]

P2PEvent == [kind : {Surfaced[k] : k \in DOMAIN Surfaced}, peer : Peers]

TypeOK ==
  /\ running \in BOOLEAN /\ listening \in BOOLEAN /\ routing \in BOOLEAN
  /\ topics \subseteq StartTopics
  /\ pending \subseteq [kind : {"response", "record"}, peer : Peers]
  /\ connections \in [Peers -> 0 .. MaxConnections]
  /\ queue \in Seq(SwarmEvent)
  /\ connected_peers \subseteq Peers /\ view \subseteq Peers
  /\ events \in Seq(P2PEvent)
  /\ overlapped \subseteq Peers
  /\ happened \in 0 .. MaxEvents

Queued(kind, p) == \E i \in 1 .. Len(queue) : queue[i] = Event(kind, p)

\* A peer listed as connected has a connection or its end is waiting to be
\* handled, however often run() was dropped and started again: nobody stays
\* listed for good after it left.
NoGhosts ==
  \A p \in connected_peers : connections[p] > 0 \/ Queued("close", p)

\* A peer with a connection is listed, or the opening of one is waiting to be
\* handled: a peer is only ever missed when one of several connections it had
\* at a time was closed.
MissedOnlyIfOverlapped ==
  \A p \in Peers :
    connections[p] > 0 /\ p \notin overlapped /\ ~Queued("open", p)
      => p \in connected_peers

\* What the caller has been told and has yet to read adds up to
\* connected_peers: an event taken from the swarm is never lost between two
\* lives of run().
ViewFollows == FoldLeft(Told, view, events) = connected_peers

\* node.rs:152: "Connected peers": with every event handled, connected_peers
\* are the peers the node has connections with.  False of the code: see the
\* run node_second_connection.
ConnectedIsExact ==
  queue = <<>> => connected_peers = {p \in Peers : connections[p] > 0}

\* While run() is polled every event of the swarm is handled in turn: a
\* request of a peer reaches the caller's channel whatever comes before it.
RequestSurfaces ==
  \A p \in Peers :
    Queued("request", p) /\ running
      ~> Event("StorageRequest", p) \in ToSet(events) \/ ~running
=============================================================================
