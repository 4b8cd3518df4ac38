---------------------------- MODULE MCPeerManager ----------------------------
(* PeerManager on a small instance for TLC. *)
EXTENDS PeerManager, TLC

\* A fresh peer (PeerInfo::new has reliability 0.5) and a barely reliable one.
MCInfos ==
  {[offered |-> 2, available |-> 1, reliability |-> 5, latency |-> 0],
   [offered |-> 2, available |-> 2, reliability |-> 3, latency |-> 4]}

\* A failed and a successful exchange.
MCDeltas == {-3, 2}

Symmetry == Permutations(Peers)
=============================================================================
