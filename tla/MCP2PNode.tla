------------------------------ MODULE MCP2PNode ------------------------------
(* P2PNode on a small instance for TLC. *)
EXTENDS P2PNode

CONSTANTS p1, p2

MCPeers == {p1, p2}
=============================================================================
