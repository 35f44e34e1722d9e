------------------------- MODULE MC_P2PConnections -------------------------
(* Instantiation of P2PConnections for TLC: one link between peers 0 and 1. *)
EXTENDS P2PConnections

MCPeers == {0, 1}

=============================================================================
