----------------------------- MODULE MC_PeerSet -----------------------------
(* Three peers.  As node 2 both other peers dial in through the router;    *)
(* as node 1, peer 0 dials in and node 1 dials peer 2 itself.              *)
EXTENDS PeerSet

MCPeers == {0, 1, 2}
====
