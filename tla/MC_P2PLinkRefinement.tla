------------------------ MODULE MC_P2PLinkRefinement ------------------------
(* P2PLinkRefinement for TLC: one link between peers 0 and 1.              *)
EXTENDS P2PLinkRefinement

MCPeers == {0, 1}

====
