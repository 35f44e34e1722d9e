---------------------------- MODULE MC_PortAlloc ----------------------------
(* PortAlloc over a 3-bit port space: ports 1..4 are the bases tried      *)
(* (LOW..HIGH of 10000..32000 scaled), range ends reach 6 of 7.            *)
EXTENDS PortAlloc

MCSizes == {1, 2}
MCSizesWithZero == {0, 1}
====
