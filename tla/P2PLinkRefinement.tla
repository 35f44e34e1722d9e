-------------------------- MODULE P2PLinkRefinement --------------------------
(***************************************************************************)
(* P2PConnections implements LinkSpec.  The abstract link from p to q is   *)
(* every message p's application has sent and q's has not yet received,    *)
(* in the order q will receive them: q's incoming channel, the message q's *)
(* state machine is delivering, the messages on the transports' wires to q *)
(* (oldest transport first), the message p's state machine is sending, and *)
(* p's outgoing channel.                                                   *)
(***************************************************************************)
EXTENDS P2PConnections

\* The application messages among a wire's envelopes.
MsgIds(w) ==
    LET msgs == SelectSeq(w, LAMBDA e : e.kind = "Message")
    IN [i \in DOMAIN msgs |-> msgs[i].id]

OnWires(p, q) ==
    FlattenSeq([c \in 1..Len(tr) |->
                  IF {tr[c].ini, tr[c].acc} = {p, q} THEN MsgIds(tr[c].wire[q]) ELSE <<>>])

InHand(p, q, loc) ==
    IF at[p, q] = loc /\ pending[p, q].kind = "Message" THEN <<pending[p, q].id>> ELSE <<>>

InFlight(p, q) ==
    incoming[q, p] \o InHand(q, p, "Delivering") \o OnWires(p, q)
        \o InHand(p, q, "Sending") \o outgoing[p, q]

Link == INSTANCE LinkSpec WITH chan <- [pq \in Pairs |-> InFlight(pq[1], pq[2])]

\* Every step of the state machines, routers, network and applications is a
\* step of LinkSpec or leaves the abstract link unchanged: across
\* reconnections, supersession by a new transport, failed sends and broken
\* transports, the messages of a link are only ever lost, never duplicated
\* or reordered.
ImplementsLinkSpec == Link!Spec

====
