------------------------------ MODULE LinkSpec ------------------------------
(***************************************************************************)
(* What IP2PConnections (src/fedimint-server/src/net/peers.rs) promises    *)
(* the consensus for each ordered pair of peers: send and try_send put     *)
(* the message on the link to the peer, receive returns the messages of    *)
(* each peer in the order they were sent.  Messages may be lost (a broken  *)
(* transport, a failed send, a full channel) but are never duplicated or   *)
(* reordered.  A message is its sequence number on the link.               *)
(***************************************************************************)
EXTENDS Naturals, Sequences

CONSTANTS
    Peers,
    MaxMsgs     \* messages each peer sends to each other peer

Pairs == {pq \in Peers \X Peers : pq[1] # pq[2]}

VARIABLES
    sent,       \* sent[p, q]: messages p has sent to q
    chan,       \* chan[p, q]: messages from p on their way to q, oldest first
    lastRecv    \* lastRecv[q, p]: the last message q's receive returned from p

vars == <<sent, chan, lastRecv>>

Init ==
    /\ sent = [pq \in Pairs |-> 0]
    /\ chan = [pq \in Pairs |-> <<>>]
    /\ lastRecv = [pq \in Pairs |-> 0]

\* send or try_send to q; try_send drops the message when the channel is full.
Send(p, q) ==
    /\ sent[p, q] < MaxMsgs
    /\ sent' = [sent EXCEPT ![p, q] = @ + 1]
    /\ \/ chan' = [chan EXCEPT ![p, q] = Append(@, sent[p, q] + 1)]
       \/ UNCHANGED chan
    /\ UNCHANGED lastRecv

\* receive returns the oldest message from p.
Receive(q, p) ==
    /\ chan[p, q] # <<>>
    /\ lastRecv' = [lastRecv EXCEPT ![q, p] = Head(chan[p, q])]
    /\ chan' = [chan EXCEPT ![p, q] = Tail(@)]
    /\ UNCHANGED sent

\* Any messages in flight, on any links at once, are lost.
Lose ==
    LET before == chan  after == chan' IN
    /\ after # before
    /\ \E keep \in [Pairs -> SUBSET (1..MaxMsgs)] :
          after = [pq \in Pairs |-> SelectSeq(before[pq], LAMBDA m : m \in keep[pq])]
    /\ UNCHANGED <<sent, lastRecv>>

Next ==
    \/ \E pq \in Pairs : Send(pq[1], pq[2]) \/ Receive(pq[2], pq[1])
    \/ Lose

Spec == Init /\ [][Next]_vars

====
