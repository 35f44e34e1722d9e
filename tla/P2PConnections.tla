--------------------------- MODULE P2PConnections ---------------------------
(***************************************************************************)
(* The reconnecting peer-to-peer connection manager of the federation      *)
(* server, src/fedimint-server/src/net/peers.rs.                           *)
(*                                                                         *)
(* For every ordered pair <<p, q>> of distinct peers, peer p runs one      *)
(* P2PConnectionStateMachine task for its link to q.  Each peer also runs  *)
(* one listener/router task that hands accepted connections to the state   *)
(* machine of the connecting peer, and an application (the consensus) that *)
(* sends into and receives from the per-link bounded channels.  The        *)
(* transports are modelled as bounded FIFO wires that the network may      *)
(* break, either with an error both ends see or silently.                  *)
(***************************************************************************)
EXTENDS Naturals, Sequences, FiniteSets, SequencesExt

CONSTANTS
    Peers,       \* the federation members (PeerId: small naturals)
    MaxConns,    \* bound on the transports ever created (connector.connect)
    MaxFaults,   \* bound on network faults: failed connects and broken transports
    MaxMsgs,     \* bound on the application messages p sends to q
    WireCap,     \* envelopes a transport buffers in one direction
    OutCap,      \* capacity of the outgoing channel, bounded(1024)
    InCap,       \* capacity of the incoming channel, bounded(1024)
    NewConnCap   \* capacity of the new-connection channel, bounded(4)

ASSUME /\ Peers \subseteq Nat /\ Cardinality(Peers) >= 2
       /\ \A k \in {MaxConns, MaxMsgs, WireCap, OutCap, InCap, NewConnCap} :
              k \in Nat \ {0}
       /\ MaxFaults \in Nat

Pairs == {pq \in Peers \X Peers : pq[1] # pq[2]}

\* P2PMessage<M>: an application message (identified by its sequence number
\* on the link) or the keepalive/handshake Ping.
Ping == [kind |-> "Ping", id |-> 0]
Msg(m) == [kind |-> "Message", id |-> m]
Envelope == {Ping} \cup {Msg(m) : m \in 1..MaxMsgs}

NoConn == 0

\* Where a state machine task is: at the select of P2PConnectionSMState
\* Disconnected or Connected, awaiting a transport send (connect or
\* send_message), or awaiting incoming_sender.send.
Locations == {"Disconnected", "Connected", "Sending", "Delivering"}

VARIABLES
    at,        \* at[p, q]: location of p's state machine for q
    conn,      \* at[p, q]'s transport (index into tr), NoConn when none
    pending,   \* the envelope being sent or the message being delivered
    status,    \* last value written to the P2PConnectionStatus watch channel
    tr,        \* every transport created: ends, liveness, the two wires
    backlog,   \* backlog[q]: accepted connections the router of q still holds
    newConns,  \* newConns[q, p]: the incoming_connections channel of q for p
    outgoing,  \* outgoing[p, q]: p's application channel towards q
    incoming,  \* incoming[p, q]: messages from q awaiting p's receive()
    sent,      \* sent[p, q]: messages p's application has sent to q
    lastRecv,  \* lastRecv[p, q]: last message id p's application got from q
    faults     \* network faults so far

vars == <<at, conn, pending, status, tr, backlog, newConns, outgoing,
          incoming, sent, lastRecv, faults>>

-----------------------------------------------------------------------------
(* Helpers                                                                 *)

\* state_transition publishes on the status channel before racing the
\* branches of the state it is in.  The code writes Connected while in
\* Disconnected and Disconnected while in Connected.
StatusPublishedIn == [Disconnected |-> "Connected", Connected |-> "Disconnected"]

\* The state machine returns state s; the task loop immediately calls
\* state_transition again, which publishes the status for s.  The envelope
\* of a finished send or delivery is gone (reset to Ping).
Resume(p, q, s) ==
    /\ at' = [at EXCEPT ![p, q] = s]
    /\ status' = [status EXCEPT ![p, q] = StatusPublishedIn[s]]
    /\ pending' = [pending EXCEPT ![p, q] = Ping]

\* Dropping a transport at end p closes it for the other end.
Drop(t, c, p) == [t EXCEPT ![c].closed = TRUE, ![c].wire[p] = <<>>]

\* disconnect(): drop the transport, return Disconnected with a fresh backoff.
Disconnect(p, q) ==
    /\ Resume(p, q, "Disconnected")
    /\ conn' = [conn EXCEPT ![p, q] = NoConn]
    /\ tr' = Drop(tr, conn[p, q], p)

\* Start connect()'s or send_message's transport send of envelope e on c.
StartSend(p, q, c, e) ==
    /\ at' = [at EXCEPT ![p, q] = "Sending"]
    /\ conn' = [conn EXCEPT ![p, q] = c]
    /\ pending' = [pending EXCEPT ![p, q] = e]

\* The transport.receive() branch is ready: data is buffered, or the other
\* end closed it and the error is delivered.
ReceiveReady(p, q) ==
    LET c == conn[p, q] IN tr[c].wire[p] # <<>> \/ (tr[c].closed /\ ~tr[c].silent)

NewTransport(p, q) ==
    [ini |-> p, acc |-> q, closed |-> FALSE, silent |-> FALSE,
     wire |-> [x \in {p, q} |-> <<>>]]

-----------------------------------------------------------------------------
(* Disconnected: race an incoming connection against the reconnect timer  *)

\* The incoming_connections branch: connect() sends the Ping handshake.
DisconnectedIncoming(p, q) ==
    /\ at[p, q] = "Disconnected"
    /\ newConns[p, q] # <<>>
    /\ newConns' = [newConns EXCEPT ![p, q] = Tail(@)]
    /\ StartSend(p, q, Head(newConns[p, q]), Ping)
    /\ UNCHANGED <<status, tr, backlog, outgoing, incoming, sent, lastRecv, faults>>

\* Mutant: both sides reconnect (the our_id < peer_id tie-break dropped).
DisconnectedReconnectBothSides(p, q) ==
    /\ at[p, q] = "Disconnected"
    /\ newConns[p, q] = <<>>
    /\ \/ /\ Len(tr) < MaxConns
          /\ tr' = Append(tr, NewTransport(p, q))
          /\ backlog' = [backlog EXCEPT ![q] = Append(@, [from |-> p, c |-> Len(tr) + 1])]
          /\ StartSend(p, q, Len(tr) + 1, Ping)
          /\ UNCHANGED <<status, faults>>
       \/ /\ faults < MaxFaults
          /\ faults' = faults + 1
          /\ Resume(p, q, "Disconnected")
          /\ UNCHANGED <<tr, backlog, conn>>
    /\ UNCHANGED <<newConns, outgoing, incoming, sent, lastRecv>>

\* The backoff timer branch, only when our_id < peer_id.  The timer is
\* created at every select, so an incoming connection that is already
\* queued wins.  connector.connect either yields a transport, which q's
\* listener accepts, or fails and the same backoff is kept.
DisconnectedReconnect(p, q) ==
    /\ at[p, q] = "Disconnected"
    /\ p < q
    /\ newConns[p, q] = <<>>
    /\ \/ /\ Len(tr) < MaxConns
          /\ tr' = Append(tr, NewTransport(p, q))
          /\ backlog' = [backlog EXCEPT ![q] = Append(@, [from |-> p, c |-> Len(tr) + 1])]
          /\ StartSend(p, q, Len(tr) + 1, Ping)
          /\ UNCHANGED <<status, faults>>
       \/ /\ faults < MaxFaults
          /\ faults' = faults + 1
          /\ Resume(p, q, "Disconnected")
          /\ UNCHANGED <<tr, backlog, conn>>
    /\ UNCHANGED <<newConns, outgoing, incoming, sent, lastRecv>>

-----------------------------------------------------------------------------
(* Connected: race outgoing messages, new connections, the transport and  *)
(* the 10 second keepalive timer                                           *)

\* Mutant: the outgoing message is peeked, not taken from the channel.
ConnectedSendMessagePeek(p, q) ==
    /\ at[p, q] = "Connected"
    /\ outgoing[p, q] # <<>>
    /\ StartSend(p, q, conn[p, q], Msg(Head(outgoing[p, q])))
    /\ UNCHANGED <<outgoing, status, tr, backlog, newConns, incoming, sent, lastRecv, faults>>

ConnectedSendMessage(p, q) ==
    /\ at[p, q] = "Connected"
    /\ outgoing[p, q] # <<>>
    /\ outgoing' = [outgoing EXCEPT ![p, q] = Tail(@)]
    /\ StartSend(p, q, conn[p, q], Msg(Head(outgoing[p, q])))
    /\ UNCHANGED <<status, tr, backlog, newConns, incoming, sent, lastRecv, faults>>

\* A new incoming connection unconditionally supersedes the current one.
ConnectedNewConnection(p, q) ==
    /\ at[p, q] = "Connected"
    /\ newConns[p, q] # <<>>
    /\ newConns' = [newConns EXCEPT ![p, q] = Tail(@)]
    /\ tr' = Drop(tr, conn[p, q], p)
    /\ StartSend(p, q, Head(newConns[p, q]), Ping)
    /\ UNCHANGED <<status, backlog, outgoing, incoming, sent, lastRecv, faults>>

\* transport.receive(): a Message goes to the incoming channel, a Ping is
\* consumed, an error disconnects.
ConnectedReceive(p, q) ==
    LET c == conn[p, q] IN
    /\ at[p, q] = "Connected"
    /\ \/ /\ tr[c].wire[p] # <<>>
          /\ tr' = [tr EXCEPT ![c].wire[p] = Tail(@)]
          /\ IF Head(tr[c].wire[p]).kind = "Message"
             THEN /\ at' = [at EXCEPT ![p, q] = "Delivering"]
                  /\ pending' = [pending EXCEPT ![p, q] = Head(tr[c].wire[p])]
                  /\ UNCHANGED status
             ELSE Resume(p, q, "Connected")
          /\ UNCHANGED conn
       \/ /\ tr[c].wire[p] = <<>> /\ tr[c].closed /\ ~tr[c].silent
          /\ Disconnect(p, q)
    /\ UNCHANGED <<backlog, newConns, outgoing, incoming, sent, lastRecv, faults>>

\* Mutant: the keepalive timer branch removed.
ConnectedNoKeepalive(p, q) == FALSE

\* The sleep(10s) is created afresh at every select: it only wins when no
\* other branch becomes ready for ten seconds.
ConnectedKeepalive(p, q) ==
    /\ at[p, q] = "Connected"
    /\ ~ReceiveReady(p, q)
    /\ outgoing[p, q] = <<>>
    /\ newConns[p, q] = <<>>
    /\ StartSend(p, q, conn[p, q], Ping)
    /\ UNCHANGED <<status, tr, backlog, newConns, outgoing, incoming, sent, lastRecv, faults>>

-----------------------------------------------------------------------------
(* The awaited sends of connect() and send_message()                       *)

\* The send completes: it waits while the wire is full; on a transport
\* the other end no longer reads, the bytes are accepted and lost.
TransportSendOk(p, q) ==
    LET c == conn[p, q] IN
    /\ at[p, q] = "Sending"
    /\ \/ /\ ~tr[c].closed
          /\ Len(tr[c].wire[q]) < WireCap
          /\ tr' = [tr EXCEPT ![c].wire[q] = Append(@, pending[p, q])]
       \/ /\ tr[c].closed
          /\ UNCHANGED tr
    /\ Resume(p, q, "Connected")
    /\ UNCHANGED <<conn, backlog, newConns, outgoing, incoming, sent, lastRecv, faults>>

\* The send on a closed transport fails: disconnect().
TransportSendFail(p, q) ==
    /\ at[p, q] = "Sending"
    /\ tr[conn[p, q]].closed
    /\ Disconnect(p, q)
    /\ UNCHANGED <<backlog, newConns, outgoing, incoming, sent, lastRecv, faults>>

\* Mutant: the incoming channel taken as unbounded.
DeliverUnbounded(p, q) ==
    /\ at[p, q] = "Delivering"
    /\ incoming' = [incoming EXCEPT ![p, q] = Append(@, pending[p, q].id)]
    /\ Resume(p, q, "Connected")
    /\ UNCHANGED <<conn, tr, backlog, newConns, outgoing, sent, lastRecv, faults>>

\* incoming_sender.send(message).await: waits while the channel is full.
Deliver(p, q) ==
    /\ at[p, q] = "Delivering"
    /\ Len(incoming[p, q]) < InCap
    /\ incoming' = [incoming EXCEPT ![p, q] = Append(@, pending[p, q].id)]
    /\ Resume(p, q, "Connected")
    /\ UNCHANGED <<conn, tr, backlog, newConns, outgoing, sent, lastRecv, faults>>

-----------------------------------------------------------------------------
(* The listener/router task of ReconnectP2PConnections::new                *)

\* Forward the next accepted connection to the channel of its peer; the
\* router blocks while that channel is full.
RouteIncoming(q) ==
    /\ backlog[q] # <<>>
    /\ LET e == Head(backlog[q]) IN
       /\ Len(newConns[q, e.from]) < NewConnCap
       /\ newConns' = [newConns EXCEPT ![q, e.from] = Append(@, e.c)]
    /\ backlog' = [backlog EXCEPT ![q] = Tail(@)]
    /\ UNCHANGED <<at, conn, pending, status, tr, outgoing, incoming, sent, lastRecv, faults>>

-----------------------------------------------------------------------------
(* The network                                                             *)

\* A transport breaks: buffered data is lost; with silent, neither end's
\* receive returns an error and only a send notices.
Break(c) ==
    /\ faults < MaxFaults
    /\ ~tr[c].closed
    /\ faults' = faults + 1
    /\ \E silent \in BOOLEAN :
          tr' = [tr EXCEPT ![c].closed = TRUE, ![c].silent = silent,
                           ![c].wire = [x \in DOMAIN @ |-> <<>>]]
    /\ UNCHANGED <<at, conn, pending, status, backlog, newConns, outgoing,
                   incoming, sent, lastRecv>>

-----------------------------------------------------------------------------
(* The application: IP2PConnections send, try_send and receive             *)

\* send(Recipient::Peer(q), m): waits while the outgoing channel is full.
AppSend(p, q) ==
    /\ sent[p, q] < MaxMsgs
    /\ Len(outgoing[p, q]) < OutCap
    /\ outgoing' = [outgoing EXCEPT ![p, q] = Append(@, sent[p, q] + 1)]
    /\ sent' = [sent EXCEPT ![p, q] = @ + 1]
    /\ UNCHANGED <<at, conn, pending, status, tr, backlog, newConns, incoming, lastRecv, faults>>

\* try_send(Recipient::Peer(q), m): the message is dropped when full.
AppTrySend(p, q) ==
    /\ sent[p, q] < MaxMsgs
    /\ outgoing' = [outgoing EXCEPT ![p, q] =
                      IF Len(@) < OutCap THEN Append(@, sent[p, q] + 1) ELSE @]
    /\ sent' = [sent EXCEPT ![p, q] = @ + 1]
    /\ UNCHANGED <<at, conn, pending, status, tr, backlog, newConns, incoming, lastRecv, faults>>

\* receive(): select_all over the links, the first ready one wins.
AppReceive(p) ==
    \E q \in Peers \ {p} :
       /\ incoming[p, q] # <<>>
       /\ incoming' = [incoming EXCEPT ![p, q] = Tail(@)]
       /\ lastRecv' = [lastRecv EXCEPT ![p, q] = Head(incoming[p, q])]
       /\ UNCHANGED <<at, conn, pending, status, tr, backlog, newConns, outgoing, sent, faults>>

-----------------------------------------------------------------------------

\* Every link starts Disconnected with a fresh backoff; the first
\* state_transition has published its status.
Init ==
    /\ at = [pq \in Pairs |-> "Disconnected"]
    /\ conn = [pq \in Pairs |-> NoConn]
    /\ pending = [pq \in Pairs |-> Ping]
    /\ status = [pq \in Pairs |-> StatusPublishedIn["Disconnected"]]
    /\ tr = <<>>
    /\ backlog = [q \in Peers |-> <<>>]
    /\ newConns = [pq \in Pairs |-> <<>>]
    /\ outgoing = [pq \in Pairs |-> <<>>]
    /\ incoming = [pq \in Pairs |-> <<>>]
    /\ sent = [pq \in Pairs |-> 0]
    /\ lastRecv = [pq \in Pairs |-> 0]
    /\ faults = 0

StateMachineStep(p, q) ==
    \/ DisconnectedIncoming(p, q)
    \/ DisconnectedReconnect(p, q)
    \/ ConnectedSendMessage(p, q)
    \/ ConnectedNewConnection(p, q)
    \/ ConnectedReceive(p, q)
    \/ ConnectedKeepalive(p, q)
    \/ TransportSendOk(p, q)
    \/ TransportSendFail(p, q)
    \/ Deliver(p, q)

Next ==
    \/ \E pq \in Pairs : StateMachineStep(pq[1], pq[2])
    \/ \E pq \in Pairs : AppSend(pq[1], pq[2]) \/ AppTrySend(pq[1], pq[2])
    \/ \E p \in Peers : AppReceive(p) \/ RouteIncoming(p)
    \/ \E c \in 1..Len(tr) : Break(c)

(***************************************************************************)
(* Fairness.  Each task is scheduled by tokio, and tokio::select! picks    *)
(* uniformly among the ready branches, so every branch that stays ready is *)
(* eventually taken: weak fairness per branch.  A send on a broken         *)
(* transport may be accepted for a while, but the transport's timeout      *)
(* makes a send on it fail eventually: strong fairness of                  *)
(* TransportSendFail.  The consensus calls receive() in its loop: weak     *)
(* fairness of AppReceive.  The application's sends are not assumed.       *)
(***************************************************************************)
Fairness ==
    /\ \A pq \in Pairs :
          LET p == pq[1]  q == pq[2] IN
          /\ WF_vars(DisconnectedIncoming(p, q))
          /\ WF_vars(DisconnectedReconnect(p, q))
          /\ WF_vars(ConnectedSendMessage(p, q))
          /\ WF_vars(ConnectedNewConnection(p, q))
          /\ WF_vars(ConnectedReceive(p, q))
          /\ WF_vars(ConnectedKeepalive(p, q))
          /\ WF_vars(TransportSendOk(p, q))
          /\ SF_vars(TransportSendFail(p, q))
          /\ WF_vars(Deliver(p, q))
    /\ \A p \in Peers : WF_vars(RouteIncoming(p)) /\ WF_vars(AppReceive(p))

Spec == Init /\ [][Next]_vars
FairSpec == Spec /\ Fairness

-----------------------------------------------------------------------------
(* Properties                                                              *)

IsSeqOf(s, S, n) == Len(s) <= n /\ ToSet(s) \subseteq S

TypeOK ==
    /\ at \in [Pairs -> Locations]
    /\ conn \in [Pairs -> 0..MaxConns]
    /\ pending \in [Pairs -> Envelope]
    /\ status \in [Pairs -> {"Connected", "Disconnected"}]
    /\ Len(tr) <= MaxConns
    /\ \A c \in 1..Len(tr) :
          /\ {tr[c].ini, tr[c].acc} \subseteq Peers
          /\ \A x \in DOMAIN tr[c].wire : IsSeqOf(tr[c].wire[x], Envelope, WireCap)
    /\ \A p \in Peers : Len(backlog[p]) <= MaxConns
    /\ \A pq \in Pairs :
          /\ IsSeqOf(newConns[pq], 1..MaxConns, NewConnCap)
          /\ IsSeqOf(outgoing[pq], 1..MaxMsgs, OutCap)
          /\ IsSeqOf(incoming[pq], 1..MaxMsgs, InCap)
          /\ sent[pq] \in 0..MaxMsgs /\ lastRecv[pq] \in 0..MaxMsgs
          /\ (at[pq] = "Disconnected") <=> (conn[pq] = NoConn)
    /\ faults \in 0..MaxFaults

\* Spec invariant 1, over the whole link: between two peers there is never
\* more than one transport that neither end has dropped nor the network
\* broken.  It rests on the tie-break (only the lower id reconnects) and on
\* the lower id reconnecting only after its transport failed.
AtMostOneLiveTransport ==
    \A pq \in Pairs :
       Cardinality({c \in 1..Len(tr) :
                       ~tr[c].closed /\ {tr[c].ini, tr[c].acc} = {pq[1], pq[2]}}) <= 1

\* A state machine awaiting a transport send eventually gets back to its
\* select loop (the send completes or fails): the two ends of a link never
\* wait on each other's full buffers forever.
SendCompletes ==
    \A pq \in Pairs : at[pq] = "Sending" ~> at[pq] \in {"Connected", "Disconnected"}

\* Both ends of p--q hold the same transport and it is alive.
LinkUp(p, q) ==
    /\ conn[p, q] # NoConn
    /\ conn[p, q] = conn[q, p]
    /\ ~tr[conn[p, q]].closed

\* Once the network stops failing, every link comes up and stays up: the
\* lower id reconnects, the keepalive Ping detects silently broken
\* transports, and stale accepted connections do not tear the link down.
LinksEventuallyUp ==
    \A pq \in Pairs : pq[1] < pq[2] => <>[]LinkUp(pq[1], pq[2])

\* The status channel tells what state the link is in (the spec's
\* ConnectionStatus, and scenario 2's Connected -> Disconnected ->
\* Connected sequence): whenever the state machine waits in its select,
\* the last status it published is that state.
StatusMatchesState ==
    \A pq \in Pairs : at[pq] \in {"Disconnected", "Connected"} => status[pq] = at[pq]

=============================================================================
