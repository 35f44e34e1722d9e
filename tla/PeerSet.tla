------------------------------- MODULE PeerSet -------------------------------
(***************************************************************************)
(* ReconnectP2PConnections of src/fedimint-server/src/net/peers.rs, seen   *)
(* from one node Me with a link to every other peer: the router task       *)
(* that hands accepted connections to the links, send and try_send to     *)
(* one peer or to everyone, and receive over all links.                    *)
(*                                                                         *)
(* Each link's state machine keeps the select arms of P2PConnections that  *)
(* touch the channels shared with the router and the application; the     *)
(* transport is abstracted to "a send succeeds or breaks it" and "a       *)
(* message arrives".  Channels hold no payload: only their fill level      *)
(* matters here.  The application runs a sending task and a receiving task *)
(* (the consensus layer's; not under src/).                                *)
(***************************************************************************)
EXTENDS Naturals, FiniteSets, Sequences, SequencesExt

CONSTANTS
    Peers,          \* the federation's peer ids
    Me,             \* our_id
    OutCap,         \* the outgoing channel's bound (1024)
    InCap,          \* the incoming channel's bound (1024)
    NewConnCap,     \* the new-connection channel's bound (4)
    MaxConns,       \* how many connections each lower peer opens to us
    MaxMsgs,        \* how many messages each peer sends us
    MaxSends,       \* how many send calls the application makes
    MaxFaults,      \* how many transports break
    Everyone        \* Recipient::Everyone (a model value)

ASSUME Me \in Peers /\ Peers \subseteq Nat

Others == Peers \ {Me}
\* connections.values(): the BTreeMap in peer id order
Order == SetToSortSeq(Others, <)
\* Recipient::Everyone or Recipient::Peer(p); a peer may be unknown
Recipients == {Everyone} \cup Peers

VARIABLES
    sm,         \* [Others -> state]: "disconnected", "connected", or
                \* "delivering" (awaiting incoming_sender.send)
    outgoing,   \* [Others -> Nat]: messages in the outgoing channel
    incoming,   \* [Others -> Nat]: messages in the incoming channel
    newConns,   \* [Others -> Nat]: connections in the bounded(4) channel
    router,     \* {} or {q}: the accepted connection of q the router is sending
    accepted,   \* [Others -> Nat]: connections accepted from that peer
    arrived,    \* [Others -> Nat]: messages that peer has sent us
    pending,    \* the links a send call has still to enqueue to, in order
    sends,      \* send calls made
    faults,     \* transports broken
    appOpen,    \* the ReconnectP2PConnections (and with it every link's
                \* outgoing sender and incoming receiver) is alive
    routerUp    \* the router task runs (it holds every connection_sender)

vars == <<sm, outgoing, incoming, newConns, router, accepted, arrived,
          pending, sends, faults, appOpen, routerUp>>

-----------------------------------------------------------------------------
(* The listener/router task                                                *)

\* listener.next() yields a connection authenticated as peer q.  Only a
\* lower id dials us (transition_disconnected's our_id < peer_id guard).
\* q dials while it has attempts left, and again whenever our end of the
\* link is down or its task has ended (q's own end is then down too, or
\* will be after its keepalive fails).
ListenerAccept(q) ==
    /\ routerUp
    /\ router = {}
    /\ q < Me
    /\ \/ accepted[q] < MaxConns
       \/ sm[q] = "disconnected" /\ newConns[q] = 0
       \/ sm[q] = "ended"
    /\ router' = {q}
    /\ accepted' = [accepted EXCEPT ![q] = IF @ < MaxConns THEN @ + 1 ELSE @]
    /\ UNCHANGED <<sm, outgoing, incoming, newConns, arrived, pending, sends, faults,
                   appOpen, routerUp>>

\* Mutant: the router uses try_send and breaks on a full channel too.
RouterForwardTrySend ==
    /\ \E q \in router :
          \/ /\ sm[q] # "ended" /\ newConns[q] < NewConnCap
             /\ newConns' = [newConns EXCEPT ![q] = @ + 1]
             /\ UNCHANGED routerUp
          \/ /\ sm[q] = "ended" \/ newConns[q] = NewConnCap
             /\ routerUp' = FALSE
             /\ UNCHANGED newConns
    /\ router' = {}
    /\ UNCHANGED <<sm, outgoing, incoming, accepted, arrived, pending, sends, faults,
                   appOpen>>

\* connection_senders[peer].send(connection).await: blocks while that
\* link's channel is full, and the router accepts nothing meanwhile.  The
\* send fails once that link's task has ended (its receiver is dropped):
\* the router breaks out of its loop and ends, dropping every sender.
RouterForward ==
    /\ \E q \in router :
          \/ /\ sm[q] # "ended" /\ newConns[q] < NewConnCap
             /\ newConns' = [newConns EXCEPT ![q] = @ + 1]
             /\ UNCHANGED routerUp
          \/ /\ sm[q] = "ended"
             /\ routerUp' = FALSE
             /\ UNCHANGED newConns
    /\ router' = {}
    /\ UNCHANGED <<sm, outgoing, incoming, accepted, arrived, pending, sends, faults,
                   appOpen>>

-----------------------------------------------------------------------------
(* One link's state machine (P2PConnectionSMCommon)                        *)

\* Mutant: the Connected select has no incoming_connections arm.
AcceptConnDisconnectedOnly(q) ==
    /\ sm[q] = "disconnected"
    /\ newConns[q] > 0
    /\ newConns' = [newConns EXCEPT ![q] = @ - 1]
    /\ \/ sm' = [sm EXCEPT ![q] = "connected"] /\ UNCHANGED faults
       \/ faults < MaxFaults /\ faults' = faults + 1 /\ UNCHANGED sm
    /\ UNCHANGED <<outgoing, incoming, router, accepted, arrived, pending, sends,
                   appOpen, routerUp>>

\* incoming_connections.recv() in either state, then connect(): the Ping
\* handshake either succeeds (Connected, superseding any transport) or
\* fails (disconnect()).
AcceptConn(q) ==
    /\ sm[q] \in {"disconnected", "connected"}
    /\ newConns[q] > 0
    /\ newConns' = [newConns EXCEPT ![q] = @ - 1]
    /\ \/ sm' = [sm EXCEPT ![q] = "connected"] /\ UNCHANGED faults
       \/ faults < MaxFaults /\ faults' = faults + 1
          /\ sm' = [sm EXCEPT ![q] = "disconnected"]
    /\ UNCHANGED <<outgoing, incoming, router, accepted, arrived, pending, sends,
                   appOpen, routerUp>>

\* The backoff timer, only for our_id < peer_id: connector.connect and the
\* Ping handshake succeed.  A failed attempt leaves the state as it was.
Reconnect(q) ==
    /\ sm[q] = "disconnected"
    /\ Me < q
    /\ sm' = [sm EXCEPT ![q] = "connected"]
    /\ UNCHANGED <<outgoing, incoming, newConns, router, accepted, arrived,
                   pending, sends, faults,
                   appOpen, routerUp>>

\* outgoing_receiver.recv() then send_message(): the message leaves the
\* channel whether the transport send succeeds or breaks the link.
SendOutgoing(q) ==
    /\ sm[q] = "connected"
    /\ outgoing[q] > 0
    /\ outgoing' = [outgoing EXCEPT ![q] = @ - 1]
    /\ \/ UNCHANGED <<sm, faults>>
       \/ faults < MaxFaults /\ faults' = faults + 1
          /\ sm' = [sm EXCEPT ![q] = "disconnected"]
    /\ UNCHANGED <<incoming, newConns, router, accepted, arrived, pending, sends,
                   appOpen, routerUp>>

\* connection.receive() yields a P2PMessage::Message: the state machine now
\* awaits incoming_sender.send, and nothing else, until there is room.
ReceiveMessage(q) ==
    /\ sm[q] = "connected"
    /\ arrived[q] < MaxMsgs
    /\ arrived' = [arrived EXCEPT ![q] = @ + 1]
    /\ sm' = [sm EXCEPT ![q] = "delivering"]
    /\ UNCHANGED <<outgoing, incoming, newConns, router, accepted, pending,
                   sends, faults,
                   appOpen, routerUp>>

Deliver(q) ==
    /\ sm[q] = "delivering"
    /\ appOpen
    /\ incoming[q] < InCap
    /\ incoming' = [incoming EXCEPT ![q] = @ + 1]
    /\ sm' = [sm EXCEPT ![q] = "connected"]
    /\ UNCHANGED <<outgoing, newConns, router, accepted, arrived, pending,
                   sends, faults,
                   appOpen, routerUp>>

\* connection.receive() fails: disconnect().
TransportFail(q) ==
    /\ sm[q] = "connected"
    /\ faults < MaxFaults
    /\ faults' = faults + 1
    /\ sm' = [sm EXCEPT ![q] = "disconnected"]
    /\ UNCHANGED <<outgoing, incoming, newConns, router, accepted, arrived,
                   pending, sends,
                   appOpen, routerUp>>

\* The 10 s keepalive Ping on a live transport.
Keepalive(q) ==
    /\ sm[q] = "connected"
    /\ UNCHANGED vars

\* Mutant: a closed outgoing channel is taken for a lost connection.
ConnectedClosedDisconnects(q) ==
    /\ \/ sm[q] = "connected" /\ ~appOpen /\ outgoing[q] = 0
          /\ sm' = [sm EXCEPT ![q] = "disconnected"]
       \/ sm[q] = "connected" /\ ~routerUp /\ newConns[q] = 0
          /\ sm' = [sm EXCEPT ![q] = "ended"]
       \/ sm[q] = "delivering" /\ ~appOpen
          /\ sm' = [sm EXCEPT ![q] = "ended"]
    /\ UNCHANGED <<outgoing, incoming, newConns, router, accepted, arrived,
                   pending, sends, faults, appOpen, routerUp>>

\* The .ok()? exits of transition_connected: outgoing_receiver.recv() fails
\* once the channel is closed and drained, incoming_connections.recv() once
\* the router's sender is dropped and the channel drained, and the awaited
\* incoming_sender.send once the application's receiver is dropped.  The
\* task ends (state_transition returns None).
ConnectedClosed(q) ==
    /\ \/ sm[q] = "connected" /\ ~appOpen /\ outgoing[q] = 0
       \/ sm[q] = "connected" /\ ~routerUp /\ newConns[q] = 0
       \/ sm[q] = "delivering" /\ ~appOpen
    /\ sm' = [sm EXCEPT ![q] = "ended"]
    /\ UNCHANGED <<outgoing, incoming, newConns, router, accepted, arrived,
                   pending, sends, faults, appOpen, routerUp>>

\* transition_disconnected races only incoming_connections.recv() (and the
\* backoff timer): the task ends once the router's sender is dropped, but
\* not when the application drops the link.
DisconnectedClosed(q) ==
    /\ sm[q] = "disconnected"
    /\ ~routerUp
    /\ newConns[q] = 0
    /\ sm' = [sm EXCEPT ![q] = "ended"]
    /\ UNCHANGED <<outgoing, incoming, newConns, router, accepted, arrived,
                   pending, sends, faults, appOpen, routerUp>>

-----------------------------------------------------------------------------
(* The application's calls                                                 *)

\* The links a send to r enqueues to: all of them in id order, one, or
\* none for an unknown peer (a warning, and the call returns).
Targets(r) ==
    IF r = Everyone THEN Order ELSE IF r \in Others THEN <<r>> ELSE <<>>

\* ReconnectP2PConnections::send(r) starts.
SendCall(r) ==
    /\ appOpen
    /\ pending = <<>>
    /\ sends < MaxSends
    /\ sends' = sends + 1
    /\ pending' = Targets(r)
    /\ UNCHANGED <<sm, outgoing, incoming, newConns, router, accepted, arrived, faults,
                   appOpen, routerUp>>

\* P2PConnection::send: outgoing.send(message).await, one link at a time.
LinkSend ==
    /\ pending # <<>>
    /\ outgoing[Head(pending)] < OutCap
    /\ outgoing' = [outgoing EXCEPT ![Head(pending)] = @ + 1]
    /\ pending' = Tail(pending)
    /\ UNCHANGED <<sm, incoming, newConns, router, accepted, arrived, sends, faults,
                   appOpen, routerUp>>

\* Mutant: try_send on an unbounded channel.
TryEnqueueUnbounded(q) == outgoing[q] + 1

\* P2PConnection::try_send: the message is dropped when the channel is full.
TryEnqueue(q) == IF outgoing[q] < OutCap THEN outgoing[q] + 1 ELSE outgoing[q]

\* ReconnectP2PConnections::try_send(r): never blocks.
TrySend(r) ==
    /\ appOpen
    /\ sends < MaxSends
    /\ sends' = sends + 1
    /\ outgoing' = [q \in Others |->
                      IF q \in Range(Targets(r)) THEN TryEnqueue(q) ELSE outgoing[q]]
    /\ UNCHANGED <<sm, incoming, newConns, router, accepted, arrived, pending, faults,
                   appOpen, routerUp>>

\* Mutant: select_all over the first connection only.
ReceiveFirstOnly ==
    /\ appOpen
    /\ incoming[Order[1]] > 0
    /\ incoming' = [incoming EXCEPT ![Order[1]] = @ - 1]
    /\ UNCHANGED <<sm, outgoing, newConns, router, accepted, arrived, pending,
                   sends, faults,
                   appOpen, routerUp>>

\* receive(): select_all polls the links' receive futures in id order, so
\* the lowest peer with a message wins.
Receive ==
    /\ appOpen
    /\ \E q \in Others :
          /\ incoming[q] > 0
          /\ \A p \in Others : p < q => incoming[p] = 0
          /\ incoming' = [incoming EXCEPT ![q] = @ - 1]
    /\ UNCHANGED <<sm, outgoing, newConns, router, accepted, arrived, pending,
                   sends, faults,
                   appOpen, routerUp>>

\* The consensus drops the ReconnectP2PConnections: every link's outgoing
\* sender and incoming receiver go with it, and a send call in progress is
\* dropped with its future.
AppDrop ==
    /\ appOpen
    /\ appOpen' = FALSE
    /\ pending' = <<>>
    /\ UNCHANGED <<sm, outgoing, incoming, newConns, router, accepted, arrived,
                   sends, faults, routerUp>>

-----------------------------------------------------------------------------

\* ReconnectP2PConnections::new: every link starts Disconnected with empty
\* channels, and the router waits on the listener.
Init ==
    /\ sm = [q \in Others |-> "disconnected"]
    /\ outgoing = [q \in Others |-> 0]
    /\ incoming = [q \in Others |-> 0]
    /\ newConns = [q \in Others |-> 0]
    /\ router = {}
    /\ accepted = [q \in Others |-> 0]
    /\ arrived = [q \in Others |-> 0]
    /\ pending = <<>>
    /\ sends = 0
    /\ faults = 0
    /\ appOpen = TRUE
    /\ routerUp = TRUE

\* The select arms of one link's state machine task.
LinkStep(q) ==
    \/ AcceptConn(q) \/ Reconnect(q) \/ SendOutgoing(q) \/ Deliver(q)
    \/ ReceiveMessage(q) \/ TransportFail(q) \/ Keepalive(q)
    \/ ConnectedClosed(q) \/ DisconnectedClosed(q)

Next ==
    \/ \E q \in Others : ListenerAccept(q) \/ LinkStep(q)
    \/ RouterForward
    \/ \E r \in Recipients : SendCall(r) \/ TrySend(r)
    \/ LinkSend
    \/ Receive
    \/ AppDrop

Spec == Init /\ [][Next]_vars

\* Every task is polled: each link's task, the router, the sending and the
\* receiving task.  tokio::select! picks a ready branch at random, so a
\* branch that stays ready is taken.  A lower peer keeps redialling a link
\* that is down (backoff never exhausts), and our own dial eventually
\* succeeds.  A closed channel stays closed, so its arm stays ready.
\* Messages from peers, sends, faults and the drop need not happen.
Fairness ==
    /\ \A q \in Others :
          /\ WF_vars(AcceptConn(q)) /\ WF_vars(Reconnect(q))
          /\ WF_vars(SendOutgoing(q)) /\ WF_vars(Deliver(q))
          /\ WF_vars(ConnectedClosed(q)) /\ WF_vars(DisconnectedClosed(q))
          /\ WF_vars(ListenerAccept(q) /\ sm[q] \in {"disconnected", "ended"})
    /\ WF_vars(RouterForward)
    /\ WF_vars(LinkSend)
    /\ WF_vars(Receive)

FairSpec == Spec /\ Fairness

-----------------------------------------------------------------------------
(* Properties                                                              *)

TypeOK ==
    /\ sm \in [Others -> {"disconnected", "connected", "delivering", "ended"}]
    /\ outgoing \in [Others -> 0..OutCap]
    /\ incoming \in [Others -> 0..InCap]
    /\ newConns \in [Others -> 0..NewConnCap]
    /\ router \in {{}} \cup {{q} : q \in Others}
    /\ pending \in Seq(Others)
    /\ faults \in 0..MaxFaults
    /\ appOpen \in BOOLEAN
    /\ routerUp \in BOOLEAN

\* The router awaits a send into one link's bounded(4) channel, holding up
\* every other peer's connections; still, every accepted connection is
\* eventually handed to its link, because no link's state machine waits on
\* the router or on another link: each drains its channel in both states.
RouterHandsOver == router # {} ~> router = {}

\* A send to everyone awaits each link's outgoing channel in id order, and
\* one full link stalls it before later peers get the message; still,
\* every send call returns, as each link reconnects and drains its channel
\* and the application keeps receiving, which unblocks a state machine
\* waiting in incoming_sender.send.
SendReturns == pending # <<>> ~> pending = <<>>

\* A link's task ends only on a closed channel, and the router only when a
\* send into an ended link fails; so, however the tasks interleave, none
\* of them ends while the ReconnectP2PConnections is alive, and no send of
\* the application waits on a channel that nobody drains any more.
TasksOutliveSet ==
    appOpen => routerUp /\ \A q \in Others : sm[q] # "ended"

\* Once the ReconnectP2PConnections is dropped, every task of the set ends
\* (the shutdown path of the spec's Termination clause): a Disconnected
\* link does not race its outgoing channel and ends only after it
\* reconnects or after the router ends, and the router ends only when a
\* lower peer redials one of the ended links.
TasksEnd ==
    ~appOpen ~> (~routerUp /\ \A q \in Others : sm[q] = "ended")

====
