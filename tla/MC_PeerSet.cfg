\* CHECK_DEADLOCK FALSE: once the set is dropped and every task has ended
\* the node has stopped for good.
\* Node 1: peer 0 dials in, node 1 dials peer 2.  Channels of one message,
\* two messages per peer and two faults, so that a state machine waits in
\* incoming_sender.send while its outgoing channel is full and a send to
\* everyone waits on it.
CONSTANTS
    Peers <- MCPeers
    Me = 1
    OutCap = 1
    InCap = 1
    NewConnCap = 1
    MaxConns = 3
    MaxMsgs = 2
    MaxSends = 2
    MaxFaults = 2
    Everyone = Everyone
SPECIFICATION FairSpec
INVARIANT TypeOK
PROPERTY SendReturns
PROPERTY RouterHandsOver
INVARIANT TasksOutliveSet
PROPERTY TasksEnd
CHECK_DEADLOCK FALSE
