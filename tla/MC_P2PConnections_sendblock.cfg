\* No faults; two messages each way, more than a transport buffers in one
\* direction (WireCap = 2 with the handshake Ping).  Both ends may end up
\* awaiting a transport send, which is the behaviour under study, so
\* deadlock is reported through SendCompletes rather than as a deadlock.
CONSTANTS
    Peers <- MCPeers
    MaxConns = 1
    MaxFaults = 0
    MaxMsgs = 2
    WireCap = 2
    OutCap = 2
    InCap = 1
    NewConnCap = 4
SPECIFICATION FairSpec
PROPERTY SendCompletes
CHECK_DEADLOCK FALSE
