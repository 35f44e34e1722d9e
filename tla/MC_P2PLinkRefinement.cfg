\* One link with two messages each way, wire 3, outgoing 2, and a single
\* network fault (a broken transport or a failed connect), which is enough
\* for a reconnection, a stale accepted connection superseding the live one,
\* and a message lost with a failed send.
CONSTANTS
    Peers <- MCPeers
    MaxConns = 3
    MaxFaults = 1
    MaxMsgs = 2
    WireCap = 3
    OutCap = 2
    InCap = 1
    NewConnCap = 4
SPECIFICATION Spec
INVARIANT TypeOK
INVARIANT AtMostOneLiveTransport
PROPERTY ImplementsLinkSpec
