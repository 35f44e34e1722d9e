\* One link, two faults (a failed connect, a broken transport, silent or
\* not), one message each way: the liveness run.
CONSTANTS
    Peers <- MCPeers
    MaxConns = 3
    MaxFaults = 2
    MaxMsgs = 1
    WireCap = 2
    OutCap = 1
    InCap = 1
    NewConnCap = 4
SPECIFICATION FairSpec
PROPERTY LinksEventuallyUp
