\* The status channel against the state machine's state (scenario 2).
CONSTANTS
    Peers <- MCPeers
    MaxConns = 2
    MaxFaults = 1
    MaxMsgs = 1
    WireCap = 2
    OutCap = 1
    InCap = 1
    NewConnCap = 4
SPECIFICATION Spec
INVARIANT StatusMatchesState
