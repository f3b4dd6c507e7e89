CONSTANTS
    Payloads <- DisjointPayloads
    Frames = {"sound"}
    MaxConns = 3
    MaxSubs = 1
SPECIFICATION MCSpec
INVARIANTS
    ListenUntilDisconnect
