CONSTANTS
    Addrs <- MCAddrs
    ReplicasConfigured = TRUE
    PolicyKind = "roundRobin"
    W = 2
    MaxCalls = 1

SPECIFICATION Spec

INVARIANT RawWritesOnSource
