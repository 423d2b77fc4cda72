CONSTANTS
    Addrs <- MCAddrs
    ReplicasConfigured = TRUE
    PolicyKind = "roundRobin"
    W = 2
    MaxCalls = 3

SPECIFICATION Spec

INVARIANT TypeOK
INVARIANT StructuredWritesOnSource
