CONSTANTS
    Addrs <- MCAddrs
    ReplicasConfigured = TRUE
    PolicyKind = "roundRobin"
    W = 2
    MaxCalls = 4

SPECIFICATION Spec

INVARIANT RoundRobinIndexInRange
