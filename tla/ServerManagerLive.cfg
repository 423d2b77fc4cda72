CONSTANTS
    a1 = a1
    a2 = a2
    hs = hs
    hr = hr
    hr2 = hr2
    Addrs <- MCAddrs
    Hosts <- MCHostsLive
    HostRole <- MCHostRoleLive
    HostAnswers <- MCHostAnswersLive
    StaticAddrs <- MCStaticReplica
    MaxHealthCheckRetry = 1
    MaxGen = 1
    MaxInstances = 2

SPECIFICATION Spec

PROPERTY EvictionOrRecovery
PROPERTY ReadyOnceBackendsUp
