CONSTANTS
    a1 = a1
    a2 = a2
    hs = hs
    hr = hr
    hr2 = hr2
    Addrs <- MCAddrs
    Hosts <- MCHosts
    HostRole <- MCHostRole
    HostAnswers <- MCHostAnswers
    StaticAddrs <- MCStaticAddrs
    MaxHealthCheckRetry = 1
    MaxGen = 2
    MaxInstances = 3

SPECIFICATION Spec

INVARIANT RoutableInstancesOpen
