CONSTANTS
    s1 = s1
    s2 = s2
    r1 = r1
    r2 = r2
    r3 = r3
    Servers <- MCServers
    RunIds <- MCRunIds
    MaxEnvSteps = 3
    MaxRestarts = 1

SPECIFICATION Spec

INVARIANT TypeOK
PROPERTY LiveEntriesConverge
PROPERTY DeadEntriesPruned
PROPERTY ViewFollowsNodeMap
