CONSTANTS
    d1 = d1
    d2 = d2
    cGlobal = cGlobal
    cOrders = cOrders
    cSame = cSame
    cUsers = cUsers
    cGlobal2 = cGlobal2
    unparsable = unparsable
    DRs <- MCDRs
    Cfgs <- MCCfgs
    Conf <- MCConf
    Tables <- MCTables
    Unparsable = unparsable
    MaxRegister = 3
    MaxClose = 2

SPECIFICATION Spec

INVARIANT TeardownClosesStarted
CHECK_DEADLOCK FALSE
