CONSTANTS
    g1 = g1
    en = en
    fr = fr
    enUS = enUS
    k1 = k1
    k2 = k2
    v1 = v1
    v2 = v2
    absent = absent
    noConfig = noConfig
    malformed = malformed
    noTranslator = noTranslator
    TeamID = g1
    TeamIDs <- MCTeamIDs
    Locales <- MCLocales
    Keys <- MCKeys
    Values <- MCValues
    Absent = absent
    NoConfig = noConfig
    MaxPublish = 2
    MaxInit = 1
    Malformed = malformed
    SdkMayFail = TRUE
    MissingAtStart = TRUE
    Tags <- MCTags
    DefaultLocale = fr
    Headers <- MCHeaders
    NoTranslator = noTranslator
    n0 = n0
    n1 = n1
    nneg = nneg
    nx = nx
    lit = lit
    a1 = a1
    a2 = a2
    pct = pct
    notInt = notInt
    failed = failed
    Names <- MCNames
    Atoi <- MCAtoi
    NotInt = notInt
    Lits <- MCLits
    ArgVals <- MCArgVals
    Pct = pct
    Failed = failed

SPECIFICATION Spec

INVARIANT FormatMatchesReference

PROPERTY CacheOnlyGrows
PROPERTY FallbackWhileUpdating
PROPERTY CacheConverges
CHECK_DEADLOCK FALSE
