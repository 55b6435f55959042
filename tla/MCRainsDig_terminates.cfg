CONSTANTS
    Clients <- MCDigClients
    ClientTokens = {t1, t2}
    FreshTokens = {f1, f2}
    PushToken = p0
    ZeroToken = z0
    QueryNames <- MCQueryNames
    Values <- MCValues
    Contents <- MCContentsOne
    Windows <- MCWindowsNear
    AskedTypes = {3}
    QueryOptionSets <- MCDigOptionSets
    QueryExpiries <- MCDigExpiries
    SelfZones <- MCSelfZones
    ShardRanges <- MCNoShards
    ZoneAnswers = FALSE
    MaxCacheAssertionValidity = 1
    MaxCacheShardValidity = 1
    MaxCacheZoneValidity = 1
    AssertionQueryValidity = 2
    AssertionCacheSize = 1
    NegativeAssertionCacheSize = 1
    PendingQueryCacheSize = 2
    MaxPushes = 0
    AssertWorkers = 2
    MaxTime = 5
    DigTimeout = 2
    DigArgs <- MCDigArgs

SPECIFICATION DigSpec
INVARIANT DigTypeOK
INVARIANT TracedNoMismatch
PROPERTY DigTerminates
PROPERTY PendingEventuallyCleared
