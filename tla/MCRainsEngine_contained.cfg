CONSTANTS
    Clients = {c1}
    ClientTokens = {t1, t2}
    FreshTokens = {f1, f2}
    PushToken = p0
    ZeroToken = z0
    QueryNames <- MCQueryNames
    Values <- MCValues
    Contents <- MCContentsSingle
    Windows <- MCWindowsNear
    AskedTypes = {3}
    QueryOptionSets <- MCOptionsPlain
    QueryExpiries = {2}
    SelfZones <- MCSelfZones
    ShardRanges <- MCShardRanges
    ZoneAnswers = FALSE
    MaxCacheAssertionValidity = 1
    MaxCacheShardValidity = 1
    MaxCacheZoneValidity = 1
    AssertionQueryValidity = 2
    AssertionCacheSize = 2
    NegativeAssertionCacheSize = 2
    PendingQueryCacheSize = 2
    MaxPushes = 0
    AssertWorkers = 1
    MaxTime = 3

SPECIFICATION Spec
INVARIANT CachesConsistent
