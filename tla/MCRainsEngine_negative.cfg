CONSTANTS
    Clients = {c1}
    ClientTokens = {t1, t2}
    FreshTokens = {f1}
    PushToken = p0
    ZeroToken = z0
    QueryNames <- MCQueryNames
    Values <- MCValues
    Contents <- MCContentsOne
    Windows <- MCWindowsFar
    AskedTypes = {3}
    QueryOptionSets <- MCOptionsPlain
    QueryExpiries = {2}
    SelfZones <- MCSelfZones
    ShardRanges <- MCShardRanges
    ZoneAnswers = TRUE
    MaxCacheAssertionValidity = 1
    MaxCacheShardValidity = 2
    MaxCacheZoneValidity = 6
    AssertionQueryValidity = 2
    AssertionCacheSize = 1
    NegativeAssertionCacheSize = 1
    PendingQueryCacheSize = 2
    MaxPushes = 0
    AssertWorkers = 2
    MaxTime = 4

SPECIFICATION Spec
INVARIANT AtMostOneResponse
PROPERTY ValidityClamped
