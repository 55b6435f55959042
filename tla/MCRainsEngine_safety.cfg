CONSTANTS
    Clients = {c1}
    ClientTokens = {t1, t2}
    FreshTokens = {f1, f2}
    PushToken = p0
    ZeroToken = z0
    QueryNames <- MCQueryNames
    Values <- MCValues
    Contents <- MCContentsSingle
    Windows <- MCWindowsFar
    AskedTypes = {3}
    QueryOptionSets <- MCQueryOptionSets
    QueryExpiries = {2}
    SelfZones <- MCSelfZones
    ShardRanges <- MCNoShards
    ZoneAnswers = FALSE
    MaxCacheAssertionValidity = 1
    MaxCacheShardValidity = 1
    MaxCacheZoneValidity = 1
    AssertionQueryValidity = 2
    AssertionCacheSize = 1
    NegativeAssertionCacheSize = 1
    PendingQueryCacheSize = 2
    MaxPushes = 1
    AssertWorkers = 1
    MaxTime = 3

SPECIFICATION Spec
INVARIANT TypeOK
INVARIANT AtMostOneResponse
INVARIANT CachedOnlySettledLocally
PROPERTY AnswerBeforeQueryExpiry
PROPERTY ValidityClamped
