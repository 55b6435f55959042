----------------------------- MODULE RainsEngine -----------------------------
(***************************************************************************)
(* The resolution engine of the rains server (rainsd/engine.go): the       *)
(* assertion cache, the negative-assertion cache, the pending-query cache, *)
(* the handlers `assert` (assertions, shards and zones) and `query`,       *)
(* handlePendingQueries and the reaper.                                    *)
(*                                                                         *)
(* Every handler is one atomic step: the caches are individually locked   *)
(* and every handler below touches each cache in one critical section.     *)
(* The caches themselves (assertion, negative, pending-query) are not in  *)
(* the repository's sources; their operations are modelled from the      *)
(* specification (sections 4.2 to 4.5) and marked so in the map.         *)
(*                                                                         *)
(* Around the engine: clients (rainsdig) send queries, one upstream       *)
(* server answers forwarded queries with messages of one or two sections  *)
(* that all carry the forwarded query's token, and the zone publisher     *)
(* pushes authoritative assertions of the zones this server serves.       *)
(***************************************************************************)
EXTENDS Naturals, FiniteSets, Sequences

CONSTANTS
    Clients,          \* client connections (ConnInfo of the senders)
    ClientTokens,     \* tokens clients put on their queries, one query each
    FreshTokens,      \* values token.New()/GenerateToken may return
    PushToken,        \* the token of a publisher's push message
    ZeroToken,        \* [16]byte{}, the token of a shard's or zone's content
    QueryNames,       \* fully qualified names, as sequences of labels
    Values,           \* object payloads
    Contents,         \* sorted object lists a section may carry
    Windows,          \* [from, until] signature validity windows
    AskedTypes,       \* object types clients query for
    QueryOptionSets,  \* option sets clients put on queries
    QueryExpiries,    \* query.Expires values clients choose
    SelfZones,        \* zones getDelegationAddress resolves to this server
    ShardRanges,      \* name ranges of the shards the delegate answers with
    ZoneAnswers,      \* whether the delegate also answers with zone sections
    MaxCacheAssertionValidity,
    MaxCacheShardValidity,
    MaxCacheZoneValidity,
    AssertionQueryValidity,
    AssertionCacheSize,
    NegativeAssertionCacheSize,
    PendingQueryCacheSize,
    MaxPushes,        \* bound on publisher pushes
    AssertWorkers,    \* goroutines running assert concurrently
    MaxTime           \* bound on the clock

\* object.Type values of the code (rainslib/objects.go)
OTIP6Addr == 2
OTIP4Addr == 3
QueryTypes == {OTIP6Addr, OTIP4Addr}

\* query options the engine reads
CachedAnswersOnly == "CachedAnswersOnly"
ExpiredAssertionsOk == "ExpiredAssertionsOk"
TokenTracing == "TokenTracing"

NoAssertionAvail == "NoAssertionAvail"

VARIABLES
    now,          \* time.Now().Unix()
    qInbox,       \* queries received and not yet handled
    sInbox,       \* verified sections received and not yet asserted
    aCache,       \* assertionsCache
    nCache,       \* negAssertionCache
    pending,      \* pendingQueries
    forwarded,    \* queries sent upstream and not yet answered
    usedFresh,    \* fresh tokens already handed out
    pushes,       \* number of publisher pushes so far
    issued,       \* queries the clients have sent (client side)
    answers,      \* sections sent back to clients
    notifs,       \* notifications sent back to clients
    nresp,        \* number of responses sent per client query (history)
    checked       \* sections a worker found consistent and has not yet cached

engineVars == <<aCache, nCache, pending, usedFresh>>
netVars == <<qInbox, sInbox, forwarded, pushes, checked>>
clientVars == <<issued, answers, notifs, nresp>>
vars == <<now, engineVars, netVars, clientVars>>

-----------------------------------------------------------------------------
(* Data *)

Object == [type : QueryTypes, value : Values]
Zones == {Tail(n) : n \in QueryNames}
Labels == {Head(n) : n \in QueryNames}
Times == Nat

AssertionSection ==
    [kind : {"assertion"}, zone : Zones, name : Labels, content : Contents,
     validFrom : Times, validUntil : Times]

\* a shard's name range [rangeFrom, rangeTo] is represented by the set of
\* labels it contains
ShardSection ==
    [kind : {"shard"}, zone : Zones, range : SUBSET Labels,
     content : Seq(AssertionSection), validFrom : Times, validUntil : Times]

ZoneSection ==
    [kind : {"zone"}, zone : Zones,
     content : Seq(AssertionSection \cup ShardSection),
     validFrom : Times, validUntil : Times]

Section == AssertionSection \cup ShardSection \cup ZoneSection

Query ==
    [tok : ClientTokens, from : Clients, name : QueryNames, type : QueryTypes,
     opts : QueryOptionSets, expires : QueryExpiries]

Token == ClientTokens \cup FreshTokens \cup {PushToken, ZeroToken}

\* assertionCacheValue plus the key it is stored under
CacheEntry ==
    [zone : Zones, name : Labels, type : QueryTypes, section : AssertionSection,
     validFrom : Times, validUntil : Times, auth : BOOLEAN]

\* negativeAssertionCacheValue plus the zone it is stored under
NegEntry ==
    [zone : Zones, section : ShardSection \cup ZoneSection,
     validFrom : Times, validUntil : Times, auth : BOOLEAN]

\* pendingQuerySetValue{connInfo, token, validUntil} plus its key; q is a
\* history field naming the client query the waiter was created for (the
\* code keeps no such field).
Waiter ==
    [zone : Zones, name : Labels, type : QueryTypes, connInfo : Clients,
     token : Token, validUntil : Times, q : ClientTokens]

ContentTypes(c) == {c[i].type : i \in DOMAIN c}

QueryOf(t) == CHOOSE q \in issued : q.tok = t

\* the names a shard or zone speaks for: a zone covers its whole namespace
Covers(s) == IF s.kind = "zone" THEN Labels ELSE s.range

\* the assertions a shard or zone lists, those of contained shards included
ContainedAssertions(s) ==
    LET direct == {s.content[i] : i \in DOMAIN s.content}
    IN  {x \in direct : x.kind = "assertion"}
        \cup UNION {{y.content[j] : j \in DOMAIN y.content} :
                        y \in {x \in direct : x.kind = "shard"}}

\* two assertions make the same statement about the same name
Equivalent(x, y) ==
    x.zone = y.zone /\ x.name = y.name /\ x.content = y.content

-----------------------------------------------------------------------------
(* Caches (from the specification: their code is not in the sources) *)

\* mutant: the expiry filter of Get is lost
AssertionCacheGetWithExpired(zone, name, type, expiredOk) ==
    {e \in aCache : e.zone = zone /\ e.name = name /\ e.type = type}

\* assertionCache.Get: entries under the key, expired ones only if asked for
AssertionCacheGet(zone, name, type, expiredOk) ==
    {e \in aCache : /\ e.zone = zone /\ e.name = name /\ e.type = type
                    /\ (expiredOk \/ e.validUntil >= now)}

\* negAssertionCache.Get: cached shards and zones of the zone whose range
\* contains the name (the contract has no expiry filter)
NegCacheGet(zone, name) ==
    {e \in nCache : e.zone = zone /\ name \in Covers(e.section)}

\* eviction on a full cache: a non-authoritative entry, an expired one first
EvictionCandidates(es) ==
    LET nonAuth == {e \in es : ~e.auth}
        expired == {e \in nonAuth : e.validUntil < now}
    IN  IF expired # {} THEN expired ELSE nonAuth

\* Add of both section caches, as the set of caches it may produce: the
\* entries `old` of the same section are replaced and their authority kept;
\* a full cache evicts a candidate, or drops the insert when every entry is
\* authoritative.
CacheInsert(C, old, new, size) ==
    LET kept == C \ old
        e == [new EXCEPT !.auth = @ \/ \E o \in old : o.auth]
    IN  IF Cardinality(kept) < size THEN {kept \cup {e}}
        ELSE IF EvictionCandidates(kept) = {} THEN {C}
        ELSE {(kept \ {v}) \cup {e} : v \in EvictionCandidates(kept)}

\* assertionCache.Add(context, zone, name, type, isAuthoritative, value)
AssertionCacheAdded(C, zone, name, type, auth, sec, from, until) ==
    CacheInsert(C, {e \in C : e.zone = zone /\ e.name = name /\ e.type = type
                              /\ e.section = sec},
                [zone |-> zone, name |-> name, type |-> type, section |-> sec,
                 validFrom |-> from, validUntil |-> until, auth |-> auth],
                AssertionCacheSize)

\* negAssertionCache.Add(context, zone, isAuthoritative, value)
NegCacheAdded(N, zone, auth, sec, from, until) ==
    CacheInsert(N, {e \in N : e.zone = zone /\ e.section = sec},
                [zone |-> zone, section |-> sec, validFrom |-> from,
                 validUntil |-> until, auth |-> auth],
                NegativeAssertionCacheSize)

\* pendingQueryCache.Add: a full cache rejects the insert
PendingAdd(w) ==
    pending' = IF Cardinality(pending) < PendingQueryCacheSize
               THEN pending \cup {w} ELSE pending

\* pendingQueryCache.GetAllAndDelete: the waiters stored under a token
PendingGetAll(P, token) == {w \in P : w.token = token}

\* isAssertionConsistent (specification 4.5): no cached assertion of the
\* subject holds an object of the same type with another value, and every
\* cached shard or zone covering the name lists an equivalent assertion
IsAssertionConsistent(a) ==
    /\ \A e \in aCache :
          (e.zone = a.zone /\ e.name = a.name) =>
              \A i \in DOMAIN a.content, j \in DOMAIN e.section.content :
                  a.content[i].type = e.section.content[j].type =>
                      a.content[i].value = e.section.content[j].value
    /\ \A n \in nCache :
          (n.zone = a.zone /\ a.name \in Covers(n.section)) =>
              \E b \in ContainedAssertions(n.section) : Equivalent(a, b)

\* isShardConsistent, isZoneConsistent (specification 4.5): every cached
\* assertion of a name in the range is listed by the section
IsShardConsistent(s) ==
    \A e \in aCache :
        (e.zone = s.zone /\ e.name \in Covers(s)) =>
            \E b \in ContainedAssertions(s) : Equivalent(e.section, b)

IsConsistent(sec) ==
    IF sec.kind = "assertion" THEN IsAssertionConsistent(sec)
    ELSE IsShardConsistent(sec)

\* getDelegationAddress compared with serverConnInfo
IsSelfDelegated(zone) == zone \in SelfZones

-----------------------------------------------------------------------------
(* Responses *)

SendQueryAnswer(sec, conn, token, q, path) ==
    /\ answers' = answers \cup
          {[q |-> q, to |-> conn, tok |-> token, path |-> path, sec |-> sec]}
    /\ nresp' = [nresp EXCEPT ![q] = @ + 1]

\* sendNotificationMsg(token, sender, type)
SendNotification(token, conn, q, ntype) ==
    /\ notifs' = notifs \cup
          {[q |-> q, to |-> conn, tok |-> token, ntype |-> ntype]}
    /\ nresp' = [nresp EXCEPT ![q] = @ + 1]

-----------------------------------------------------------------------------
(* engine.go *)

\* mutant: the whole name is taken as the zone (names[1:] forgotten)
GetZoneAndNameUnsplit(n) == [zone |-> n, name |-> Head(n)]

\* getZoneAndName: the first label is the name, the rest the zone
GetZoneAndName(n) == [zone |-> Tail(n), name |-> Head(n)]

\* mutant: validUntil is not cut to the cache bound
GetAssertionValidityUnclamped(a) ==
    IF a.validFrom > now + MaxCacheAssertionValidity
    THEN [validFrom |-> 0, validUntil |-> 0, ok |-> FALSE]
    ELSE [validFrom |-> a.validFrom, validUntil |-> a.validUntil, ok |-> TRUE]

\* the shape of getAssertionValidity, getShardValidity, getZoneValidity:
\* validFrom too far in the future yields (0, 0, false); validUntil is cut
\* to now + cap
ClampedValidity(s, cap) ==
    IF s.validFrom > now + cap
    THEN [validFrom |-> 0, validUntil |-> 0, ok |-> FALSE]
    ELSE [validFrom |-> s.validFrom,
          validUntil |-> IF s.validUntil > now + cap THEN now + cap
                         ELSE s.validUntil,
          ok |-> TRUE]

GetAssertionValidity(a) == ClampedValidity(a, MaxCacheAssertionValidity)

\* mutant: getShardValidity copied from getZoneValidity with its bound
GetShardValidityZoneCap(s) == ClampedValidity(s, MaxCacheZoneValidity)

GetShardValidity(s) == ClampedValidity(s, MaxCacheShardValidity)

GetZoneValidity(z) == ClampedValidity(z, MaxCacheZoneValidity)

\* mutant: the waiters are read but not deleted
HandlePendingQueriesKeep(P, sec, token) ==
    LET live == {w \in PendingGetAll(P, token) : w.validUntil > now}
    IN  /\ pending' = P
        /\ answers' = answers \cup
              {[q |-> w.q, to |-> w.connInfo, tok |-> w.token,
                path |-> "pending", sec |-> sec] : w \in live}
        /\ nresp' = [t \in ClientTokens |->
                        nresp[t] + Cardinality({w \in live : w.q = t})]
        /\ UNCHANGED notifs

\* handlePendingQueries on the pending cache P: take every waiter of the
\* token; answer the ones whose validUntil has not passed, drop the others
HandlePendingQueries(P, sec, token) ==
    LET ws == PendingGetAll(P, token)
        live == {w \in ws : w.validUntil > now}
    IN  /\ pending' = P \ ws
        /\ answers' = answers \cup
              {[q |-> w.q, to |-> w.connInfo, tok |-> w.token,
                path |-> "pending", sec |-> sec] : w \in live}
        /\ nresp' = [t \in ClientTokens |->
                        nresp[t] + Cardinality({w \in live : w.q = t})]
        /\ UNCHANGED notifs

\* assertAssertion on caches C and P, as the set of [assertion cache,
\* pending cache, returned ok] it may produce; the assertion is cached under
\* the type of its first object only
AssertAssertionOutcomes(C, P, a, auth, token) ==
    LET v == GetAssertionValidity(a)
    IN  IF v.ok
        THEN {[ac |-> c, pq |-> P, ok |-> TRUE] :
                c \in AssertionCacheAdded(C, a.zone, a.name, a.content[1].type,
                                          auth, a, v.validFrom, v.validUntil)}
        ELSE IF v.validFrom < now
        THEN {[ac |-> C, pq |-> P \ PendingGetAll(P, token), ok |-> FALSE]}
        ELSE {[ac |-> C, pq |-> P, ok |-> TRUE]}

\* the loop of assertShard over its content: assertAssertion with the zero
\* token for each contained assertion, in order, its result ignored
RECURSIVE AssertShardContent(_, _, _, _)
AssertShardContent(C, P, seq, auth) ==
    IF seq = <<>> THEN {[ac |-> C, pq |-> P]}
    ELSE UNION {AssertShardContent(o.ac, o.pq, Tail(seq), auth) :
                    o \in AssertAssertionOutcomes(C, P, Head(seq), auth, ZeroToken)}

\* assertShard on caches C, N and P
AssertShardOutcomes(C, N, P, s, auth, token) ==
    LET v == GetShardValidity(s)
    IN  IF v.ok
        THEN UNION {{[ac |-> o.ac, nc |-> n, pq |-> o.pq, ok |-> TRUE] :
                        o \in AssertShardContent(C, P, s.content, auth)} :
                    n \in NegCacheAdded(N, s.zone, auth, s, v.validFrom, v.validUntil)}
        ELSE IF v.validFrom < now
        THEN {[ac |-> C, nc |-> N, pq |-> P \ PendingGetAll(P, token), ok |-> FALSE]}
        ELSE {[ac |-> C, nc |-> N, pq |-> P, ok |-> TRUE]}

\* the loop of assertZone over its content: assertAssertion or assertShard
\* with the zero token, in order, results ignored
RECURSIVE AssertZoneContent(_, _, _, _, _)
AssertZoneContent(C, N, P, seq, auth) ==
    IF seq = <<>> THEN {[ac |-> C, nc |-> N, pq |-> P]}
    ELSE LET x == Head(seq)
             os == IF x.kind = "assertion"
                   THEN {[ac |-> o.ac, nc |-> N, pq |-> o.pq] :
                           o \in AssertAssertionOutcomes(C, P, x, auth, ZeroToken)}
                   ELSE AssertShardOutcomes(C, N, P, x, auth, ZeroToken)
         IN  UNION {AssertZoneContent(o.ac, o.nc, o.pq, Tail(seq), auth) : o \in os}

\* assertZone on caches C, N and P
AssertZoneOutcomes(C, N, P, z, auth, token) ==
    LET v == GetZoneValidity(z)
    IN  IF v.ok
        THEN UNION {{[ac |-> o.ac, nc |-> o.nc, pq |-> o.pq, ok |-> TRUE] :
                        o \in AssertZoneContent(C, n, P, z.content, auth)} :
                    n \in NegCacheAdded(N, z.zone, auth, z, v.validFrom, v.validUntil)}
        ELSE IF v.validFrom < now
        THEN {[ac |-> C, nc |-> N, pq |-> P \ PendingGetAll(P, token), ok |-> FALSE]}
        ELSE {[ac |-> C, nc |-> N, pq |-> P, ok |-> TRUE]}

\* assert, after the consistency check passed: assertAssertion,
\* assertShard or assertZone, then, unless the section was dropped,
\* handleAssertion or handlePendingQueries for its token; the caches are
\* read now, not as the check saw them
Assert(sec, auth, token) ==
    LET os == CASE sec.kind = "assertion" ->
                     {[ac |-> o.ac, nc |-> nCache, pq |-> o.pq, ok |-> o.ok] :
                        o \in AssertAssertionOutcomes(aCache, pending, sec, auth, token)}
                [] sec.kind = "shard" ->
                     AssertShardOutcomes(aCache, nCache, pending, sec, auth, token)
                [] sec.kind = "zone" ->
                     AssertZoneOutcomes(aCache, nCache, pending, sec, auth, token)
    IN  \E o \in os :
              /\ aCache' = o.ac
              /\ nCache' = o.nc
              /\ IF o.ok THEN HandlePendingQueries(o.pq, sec, token)
                 ELSE /\ pending' = o.pq
                      /\ UNCHANGED clientVars

\* mutant: the query's own expiration is ignored
PendingDeadlineNoExpires(q) == now + AssertionQueryValidity

\* the deadline of a forwarded query: now + AssertionQueryValidity, lowered
\* to the query's own expiration
PendingDeadline(q) ==
    IF q.expires < now + AssertionQueryValidity
    THEN q.expires ELSE now + AssertionQueryValidity

\* query, first loop: an entry of the assertion cache answers the query
QueryAnswerFromCache(q) ==
    LET zn == GetZoneAndName(q.name)
        hits == AssertionCacheGet(zn.zone, zn.name, q.type,
                                  ExpiredAssertionsOk \in q.opts)
    IN  /\ hits # {}
        /\ \E e \in hits : SendQueryAnswer(e.section, q.from, q.tok, q.tok, "cache")
        /\ UNCHANGED <<notifs, aCache, pending, usedFresh, forwarded>>

\* query: both loops find nothing
AssertionMiss(q) ==
    LET zn == GetZoneAndName(q.name)
    IN  AssertionCacheGet(zn.zone, zn.name, q.type,
                          ExpiredAssertionsOk \in q.opts) = {}

\* query, second loop: a cached shard or zone covering the name answers it
QueryAnswerFromNegCache(q) ==
    LET zn == GetZoneAndName(q.name)
    IN  /\ AssertionMiss(q)
        /\ \E e \in NegCacheGet(zn.zone, zn.name) :
              SendQueryAnswer(e.section, q.from, q.tok, q.tok, "negcache")
        /\ UNCHANGED <<notifs, aCache, pending, usedFresh, forwarded>>

QueryMiss(q) ==
    LET zn == GetZoneAndName(q.name)
    IN  AssertionMiss(q) /\ NegCacheGet(zn.zone, zn.name) = {}

\* query: a miss and the CachedAnswersOnly option
QueryCachedOnlyMiss(q) ==
    /\ QueryMiss(q)
    /\ CachedAnswersOnly \in q.opts
    /\ SendNotification(q.tok, q.from, q.tok, NoAssertionAvail)
    /\ UNCHANGED <<answers, aCache, pending, usedFresh, forwarded>>

\* query: a miss in a zone this server is authoritative for
QuerySelfDelegated(q) ==
    /\ QueryMiss(q)
    /\ CachedAnswersOnly \notin q.opts
    /\ IsSelfDelegated(GetZoneAndName(q.name).zone)
    /\ SendNotification(q.tok, q.from, q.tok, NoAssertionAvail)
    /\ UNCHANGED <<answers, aCache, pending, usedFresh, forwarded>>

\* the loop body of query past the delegate check: the waiter is stored
\* under the outbound token (the client's token if TokenTracing, else a fresh
\* one), with validUntil bounded by the query's expiry, and the query is sent
ForwardToDelegate(q) ==
    LET zn == GetZoneAndName(q.name)
    IN  /\ \E token \in IF TokenTracing \in q.opts THEN {q.tok}
                        ELSE FreshTokens \ usedFresh :
             /\ usedFresh' = usedFresh \cup ({token} \cap FreshTokens)
             /\ PendingAdd([zone |-> zn.zone, name |-> zn.name, type |-> q.type,
                            connInfo |-> q.from, token |-> token,
                            validUntil |-> PendingDeadline(q), q |-> q.tok])
             /\ forwarded' = forwarded \cup
                   {[zone |-> zn.zone, name |-> zn.name, type |-> q.type,
                     token |-> token, q |-> q.tok]}
        /\ UNCHANGED <<aCache, clientVars>>

\* mutant: the CachedAnswersOnly check is missing before forwarding
QueryForwardIgnoringCachedOnly(q) ==
    /\ QueryMiss(q)
    /\ ~IsSelfDelegated(GetZoneAndName(q.name).zone)
    /\ ForwardToDelegate(q)

\* query: a miss of a query that may be forwarded, in a zone delegated to
\* another server
QueryForward(q) ==
    /\ QueryMiss(q)
    /\ CachedAnswersOnly \notin q.opts
    /\ ~IsSelfDelegated(GetZoneAndName(q.name).zone)
    /\ ForwardToDelegate(q)

\* mutant: reapEngine without pendingQueries.RemoveExpiredValues()
ReapWithoutPending ==
    /\ aCache' = {e \in aCache : e.validUntil >= now}
    /\ nCache' = {e \in nCache : e.validUntil >= now}
    /\ UNCHANGED <<pending, notifs, nresp>>
    /\ UNCHANGED <<now, usedFresh, netVars, issued, answers>>

\* reapEngine: drop expired entries of every cache; the pending-query cache
\* notifies each expired waiter with NoAssertionAvail (specification 4.4)
Reap ==
    LET expired == {w \in pending : w.validUntil < now}
    IN  /\ aCache' = {e \in aCache : e.validUntil >= now}
        /\ nCache' = {e \in nCache : e.validUntil >= now}
        /\ pending' = pending \ expired
        /\ notifs' = notifs \cup
              {[q |-> w.q, to |-> w.connInfo, tok |-> w.token,
                ntype |-> NoAssertionAvail] : w \in expired}
        /\ nresp' = [t \in ClientTokens |->
                        nresp[t] + Cardinality({w \in expired : w.q = t})]
        /\ UNCHANGED <<now, usedFresh, netVars, issued, answers>>

-----------------------------------------------------------------------------
(* Steps *)

Init ==
    /\ now = 1   \* unix time: never 0
    /\ qInbox = {} /\ sInbox = {}
    /\ aCache = {} /\ nCache = {} /\ pending = {}
    /\ forwarded = {} /\ usedFresh = {} /\ pushes = 0 /\ checked = {}
    /\ issued = {} /\ answers = {} /\ notifs = {}
    /\ nresp = [t \in ClientTokens |-> 0]

\* rainsdig main: util.NewQueryMessage with a new token t and options o,
\* sent from connection c with expiry e
ClientSendQueryWith(t, c, e, o) ==
    \E n \in QueryNames, ty \in AskedTypes :
        LET q == [tok |-> t, from |-> c, name |-> n, type |-> ty,
                  opts |-> o, expires |-> e]
        IN  /\ t \notin {x.tok : x \in issued}
            /\ issued' = issued \cup {q}
            /\ qInbox' = qInbox \cup {q}
            /\ UNCHANGED <<now, engineVars, sInbox, forwarded, pushes, checked,
                           answers, notifs, nresp>>

ClientSendQuery(t, c, e) ==
    \E o \in QueryOptionSets : ClientSendQueryWith(t, c, e, o)

ClientSend ==
    \E t \in ClientTokens, c \in Clients, e \in QueryExpiries :
        ClientSendQuery(t, c, e)

HandleQuery ==
    \E q \in qInbox :
        /\ qInbox' = qInbox \ {q}
        /\ \/ QueryAnswerFromCache(q)
           \/ QueryAnswerFromNegCache(q)
           \/ QueryCachedOnlyMiss(q)
           \/ QuerySelfDelegated(q)
           \/ QueryForward(q)
        /\ UNCHANGED <<now, nCache, sInbox, pushes, issued, checked>>

\* a worker takes a section and runs the consistency check of assert on
\* a snapshot of the caches (specification 5): an inconsistent section is
\* dropped, a consistent one goes on to be cached
CheckSection ==
    \E m \in sInbox :
        /\ Cardinality(checked) < AssertWorkers
        /\ sInbox' = sInbox \ {m}
        /\ checked' = IF IsConsistent(m.sec) THEN checked \cup {m} ELSE checked
        /\ UNCHANGED <<now, engineVars, qInbox, forwarded, pushes, clientVars>>

\* the same worker caches the section and wakes its waiters; other workers,
\* queries and the reaper may have run since its check
CommitSection ==
    \E m \in checked :
        /\ checked' = checked \ {m}
        /\ Assert(m.sec, m.auth, m.token)
        /\ UNCHANGED <<now, usedFresh, qInbox, sInbox, forwarded, pushes, issued>>

\* the sections the delegate may answer a forwarded query with: assertions
\* of the queried name, shards of a range containing it that list at most
\* one assertion, and (if ZoneAnswers) zones listing one such assertion or
\* shard; contained sections share the validity window of their container
AnswerSections(f) ==
    LET asn(c, w) == [kind |-> "assertion", zone |-> f.zone, name |-> f.name,
                      content |-> c, validFrom |-> w.from, validUntil |-> w.until]
        shd(r, cs, w) == [kind |-> "shard", zone |-> f.zone, range |-> r,
                          content |-> cs, validFrom |-> w.from,
                          validUntil |-> w.until]
        shards(w) == {shd(r, cs, w) : r \in {r \in ShardRanges : f.name \in r},
                                      cs \in {<<>>} \cup {<<asn(c, w)>> : c \in Contents}}
        zones(w) == {[kind |-> "zone", zone |-> f.zone, content |-> <<x>>,
                      validFrom |-> w.from, validUntil |-> w.until] :
                        x \in {asn(c, w) : c \in Contents} \cup shards(w)}
    IN  UNION {{asn(c, w) : c \in Contents} \cup shards(w)
                 \cup (IF ZoneAnswers THEN zones(w) ELSE {}) : w \in Windows}

\* the delegate answers a forwarded query with a message of one or two
\* sections, all carrying its token
UpstreamAnswer ==
    \E f \in forwarded : \E s1, s2 \in AnswerSections(f) :
        /\ forwarded' = forwarded \ {f}
        /\ sInbox' = sInbox \cup {[sec |-> s, token |-> f.token, auth |-> FALSE] :
                                    s \in {s1, s2}}
        /\ UNCHANGED <<now, engineVars, qInbox, pushes, checked, clientVars>>

\* the publisher pushes an assertion of a zone this server is authoritative for
Push ==
    \E n \in QueryNames, c \in Contents, w \in Windows :
        /\ pushes < MaxPushes
        /\ Tail(n) \in SelfZones
        /\ pushes' = pushes + 1
        /\ sInbox' = sInbox \cup
              {[sec |-> [kind |-> "assertion", zone |-> Tail(n),
                         name |-> Head(n), content |-> c,
                         validFrom |-> w.from, validUntil |-> w.until],
                token |-> PushToken, auth |-> TRUE]}
        /\ UNCHANGED <<now, engineVars, qInbox, forwarded, checked, clientVars>>

Tick ==
    /\ now < MaxTime
    /\ now' = now + 1
    /\ UNCHANGED <<engineVars, netVars, clientVars>>

\* the clock bound is reached and no message is left: the server idles
Idle ==
    /\ now = MaxTime
    /\ qInbox = {} /\ sInbox = {} /\ checked = {}
    /\ UNCHANGED vars

Next ==
    \/ ClientSend
    \/ HandleQuery
    \/ CheckSection
    \/ CommitSection
    \/ UpstreamAnswer
    \/ Push
    \/ Reap
    \/ Tick
    \/ Idle

Spec == Init /\ [][Next]_vars

-----------------------------------------------------------------------------
(* Properties *)

TypeOK ==
    /\ now \in 1 .. MaxTime
    /\ qInbox \subseteq Query /\ issued \subseteq Query
    /\ sInbox \subseteq [sec : Section, token : Token, auth : BOOLEAN]
    /\ checked \subseteq [sec : Section, token : Token, auth : BOOLEAN]
    /\ aCache \subseteq CacheEntry
    /\ nCache \subseteq NegEntry
    /\ pending \subseteq Waiter
    /\ forwarded \subseteq [zone : Zones, name : Labels, type : QueryTypes,
                            token : Token, q : ClientTokens]
    /\ usedFresh \subseteq FreshTokens
    /\ pushes \in 0 .. MaxPushes
    /\ answers \subseteq [q : ClientTokens, to : Clients, tok : Token,
                          path : {"cache", "negcache", "pending"}, sec : Section]
    /\ notifs \subseteq [q : ClientTokens, to : Clients, tok : Token,
                         ntype : {NoAssertionAvail}]
    /\ nresp \in [ClientTokens -> Nat]

\* A client query gets at most one response: handlePendingQueries takes the
\* waiters of a token with GetAllAndDelete, so neither the second section of
\* an upstream message nor the reaper can answer a waiter again.
AtMostOneResponse == \A t \in ClientTokens : nresp[t] <= 1

\* An answer relayed through the pending-query cache is sent before the
\* client's query expires: query() bounds the waiter's validUntil by
\* query.Expires and handlePendingQueries drops waiters past validUntil.
AnswerBeforeQueryExpiry ==
    [][\A a \in answers' \ answers :
          a.path = "pending" => now < QueryOf(a.q).expires]_vars

\* Nothing is cached whose validity starts, or ends, later than now plus the
\* cap of its kind (getAssertionValidity, getShardValidity, getZoneValidity;
\* specification 8: validUntil <= now + maxCap[kind(S)]), also for the
\* assertions inside a shard or zone.
Cap(sec) ==
    CASE sec.kind = "assertion" -> MaxCacheAssertionValidity
      [] sec.kind = "shard"     -> MaxCacheShardValidity
      [] sec.kind = "zone"      -> MaxCacheZoneValidity

ValidityClamped ==
    [][\A e \in (aCache' \ aCache) \cup (nCache' \ nCache) :
          /\ e.validFrom <= now + Cap(e.section)
          /\ e.validUntil <= now + Cap(e.section)]_vars

\* A query with CachedAnswersOnly is settled by query alone, whatever ran
\* since: once handled, it has had exactly one response (a cached answer or
\* NoAssertionAvail, then query returns), and it has no waiter in the
\* pending-query cache and no query outstanding at the delegate.
CachedOnlySettledLocally ==
    \A q \in issued \ qInbox :
        CachedAnswersOnly \in q.opts =>
            /\ nresp[q.tok] = 1
            /\ \A w \in pending : w.q # q.tok
            /\ \A f \in forwarded : f.q # q.tok

\* Every waiter in the pending-query cache is eventually removed (by an
\* answer or by the reaper): the cache does not leak.
PendingEventuallyCleared ==
    \A t \in ClientTokens :
        (\E w \in pending : w.q = t) ~> ~(\E w \in pending : w.q = t)

\* A handled query is answered, or still has a waiter that will be answered
\* or notified (specification section 7: waiters of a dropped response, of an
\* upstream timeout, and of a full pending cache are told NoAssertionAvail).
EveryQueryAnswerable ==
    \A q \in issued :
        \/ q \in qInbox
        \/ nresp[q.tok] > 0
        \/ \E w \in pending : w.q = q.tok

\* The two section caches never contradict each other: a cached assertion
\* of a name that a cached shard or zone covers is listed by it (the
\* statement section 4.5 has the consistency checker maintain; assertShard
\* and assertZone cache their content with assertAssertion, bypassing it).
CachesConsistent ==
    \A n \in nCache, e \in aCache :
        (e.zone = n.zone /\ e.name \in Covers(n.section)) =>
            \E b \in ContainedAssertions(n.section) : Equivalent(e.section, b)


=============================================================================
