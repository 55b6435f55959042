---------------------------- MODULE MCRainsEngine ----------------------------
(***************************************************************************)
(* Instantiation of RainsEngine for TLC.  Two names: ethz.ch, delegated to *)
(* an upstream server, and www.own, of a zone this server serves itself.  *)
(* Object payloads v1 and v2 make contradicting assertions possible; the  *)
(* content <<IP6 v1, IP4 v1>> is an assertion with two object types,      *)
(* sorted as the code sorts objects (by type: OTIP6Addr < OTIP4Addr).      *)
(***************************************************************************)
EXTENDS RainsEngine

MCQueryNames == {<<"ethz", "ch">>, <<"www", "own">>}
MCSelfZones == {<<"own">>}
MCValues == {"v1", "v2"}

ip4(v) == [type |-> OTIP4Addr, value |-> v]
ip6(v) == [type |-> OTIP6Addr, value |-> v]

\* one object; two types; a payload contradicting the first
MCContents == {<<ip4("v1")>>, <<ip6("v1"), ip4("v1")>>, <<ip4("v2")>>}
MCContentsSingle == {<<ip4("v1")>>, <<ip4("v2")>>}
MCContentsOne == {<<ip4("v1")>>}

\* a window inside the cache bound, one past it, one too far in the future
MCWindows == {[from |-> 1, until |-> 3], [from |-> 1, until |-> 9],
              [from |-> 7, until |-> 9]}
MCWindowsFar == {[from |-> 1, until |-> 9], [from |-> 7, until |-> 9]}
MCWindowsNear == {[from |-> 1, until |-> 9]}
MCWindowsFuture == {[from |-> 7, until |-> 9]}

\* shard ranges: none, or the one label of the delegated zone
MCNoShards == {}
MCShardRanges == {{"ethz"}}

MCQueryOptionSets == {{}, {TokenTracing}, {CachedAnswersOnly}, {ExpiredAssertionsOk}}
MCOptionsPlain == {{}}

=============================================================================
