----------------------------- MODULE MCRainsDig -----------------------------
(***************************************************************************)
(* Instantiation of RainsDig for TLC: two rainsdig processes, whose       *)
(* connections are named by their tokens, against the engine of          *)
(* MCRainsEngine.                                                          *)
(***************************************************************************)
EXTENDS RainsDig

MCQueryNames == {<<"ethz", "ch">>, <<"www", "own">>}
MCSelfZones == {<<"own">>}
MCValues == {"v1"}

ip4(v) == [type |-> OTIP4Addr, value |-> v]

MCContentsOne == {<<ip4("v1")>>}

\* a window inside the cache bound and one too far in the future
MCWindowsFar == {[from |-> 1, until |-> 9], [from |-> 7, until |-> 9]}
MCWindowsNear == {[from |-> 1, until |-> 9]}

MCNoShards == {}

\* the option sets a query may carry: any of the eight -qopt options
MCDigOptionSets ==
    SUBSET {QOMinE2ELatency, QOMinLastHopAnswerSize, QOMinInfoLeakage,
            CachedAnswersOnly, ExpiredAssertionsOk, TokenTracing,
            QONoVerificationDelegation, QONoProactiveCaching}

\* -qopt arguments: none, token tracing, and a value Set rejects
MCDigArgs == {<<>>, <<"6">>, <<"0">>}
MCDigArgsPlain == {<<>>}

\* the expiries -exp's default can produce
MCDigExpiries == 1..(MaxTime + DigTimeout)

\* a process's connection is named by its token
MCDigClients == ClientTokens
=============================================================================
