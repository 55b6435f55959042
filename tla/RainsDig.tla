------------------------------ MODULE RainsDig ------------------------------
(***************************************************************************)
(* rainsdig (cmd/rainsdig/rainsdig.go) composed with the resolution        *)
(* engine.  Every rainsdig process sends one query over a connection of   *)
(* its own and reads the first message coming back on it (sendQuery,      *)
(* listen): the process ends with the response printed ("done"), with a   *)
(* token mismatch error ("error"), or after ten seconds without a         *)
(* message ("timeout").  The query's expiry is the flag default, now plus *)
(* the same ten seconds.                                                   *)
(*                                                                         *)
(* A process is named by the token it generates; its connection is named  *)
(* by the same value, so Clients must equal ClientTokens.                 *)
(***************************************************************************)
EXTENDS RainsEngine, Functions

CONSTANTS
    DigTimeout,  \* the 10 s of time.After in sendQuery and of -exp's default
    DigArgs      \* the -qopt arguments a process may be started with

VARIABLES dig    \* dig[t]: the state of the rainsdig process with token t

allVars == <<vars, dig>>

\* "usage": flag.Parse rejected an argument (exit 2); "failed": main or
\* sendQuery returned an error before the query was written (exit 1)
DigStates == {"idle", "started", "usage", "failed", "waiting", "done", "error",
              "closed", "timeout"}

\* query.Option values of the eight -qopt digits; the engine reads three
QOMinE2ELatency == "MinE2ELatency"
QOMinLastHopAnswerSize == "MinLastHopAnswerSize"
QOMinInfoLeakage == "MinInfoLeakage"
QONoVerificationDelegation == "NoVerificationDelegation"
QONoProactiveCaching == "NoProactiveCaching"

\* mutant: the bodies of the cases "6" and "7" swapped
QoptTableSwapped ==
    [v \in {"1", "2", "3", "4", "5", "6", "7", "8"} |->
        CASE v = "1" -> QOMinE2ELatency
          [] v = "2" -> QOMinLastHopAnswerSize
          [] v = "3" -> QOMinInfoLeakage
          [] v = "4" -> CachedAnswersOnly
          [] v = "5" -> ExpiredAssertionsOk
          [] v = "6" -> QONoVerificationDelegation
          [] v = "7" -> TokenTracing
          [] v = "8" -> QONoProactiveCaching]

\* the switch of qoptFlag.Set: the option each accepted value stands for
QoptTable ==
    [v \in {"1", "2", "3", "4", "5", "6", "7", "8"} |->
        CASE v = "1" -> QOMinE2ELatency
          [] v = "2" -> QOMinLastHopAnswerSize
          [] v = "3" -> QOMinInfoLeakage
          [] v = "4" -> CachedAnswersOnly
          [] v = "5" -> ExpiredAssertionsOk
          [] v = "6" -> TokenTracing
          [] v = "7" -> QONoVerificationDelegation
          [] v = "8" -> QONoProactiveCaching]

\* flag.Parse over the -qopt arguments: qoptFlag.Set appends the option of
\* each value in order; a value the switch has no case for is an error,
\* on which flag.Parse (ExitOnError) exits
FlagParse(args) ==
    IF \A k \in DOMAIN args : args[k] \in DOMAIN QoptTable
    THEN [ok |-> TRUE, opts |-> [k \in DOMAIN args |-> QoptTable[args[k]]]]
    ELSE [ok |-> FALSE, opts |-> <<>>]

\* the messages sent to connection t: an answer is a message under the
\* waiter's token; a notification message, as NewNotificationMessage
\* builds it, puts that token into the notification section and gives the
\* message a token of its own (its test copies it over), which is never a
\* client's: ZeroToken stands for it
Responses(t) ==
    {[msgTok |-> a.tok, notif |-> FALSE, secTok |-> ZeroToken] :
        a \in {x \in answers : x.to = t}}
    \cup {[msgTok |-> ZeroToken, notif |-> TRUE, secTok |-> n.tok] :
            n \in {x \in notifs : x.to = t}}

\* listen: a message is accepted if it carries the query's token, or if its
\* first section is a notification naming that token
Accepted(r, t) == r.msgTok = t \/ (r.notif /\ r.secTok = t)

-----------------------------------------------------------------------------

\* a process is started with some -qopt arguments; the other flags are
\* abstracted into the engine's choice of name and type
DigInit ==
    /\ Init
    /\ dig \in [ClientTokens -> [state : {"idle"}, args : DigArgs,
                                 expires : {0}, deadline : {0}]]

\* program start: the package variables are initialised (-exp's default is
\* time.Now() + 10 s, taken now), then main's flag.Parse
DigStart(t) ==
    /\ dig[t].state = "idle"
    /\ dig' = [dig EXCEPT ![t].state = IF FlagParse(dig[t].args).ok
                                        THEN "started" ELSE "usage",
                           ![t].expires = now + DigTimeout]
    /\ UNCHANGED vars

\* main with three arguments whose type is not a number ("malformed type",
\* exit 1), or sendQuery's createConnection (tls.Dial) or the write of the
\* framed query failing: the query is not sent
DigSendFails(t) ==
    /\ dig[t].state = "started"
    /\ dig' = [dig EXCEPT ![t].state = "failed"]
    /\ UNCHANGED vars

\* mutant: the query's expiry left at the zero value instead of -exp's
\* default
DigSendExpiryUnset(t) ==
    /\ dig[t].state = "started"
    /\ now + DigTimeout < MaxTime
    /\ ClientSendQueryWith(t, t, 0, Range(FlagParse(dig[t].args).opts))
    /\ dig' = [dig EXCEPT ![t].state = "waiting",
                           ![t].deadline = now + DigTimeout]

\* main: util.NewQueryMessage with token.New(), the parsed options and the
\* expiry taken at start; sendQuery: connect, start listen, write the
\* message, then arm time.After
DigSend(t) ==
    /\ dig[t].state = "started"
    \* the timer fires, and the reaper can expire the waiter, within the
    \* clock bound
    /\ now + DigTimeout < MaxTime
    /\ ClientSendQueryWith(t, t, dig[t].expires, Range(FlagParse(dig[t].args).opts))
    /\ dig' = [dig EXCEPT ![t].state = "waiting",
                           ![t].deadline = now + DigTimeout]

\* listen reads the first message on the connection and hands it to the
\* select of sendQuery through done, or a token mismatch through ec
DigReceive(t) ==
    /\ dig[t].state = "waiting"
    /\ \E r \in Responses(t) :
          dig' = [dig EXCEPT ![t].state = IF Accepted(r, t) THEN "done"
                                          ELSE "error"]
    /\ UNCHANGED vars

\* listen's read fails: the server or the network closed the connection, or
\* what arrived does not unmarshal; the error goes through ec and main
\* exits with it
DigReceiveFails(t) ==
    /\ dig[t].state = "waiting"
    /\ dig' = [dig EXCEPT ![t].state = "closed"]
    /\ UNCHANGED vars

\* mutant: sendQuery's select without the time.After case
DigTimeoutNever(t) == FALSE /\ UNCHANGED allVars

\* the time.After case of the select: ten seconds without a message
DigTimeoutFires(t) ==
    /\ dig[t].state = "waiting"
    /\ now >= dig[t].deadline
    /\ dig' = [dig EXCEPT ![t].state = "timeout"]
    /\ UNCHANGED vars

\* the engine and its environment other than the clients
EngineNext ==
    \/ HandleQuery
    \/ CheckSection
    \/ CommitSection
    \/ UpstreamAnswer
    \/ Push
    \/ Reap
    \/ Tick

\* every process has ended and the clock is at its bound (a process that
\* never started, or started too late to send, has not been run)
DigIdle ==
    /\ now = MaxTime
    /\ \A t \in ClientTokens : dig[t].state # "waiting"
    /\ UNCHANGED allVars

DigNext ==
    \/ \E t \in ClientTokens : DigStart(t)
    \/ \E t \in ClientTokens : DigSendFails(t)
    \/ \E t \in ClientTokens : DigSend(t)
    \/ \E t \in ClientTokens : DigReceive(t)
    \/ \E t \in ClientTokens : DigReceiveFails(t)
    \/ \E t \in ClientTokens : DigTimeoutFires(t)
    \/ EngineNext /\ UNCHANGED dig
    \/ DigIdle

\* the reaper and the clock run; listen is woken by a message and the
\* runtime timer fires
DigFairness ==
    /\ WF_allVars(Reap /\ UNCHANGED dig)
    /\ WF_allVars(Tick /\ UNCHANGED dig)
    /\ \A t \in ClientTokens : WF_allVars(DigReceive(t))
    /\ \A t \in ClientTokens : WF_allVars(DigTimeoutFires(t))

DigSpec == DigInit /\ [][DigNext]_allVars /\ DigFairness

-----------------------------------------------------------------------------
(* Properties *)

DigTypeOK ==
    /\ TypeOK
    /\ dig \in [ClientTokens -> [state : DigStates, args : DigArgs,
                                 expires : Nat, deadline : Nat]]

\* Every rainsdig process that sent its query ends: it prints an answer,
\* reports an error or times out, whatever the server does with the query
\* (sendQuery's select with time.After).
DigTerminates ==
    \A t \in ClientTokens :
        dig[t].state = "waiting" ~> dig[t].state \in {"done", "error", "closed", "timeout"}

\* A rainsdig process started with -qopt=6 (token tracing) never rejects
\* the server's response as a token mismatch: with QOTokenTracing the
\* engine forwards and answers under the client's own token, so listen
\* accepts whatever the engine sends on the connection.
TracedNoMismatch ==
    \A t \in ClientTokens :
        ("6" \in Range(dig[t].args) /\ FlagParse(dig[t].args).ok)
            => dig[t].state # "error"

\* rainsdig never rejects a message the server sent in response to its
\* query as a token mismatch (listen's check against what the engine sends).
DigNoMismatch ==
    \A t \in ClientTokens : dig[t].state # "error"

=============================================================================
