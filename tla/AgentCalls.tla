----------------------------- MODULE AgentCalls -----------------------------
(***************************************************************************)
(* The way of a query to an agent and of its answer back, through          *)
(* AIQueryServiceImpl, MultiAgentHandler and A2AAdapter.  All queries that  *)
(* are not routed to an agent's own address use one A2AClient, whose       *)
(* headers and timeout any of them changes without a lock.  The rows of a  *)
(* query are the subject of DurableQuery, the breakers of CircuitBreaker,  *)
(* the subtasks of TaskExecutor; here a breaker may refuse, and a plan     *)
(* reports any progress.  The delegation depth of a new trace is 0.        *)
(***************************************************************************)
EXTENDS Integers, Sequences, FiniteSets

CONSTANTS
  QueryThreads, NoThread,  \* threads that serve a query each
  MaxAttempts,          \* A2AConfig::max_retries
  MaxEvents,            \* bound: events of the agent that serves a thread's stream, 0: it serves none
  MaxQueries            \* bound: queries of a thread

ASSUME AgentCallBounds ==
  /\ NoThread \notin QueryThreads /\ MaxAttempts \in Nat \ {0} /\ MaxQueries \in Nat
  /\ MaxEvents \in [QueryThreads -> Nat]

VARIABLES
  orchestrated,   \* orchestrator_enabled_
  headers,        \* x-trace-id of the shared client: whose it is
  clientTimeout,  \* whose deadline its timeout is; NoThread: the configured one
  query,          \* the query each thread serves, or served last
  queries         \* how many queries each thread has served
agentCallVars == <<orchestrated, headers, clientTimeout, query, queries>>

Event(type, n) == [type |-> type, chunk |-> n]
Chunks == {1} \cup UNION {1..MaxEvents[t] : t \in QueryThreads}
StreamEvents == {Event(e, 0) : e \in {"status", "complete", "error"}} \cup {Event("partial", n) : n \in Chunks}
Terminals == {Event("complete", 0), Event("error", 0)}
NoCarried == [trace |-> NoThread, timeout |-> NoThread]
NoQuery ==
  [at |-> "idle", kind |-> "none", route |-> "none", deadline |-> FALSE, lost |-> FALSE,
   saw |-> {}, answer |-> <<>>, written |-> <<>>, events |-> 0, attempts |-> 0,
   carried |-> NoCarried, mixed |-> FALSE, status |-> "none"]

AgentCallsInit ==
  /\ orchestrated \in BOOLEAN
  /\ headers = NoThread /\ clientTimeout = NoThread
  /\ query = [t \in QueryThreads |-> NoQuery] /\ queries = [t \in QueryThreads |-> 0]

QueryAt(t, at) == query[t].at = at
\* The call is over, as far as the agent and the client are concerned.
Back(q, saw) ==
  [q EXCEPT !.at = "returned", !.saw = saw, !.events = 0, !.carried = NoCarried, !.mixed = FALSE]
Advances(t, q) == query' = [query EXCEPT ![t] = q]
KeepsClient == UNCHANGED <<orchestrated, headers, clientTimeout, queries>>
\* The shared client is changed by t, under the feet of the others that use it.
Mixes(t, q) ==
  query' = [u \in QueryThreads |->
    IF u = t THEN q
    ELSE [query[u] EXCEPT !.mixed =
            @ \/ (query[u].route = "shared" /\ query[u].at \in {"connects", "sends", "waits"})]]

\* An event is written, or the client turns out to be gone.
Writes(t, q, e) ==
  \/ ~q.lost /\ Advances(t, [q EXCEPT !.written = Append(@, e)])
  \/ Advances(t, [q EXCEPT !.lost = TRUE, !.saw = @ \cup {"unwritten"}])
\* The same where the result of Write is not looked at.
WritesBlindly(t, q, e) ==
  \/ ~q.lost /\ Advances(t, [q EXCEPT !.written = Append(@, e)])
  \/ Advances(t, [q EXCEPT !.lost = TRUE])
-----------------------------------------------------------------------------
Serve(t, k, d) ==
  /\ QueryAt(t, "idle") /\ queries[t] < MaxQueries /\ (k = "stream" => MaxEvents[t] > 0)
  /\ queries' = [queries EXCEPT ![t] = @ + 1]
  /\ Advances(t, [NoQuery EXCEPT !.at = "route", !.kind = k, !.deadline = d])
  /\ UNCHANGED <<orchestrated, headers, clientTimeout>>

ClientLeaves(t) ==
  /\ ~QueryAt(t, "idle") /\ ~query[t].lost
  /\ Advances(t, [query[t] EXCEPT !.lost = TRUE]) /\ KeepsClient

\* Query, but not QueryStream, asks once whether its client is gone.
CancelledBefore(t) ==
  /\ QueryAt(t, "route") /\ query[t].kind = "query" /\ query[t].lost
  /\ Advances(t, Back(query[t], {"cancelled"})) /\ KeepsClient

\* The single-agent path: the service's breaker, and the deadline as timeout.
RefusedByService(t) ==
  /\ QueryAt(t, "route") /\ ~orchestrated
  /\ Advances(t, Back(query[t], {"refused"})) /\ KeepsClient
setRequestTimeout(t) ==
  /\ QueryAt(t, "route") /\ ~orchestrated
  /\ LET q == [query[t] EXCEPT !.at = "connects", !.route = "shared"] IN
       IF query[t].deadline THEN clientTimeout' = t /\ Mixes(t, q)
       ELSE Advances(t, q) /\ UNCHANGED clientTimeout
  /\ UNCHANGED <<orchestrated, headers, queries>>

\* MultiAgentHandler: one agent, known by its address or not, or several.
PlanQuery(t) ==
  /\ QueryAt(t, "route") /\ orchestrated
  /\ \E r \in {"shared", "direct", "multi"} :
       LET q == [query[t] EXCEPT !.route = r, !.at = IF r = "multi" THEN "executes" ELSE "connects"] IN
         IF q.kind = "stream" THEN WritesBlindly(t, q, Event("status", 0)) ELSE Advances(t, q)
  /\ KeepsClient
-----------------------------------------------------------------------------
(* A2AAdapter: processQuery, processQueryStreaming and their direct forms. *)

RefusedByAdapter(t) ==
  /\ QueryAt(t, "connects")
  /\ Advances(t, Back(query[t], {"failed"})) /\ KeepsClient

\* Mutant: headers that are set already are not replaced.
AddsMissing(t) ==
  /\ QueryAt(t, "connects")
  /\ LET q == [query[t] EXCEPT !.at = "sends"] IN
       IF q.route = "shared" /\ headers = NoThread THEN headers' = t /\ Mixes(t, q)
       ELSE Advances(t, q) /\ UNCHANGED headers
  /\ UNCHANGED <<orchestrated, clientTimeout, queries>>

add_header(t) ==
  /\ QueryAt(t, "connects")
  /\ LET q == [query[t] EXCEPT !.at = "sends"] IN
       IF q.route = "shared" THEN headers' = t /\ Mixes(t, q)
       ELSE Advances(t, q) /\ UNCHANGED headers
  /\ UNCHANGED <<orchestrated, clientTimeout, queries>>

\* The request takes what the client has now; a stream has a timeout of its own.
send_message(t) ==
  /\ QueryAt(t, "sends")
  /\ LET carried == IF query[t].route = "shared" THEN [trace |-> headers, timeout |-> clientTimeout]
                    ELSE [trace |-> t, timeout |-> NoThread] IN
       Advances(t, [query[t] EXCEPT !.carried = carried, !.attempts = @ + 1,
                      !.at = IF query[t].kind = "stream" THEN "streams" ELSE "waits"])
  /\ KeepsClient

\* What an answer, or the end of a stream, does: the headers are cleared, of
\* whichever query they are.
Answer(t, q) ==
  /\ IF q.route = "shared" THEN headers' = NoThread /\ Mixes(t, q) ELSE Advances(t, q) /\ UNCHANGED headers
  /\ UNCHANGED <<orchestrated, clientTimeout, queries>>
AgentAnswers(t) ==
  QueryAt(t, "waits") /\ Answer(t, Back([query[t] EXCEPT !.answer = <<1>>], {}))

\* Network, HTTP and JSON-RPC errors are all A2AExceptions.
AgentFails(t) ==
  /\ QueryAt(t, "waits")
  /\ \E cause \in {{"network"}, {}} :
       Advances(t, Back(query[t], {"failed"} \cup cause))
  /\ KeepsClient

\* Mutant: one attempt too many.
RetriesOnceMore(t) ==
  /\ QueryAt(t, "waits")
  /\ Advances(t, IF query[t].route = "shared" /\ query[t].attempts <= MaxAttempts
                 THEN [query[t] EXCEPT !.at = "sends"]
                 ELSE Back(query[t], {"failed"}))
  /\ KeepsClient

\* Any other exception, while an answer is converted: another attempt, which does
\* not set the headers again.
ConversionFails(t) ==
  /\ QueryAt(t, "waits")
  /\ Advances(t, IF query[t].route = "shared" /\ query[t].attempts < MaxAttempts
                 THEN [query[t] EXCEPT !.at = "sends"]
                 ELSE Back(query[t], {"failed"}))
  /\ KeepsClient
-----------------------------------------------------------------------------
(* The callbacks of a stream; service and handler filter alike.  Events that *)
(* cannot be read, and the agent's own end event, are skipped.               *)

Received(t, e) ==
  LET q == [query[t] EXCEPT !.events = @ + 1]
  IN  IF e.type = "partial" THEN [q EXCEPT !.answer = Append(@, e.chunk)] ELSE q

\* Mutant: errors of the agent are passed on as well.
PassesErrors(t, e) ==
  IF e.type = "error"
  THEN Writes(t, [Received(t, e) EXCEPT !.saw = @ \cup {"failed"}], e)
  ELSE IF query[t].lost
  THEN Advances(t, [query[t] EXCEPT !.events = @ + 1, !.saw = @ \cup {"cancelled"}])
  ELSE Writes(t, Received(t, e), e)

\* Mutant: the result of Write is not looked at.
IgnoresWrite(t, e) ==
  IF e.type = "error"
  THEN Advances(t, [Received(t, e) EXCEPT !.saw = @ \cup {"failed"}])
  ELSE IF query[t].lost
  THEN Advances(t, [query[t] EXCEPT !.events = @ + 1, !.saw = @ \cup {"cancelled"}])
  ELSE WritesBlindly(t, Received(t, e), e)

Relay(t, e) ==
  IF e.type = "error"
  THEN Advances(t, [Received(t, e) EXCEPT !.saw = @ \cup {"failed"}])
  ELSE IF query[t].lost
  THEN Advances(t, [query[t] EXCEPT !.events = @ + 1, !.saw = @ \cup {"cancelled"}])
  ELSE Writes(t, Received(t, e), e)

AgentSends(t) ==
  /\ QueryAt(t, "streams") /\ query[t].events < MaxEvents[t]
  /\ \E e \in {Event("status", 0), Event("error", 0), Event("partial", query[t].events + 1)} : Relay(t, e)
  /\ KeepsClient
StreamEnds(t) == QueryAt(t, "streams") /\ Answer(t, Back(query[t], query[t].saw))
StreamThrows(t) ==
  /\ QueryAt(t, "streams")
  /\ Advances(t, Back(query[t], query[t].saw \cup {"failed"})) /\ KeepsClient

\* Several agents: plan and progress are written blindly, and so is the answer.
Progress(t) ==
  /\ QueryAt(t, "executes") /\ query[t].kind = "stream" /\ query[t].events < MaxEvents[t]
  /\ WritesBlindly(t, Received(t, Event("status", 0)), Event("status", 0)) /\ KeepsClient
Aggregated(t) ==
  /\ QueryAt(t, "executes")
  /\ LET q == Back([query[t] EXCEPT !.answer = <<1>>], {}) IN
       IF q.kind = "stream" THEN WritesBlindly(t, q, Event("partial", 1)) ELSE Advances(t, q)
  /\ KeepsClient
ExecutionThrows(t) ==
  /\ QueryAt(t, "executes")
  /\ Advances(t, Back(query[t], {"failed"})) /\ KeepsClient
-----------------------------------------------------------------------------
\* The status and the terminal event of a query, the cancelled client first.
StatusOf(q) ==
  IF "cancelled" \in q.saw THEN "cancelled" ELSE IF q.saw # {} THEN "failed" ELSE "completed"
TerminalOf(q) ==
  IF q.kind = "query" \/ q.saw \cap {"cancelled", "refused"} # {} THEN "none"
  ELSE IF "failed" \in q.saw THEN "error"
  ELSE IF "unwritten" \in q.saw THEN IF orchestrated THEN "error" ELSE "none"
  ELSE "complete"

\* finalizeDurableQuery, after emitTerminal, whose Write may fail unseen.
Finish(t) ==
  /\ QueryAt(t, "returned")
  /\ LET q == [query[t] EXCEPT !.at = "idle", !.status = StatusOf(query[t]), !.attempts = 0] IN
       IF TerminalOf(q) = "none" THEN Advances(t, q)
       ELSE WritesBlindly(t, q, Event(TerminalOf(q), 0))
  /\ KeepsClient

\* What the thread of a query does with it.
QueryStep(t) ==
  \/ CancelledBefore(t) \/ RefusedByService(t) \/ setRequestTimeout(t)
  \/ PlanQuery(t) \/ RefusedByAdapter(t) \/ add_header(t) \/ send_message(t)
  \/ AgentAnswers(t) \/ AgentFails(t) \/ ConversionFails(t)
  \/ AgentSends(t) \/ StreamEnds(t) \/ StreamThrows(t)
  \/ Progress(t) \/ Aggregated(t) \/ ExecutionThrows(t)
AgentCallsNext ==
  \E t \in QueryThreads :
    \/ \E k \in {"query", "stream"}, d \in BOOLEAN : Serve(t, k, d)
    \/ ClientLeaves(t) \/ QueryStep(t) \/ Finish(t)

AgentCallsSpec == AgentCallsInit /\ [][AgentCallsNext]_agentCallVars
-----------------------------------------------------------------------------
AgentCallsTypeOK ==
  /\ orchestrated \in BOOLEAN
  /\ headers \in QueryThreads \cup {NoThread} /\ clientTimeout \in QueryThreads \cup {NoThread}
  /\ query \in [QueryThreads ->
       [at: {"idle", "route", "connects", "sends", "waits", "streams", "executes", "returned"},
        kind: {"none", "query", "stream"}, route: {"none", "shared", "direct", "multi"},
        deadline: BOOLEAN, lost: BOOLEAN, mixed: BOOLEAN,
        saw: SUBSET {"cancelled", "failed", "unwritten", "refused", "network"},
        answer: Seq(Chunks), written: Seq(StreamEvents), events: Nat, attempts: 0..MaxAttempts,
        carried: [trace: QueryThreads \cup {NoThread}, timeout: QueryThreads \cup {NoThread}],
        status: {"none", "completed", "failed", "cancelled"}]]
  /\ \A t \in QueryThreads : query[t].events <= MaxEvents[t]
  /\ queries \in [QueryThreads -> 0..MaxQueries]

\* A request carries the trace and the timeout of its own query, unless another
\* query changed the shared client after this one set it up: what failed calls
\* have left in it does no harm (a2a_adapter.cpp:133, 313).
CarriesOwn ==
  \A t \in QueryThreads : LET q == query[t] IN
    q.at \in {"waits", "streams"} /\ ~q.mixed =>
      /\ q.carried.trace = t
      /\ q.kind = "query" /\ q.deadline /\ q.route = "shared" /\ ~orchestrated => q.carried.timeout = t

\* "This service is the single emitter of terminal stream events"
\* (ai_query_service.cpp:779): a stream has one at most, as its last event, and one
\* that its client stays for has the one that goes with the status of the query.
WrittenTerminals(q) == {i \in DOMAIN q.written : q.written[i] \in Terminals}
OneTerminalEvent ==
  \A t \in QueryThreads : LET q == query[t] IN
    /\ WrittenTerminals(q) \subseteq (IF q.at = "idle" THEN {Len(q.written)} ELSE {})
    /\ q.at = "idle" /\ q.kind = "stream" /\ ~q.lost /\ "refused" \notin q.saw =>
         q.written[Len(q.written)] = Event(IF q.status = "completed" THEN "complete" ELSE "error", 0)

\* Part n of an answer is in the n-th partial event that was written.
Partials(w) == {i \in DOMAIN w : w[i].type = "partial"}
Delivers(w, answer) ==
  /\ Len(answer) = Cardinality(Partials(w))
  /\ \A i \in Partials(w) : answer[Cardinality({j \in Partials(w) : j <= i})] = w[i].chunk

\* The stored answer of a completed stream is what its client was sent, whenever
\* clients leave; for one agent only, as the events of several are written blindly.
StoredIsDelivered ==
  \A t \in QueryThreads : LET q == query[t] IN
    q.kind = "stream" /\ q.status = "completed" /\ q.route # "multi" =>
      Delivers(q.written, q.answer)

\* A call is tried as often as it may and carries its own headers, and what a stream
\* ends with and what is stored of it is true for its client.
AgentCallsInvariant ==
  AgentCallsTypeOK /\ CarriesOwn /\ OneTerminalEvent /\ StoredIsDelivered

\* "retry for transient network errors" (a2a_adapter.cpp:143).
NetworkErrorsRetried ==
  \A t \in QueryThreads : QueryAt(t, "returned") /\ query[t].route = "shared" /\ "network" \in query[t].saw =>
    query[t].attempts = MaxAttempts
=============================================================================
