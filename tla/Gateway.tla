------------------------------ MODULE Gateway ------------------------------
(***************************************************************************)
(* streamCall of the gateway (gateway/proxy/server.mjs): a browser's HTTP  *)
(* request is one call of QueryStream, whose events become server-sent     *)
(* events.  Composed with AgentCalls, which writes them.  The events of a  *)
(* gRPC stream arrive in order, and its status after them; a connection    *)
(* that breaks may take both along.  The gateway sets no deadline.         *)
(***************************************************************************)
EXTENDS AgentCalls

CONSTANT Browsers   \* the threads that serve requests of the gateway
ASSUME BrowserAssumption == Browsers \subseteq QueryThreads

VARIABLE proxy      \* what streamCall holds for each request
gatewayVars == <<agentCallVars, proxy>>

NoRequest ==
  [open |-> FALSE, ended |-> FALSE, completeSeen |-> FALSE, away |-> FALSE,
   read |-> 0, out |-> <<>>, status |-> "none"]

GatewayInit == AgentCallsInit /\ proxy = [t \in Browsers |-> NoRequest]

Awaiting(t) == proxy[t].open /\ ~proxy[t].ended
AllRead(t) == proxy[t].read = Len(query[t].written)
Holds(t, p) == proxy' = [proxy EXCEPT ![t] = p]
-----------------------------------------------------------------------------
streamCall(t) ==
  /\ ~proxy[t].open /\ Serve(t, "stream", FALSE)
  /\ Holds(t, [NoRequest EXCEPT !.open = TRUE])

\* QueryStream: the request's rows or its budget are refused, without an event.
Refused(t) ==
  /\ QueryAt(t, "route") /\ Advances(t, Back(query[t], {"refused"})) /\ KeepsClient
  /\ UNCHANGED proxy

\* The handler returns; when persisting the outcome fails, with an error, whatever
\* it has told its client before.
Replies(t) ==
  /\ Finish(t)
  /\ \E s \in {"error"} \cup (IF StatusOf(query[t]) = "completed" THEN {"OK"} ELSE {}) :
       Holds(t, [proxy[t] EXCEPT !.status = s])

\* Mutant: events are written to a response that has ended.
RelaysAlways(t) ==
  /\ proxy[t].open /\ ~AllRead(t)
  /\ LET p == [proxy[t] EXCEPT !.read = @ + 1]
         event == query[t].written[p.read] IN
       Holds(t, [p EXCEPT !.out = Append(@, event), !.completeSeen = @ \/ event \in Terminals])
  /\ UNCHANGED agentCallVars

\* 'data'
HandleData(t) ==
  /\ proxy[t].open /\ ~AllRead(t)
  /\ LET p == [proxy[t] EXCEPT !.read = @ + 1]
         event == query[t].written[p.read] IN
       Holds(t, IF p.ended THEN p
                ELSE [p EXCEPT !.out = Append(@, event), !.completeSeen = @ \/ event \in Terminals])
  /\ UNCHANGED agentCallVars

\* Mutant: the status of the call is not looked at.
EndsAnyhow(t) ==
  /\ Awaiting(t) /\ proxy[t].status # "none" /\ AllRead(t) /\ ~query[t].lost
  /\ LET p == [proxy[t] EXCEPT !.ended = TRUE] IN
       Holds(t, IF p.completeSeen THEN p ELSE [p EXCEPT !.out = Append(@, Event("complete", 0))])
  /\ UNCHANGED agentCallVars

\* 'end', of a call whose status is OK.
HandleEnd(t) ==
  /\ Awaiting(t) /\ proxy[t].status = "OK" /\ AllRead(t) /\ ~query[t].lost
  /\ LET p == [proxy[t] EXCEPT !.ended = TRUE] IN
       Holds(t, IF p.completeSeen THEN p ELSE [p EXCEPT !.out = Append(@, Event("complete", 0))])
  /\ UNCHANGED agentCallVars

\* 'error': another status, or the connection is lost.
HandleError(t) ==
  /\ Awaiting(t)
  /\ query[t].lost \/ (proxy[t].status = "error" /\ AllRead(t))
  /\ Holds(t, [proxy[t] EXCEPT !.ended = TRUE, !.out = Append(@, Event("error", 0))])
  /\ UNCHANGED agentCallVars

\* 'close': the browser leaves.  The call is cancelled, which the server learns of
\* by ClientLeaves, as it does of a broken connection.
HandleClose(t) ==
  /\ Awaiting(t)
  /\ Holds(t, [proxy[t] EXCEPT !.ended = TRUE, !.away = TRUE])
  /\ UNCHANGED agentCallVars

GatewayNext ==
  \E t \in Browsers :
    \/ streamCall(t) \/ Refused(t) \/ Replies(t)
    \/ HandleData(t) \/ HandleEnd(t) \/ HandleError(t) \/ HandleClose(t)
    \/ (ClientLeaves(t) \/ QueryStep(t)) /\ UNCHANGED proxy

GatewaySpec == GatewayInit /\ [][GatewayNext]_gatewayVars
-----------------------------------------------------------------------------
GatewayTypeOK ==
  proxy \in [Browsers ->
    [open: BOOLEAN, ended: BOOLEAN, completeSeen: BOOLEAN, away: BOOLEAN, read: Nat,
     out: Seq(StreamEvents), status: {"none", "OK", "error"}]]

\* The browser gets what the service has written, in that order, and the gateway
\* adds one event at most, as the last one.
RelayedInOrder ==
  \A t \in Browsers : LET out == proxy[t].out IN
    \E n \in 0..Len(out) :
      /\ n <= Len(query[t].written) /\ SubSeq(out, 1, n) = SubSeq(query[t].written, 1, n)
      /\ Len(out) > n => Len(out) = n + 1 /\ proxy[t].ended

\* A browser that stays is told how its query ended: the last event is a terminal
\* one, complete only if the service returned OK, and an error only if it did not
\* or its answer was lost (also where the service refuses without an event, or
\* fails after its complete event).
OutcomeTold ==
  \A t \in Browsers : LET p == proxy[t]
                          last == p.out[Len(p.out)] IN
    p.ended /\ ~p.away =>
      /\ p.out # <<>> /\ last \in Terminals
      /\ last.type = "complete" => p.status = "OK"
      /\ last.type = "error" => p.status = "error" \/ query[t].lost

\* Whatever breaks or leaves at whichever moment, a browser gets a true story.
GatewayInvariant == GatewayTypeOK /\ RelayedInOrder /\ OutcomeTold

\* "single terminal event per stream" (test/query-stream-contract.test.mjs:18).
SingleTerminalEvent ==
  \A t \in Browsers : Cardinality({i \in DOMAIN proxy[t].out : proxy[t].out[i] \in Terminals}) <= 1
=============================================================================
