----------------------------- MODULE McpSession -----------------------------
(***************************************************************************)
(* MCPClient over the STDIO transport, and the MCPToolManager that uses    *)
(* it: threads write requests into one pipe, a reader thread puts what     *)
(* comes back into one queue, and whoever waits takes the front of it.     *)
(* The ids of answers are not compared.  Requests are numbered as they     *)
(* are written; the server answers in this order, as late as it likes.     *)
(***************************************************************************)
EXTENDS Integers, Sequences, FiniteSets

CONSTANTS
  Clients,        \* threads that use the tool manager
  Listens,        \* a notification callback is set (MCPServiceIntegrator)
  MaxRequests,    \* bound: requests written
  MaxChanges      \* bound: notifications sent

ASSUME McpBounds == Listens \in BOOLEAN /\ MaxRequests \in Nat /\ MaxChanges \in Nat

VARIABLES
  phase,          \* of connect and initialize
  asked,          \* what each request asks for
  toServer, fromServer,   \* the pipes
  answers,        \* response_queue_
  client,         \* the threads: a call that waits, or has a list to store
  listed,         \* available_tools_ is not empty
  changes, timeouts,
  taken,          \* which request took which answer
  overlapped      \* a request was written while another waited
mcpVars == <<phase, asked, toServer, fromServer, answers, client, listed, changes,
             timeouts, taken, overlapped>>
pipes == <<toServer, fromServer>>

McpThreads == Clients \cup {"setup", "reader"}
Requests == 1..MaxRequests
Changed == 0                             \* a notification, among answers
Resting == [at |-> "rests", request |-> 0, tools |-> FALSE]

McpInit ==
  /\ phase = "down" /\ asked = <<>> /\ toServer = <<>> /\ fromServer = <<>> /\ answers = <<>>
  /\ client = [t \in McpThreads |-> Resting]
  /\ listed = FALSE /\ changes = 0 /\ timeouts = 0 /\ taken = {} /\ overlapped = FALSE

Waits(t) == client[t].at = "waits"

sendRequest(t, kind) ==
  /\ client[t] = Resting /\ Len(asked) < MaxRequests
  /\ asked' = Append(asked, kind)
  /\ toServer' = Append(toServer, Len(asked'))
  /\ client' = [client EXCEPT ![t] = [Resting EXCEPT !.at = "waits", !.request = Len(asked')]]
  /\ overlapped' = (overlapped \/ \E u \in McpThreads : Waits(u))
-----------------------------------------------------------------------------
(* The server. *)

ServerAnswers ==
  /\ toServer # <<>>
  /\ fromServer' = Append(fromServer, Head(toServer)) /\ toServer' = Tail(toServer)
  /\ UNCHANGED <<phase, asked, answers, client, listed, changes, timeouts, taken, overlapped>>

ServerNotifies ==
  /\ phase # "down" /\ changes < MaxChanges /\ changes' = changes + 1
  /\ fromServer' = Append(fromServer, Changed)
  /\ UNCHANGED <<phase, asked, toServer, answers, client, listed, timeouts, taken, overlapped>>
-----------------------------------------------------------------------------
(* The reader thread. *)

\* Mutant: a notification is queued like an answer.
QueuesAll ==
  /\ client["reader"] = Resting /\ fromServer # <<>>
  /\ answers' = Append(answers, Head(fromServer)) /\ fromServer' = Tail(fromServer)
  /\ UNCHANGED <<phase, asked, toServer, client, listed, changes, timeouts, taken, overlapped>>

QueueAnswer ==
  /\ client["reader"] = Resting /\ fromServer # <<>> /\ Head(fromServer) # Changed
  /\ answers' = Append(answers, Head(fromServer)) /\ fromServer' = Tail(fromServer)
  /\ UNCHANGED <<phase, asked, toServer, client, listed, changes, timeouts, taken, overlapped>>

\* The callback runs on the reader thread, and asks for the tools once there is
\* a tool manager.
processNotification ==
  /\ client["reader"] = Resting /\ fromServer # <<>> /\ Head(fromServer) = Changed
  /\ IF Listens /\ phase \in {"connected", "lists", "ready"}
     THEN sendRequest("reader", "tools") /\ fromServer' = Tail(fromServer)
     ELSE fromServer' = Tail(fromServer) /\ UNCHANGED <<asked, toServer, client, overlapped>>
  /\ UNCHANGED <<phase, answers, listed, changes, timeouts, taken>>
-----------------------------------------------------------------------------
(* Threads that wait. *)

\* What a thread does with the answer m, or with the error of a timeout (0).
AfterAnswer(t, m) ==
  /\ phase' = IF phase = "init" /\ t = "setup" THEN "connected" ELSE phase
  /\ client' = [client EXCEPT ![t] =
       IF asked[@.request] # "tools" THEN Resting
       ELSE [@ EXCEPT !.at = "stores", !.tools = (m # 0 /\ asked[m] = "tools")]]

\* Mutant: the answer stays at the front of the queue.
TakesFront(t) ==
  /\ Waits(t) /\ answers # <<>>
  /\ AfterAnswer(t, Head(answers))
  /\ taken' = taken \cup {[request |-> client[t].request, answer |-> Head(answers)]}
  /\ UNCHANGED <<asked, pipes, answers, listed, changes, timeouts, overlapped>>

receiveResponse(t) ==
  /\ Waits(t) /\ answers # <<>>
  /\ AfterAnswer(t, Head(answers))
  /\ answers' = Tail(answers)
  /\ taken' = taken \cup {[request |-> client[t].request, answer |-> Head(answers)]}
  /\ UNCHANGED <<asked, pipes, listed, changes, timeouts, overlapped>>

\* Mutant: a thread waits as long as the server needs.
WaitsOn(t) == Waits(t) /\ toServer = <<>> /\ fromServer = <<>> /\ UNCHANGED mcpVars

TimesOut(t) ==
  /\ Waits(t) /\ answers = <<>>
  /\ AfterAnswer(t, 0)
  /\ timeouts' = timeouts + 1
  /\ UNCHANGED <<asked, pipes, answers, listed, changes, taken, overlapped>>

\* The list becomes that of the answer, or empty if there was none.
StoreTools(t) ==
  /\ client[t].at = "stores"
  /\ listed' = client[t].tools
  /\ client' = [client EXCEPT ![t] = Resting]
  /\ phase' = IF t = "setup" THEN "ready" ELSE phase
  /\ UNCHANGED <<asked, pipes, answers, changes, timeouts, taken, overlapped>>
-----------------------------------------------------------------------------
(* Requests. *)

\* Mutant: the answer to the handshake is not waited for.
SendsHandshake ==
  /\ phase = "down" /\ phase' = "connected"
  /\ Len(asked) < MaxRequests
  /\ asked' = Append(asked, "init") /\ toServer' = Append(toServer, Len(asked'))
  /\ UNCHANGED <<fromServer, answers, client, listed, changes, timeouts, taken, overlapped>>

connect ==
  /\ phase = "down" /\ phase' = "init"
  /\ sendRequest("setup", "init")
  /\ UNCHANGED <<fromServer, answers, listed, changes, timeouts, taken>>

initialize ==
  /\ phase = "connected" /\ phase' = "lists"
  /\ sendRequest("setup", "tools")
  /\ UNCHANGED <<fromServer, answers, listed, changes, timeouts, taken>>

refreshTools(c) ==
  /\ phase = "ready"
  /\ sendRequest(c, "tools")
  /\ UNCHANGED <<phase, fromServer, answers, listed, changes, timeouts, taken>>

executeTool(c) ==
  /\ phase = "ready" /\ listed
  /\ sendRequest(c, "call")
  /\ UNCHANGED <<phase, fromServer, answers, listed, changes, timeouts, taken>>
-----------------------------------------------------------------------------
McpThreadStep(t) == receiveResponse(t) \/ TimesOut(t) \/ StoreTools(t)
ReaderStep == QueueAnswer \/ processNotification
McpNext ==
  \/ connect \/ initialize \/ ReaderStep
  \/ \E c \in Clients : refreshTools(c) \/ executeTool(c)
  \/ \E t \in McpThreads : McpThreadStep(t)
  \/ ServerAnswers \/ ServerNotifies

McpSpec == McpInit /\ [][McpNext]_mcpVars
\* Threads run and the 30 seconds pass; nothing is assumed of the server.
McpFairness == \A t \in McpThreads : WF_mcpVars(McpThreadStep(t))
FairMcpSpec == McpSpec /\ McpFairness
-----------------------------------------------------------------------------
McpTypeOK ==
  /\ phase \in {"down", "init", "connected", "lists", "ready"}
  /\ asked \in Seq({"init", "tools", "call"}) /\ Len(asked) <= MaxRequests
  /\ toServer \in Seq(Requests) /\ answers \in Seq(Requests)
  /\ fromServer \in Seq(Requests \cup {Changed})
  /\ client \in [McpThreads -> [at: {"rests", "waits", "stores"},
                             request: Requests \cup {0}, tools: BOOLEAN]]
  /\ \A t \in McpThreads : client[t].at = "rests" <=> client[t].request = 0
  /\ listed \in BOOLEAN /\ overlapped \in BOOLEAN
  /\ changes \in 0..MaxChanges /\ timeouts \in 0..MaxRequests
  /\ taken \subseteq [request: Requests, answer: Requests]

\* No answer is given to two requests, and no request gets two.
EachAnswerOnce ==
  \A a, b \in taken : a.request = b.request \/ a.answer = b.answer => a = b

\* While requests do not overlap, an answer is never too new, and too old by no
\* more than the requests that were given up: each shifts those behind it by one
\* (mcp_client.cpp:445 does not compare ids).
AnswersLagByTimeouts ==
  ~overlapped => \A a \in taken :
    a.answer <= a.request /\ a.request <= a.answer + timeouts

\* The tool manager has its tools from the start on: unless a request was given up
\* or two overlapped, no refresh loses them.
ToolsKept == phase = "ready" /\ timeouts = 0 /\ ~overlapped => listed

\* What answers mean, although they carry no id that is looked at.
McpInvariant == McpTypeOK /\ EachAnswerOnce /\ AnswersLagByTimeouts /\ ToolsKept

\* Every request returns within its time, whatever the server does.
CallsReturn == \A t \in McpThreads : Waits(t) ~> ~Waits(t)

\* "Refresh tools if the notification indicates the tool list changed"
\* (mcp_tool_manager.cpp:218): the reader finds tools then.
ToolsSurviveRefresh ==
  [][client["reader"].at = "stores" /\ client'["reader"] = Resting => listed']_mcpVars
=============================================================================
