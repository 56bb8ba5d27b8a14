---------------------------- MODULE DurableQuery ----------------------------
(***************************************************************************)
(* The durable query pipeline of AIQueryServiceImpl (Query / QueryStream). *)
(*                                                                         *)
(* A run is one invocation of a handler.  Every call of a run on the       *)
(* repositories is one PostgreSQL transaction, so it is one action here;   *)
(* runs interleave between transactions.  A transaction may fail: rolled   *)
(* back, or committed with its acknowledgement lost, and in both cases the *)
(* handler sees an exception.  The server may crash between any two        *)
(* transactions; the tables survive.  A client retries by starting another *)
(* run with the same request id.                                           *)
(*                                                                         *)
(* Abstracted: message and answer texts (only whether an answer is empty), *)
(* the conversation summary and titles, Redis caches (best effort, their   *)
(* failures are swallowed), the amount arithmetic of the budget (module    *)
(* BudgetReservation): here a first reservation is accepted or refused.    *)
(***************************************************************************)
EXTENDS Naturals

CONSTANTS
  Runs,             \* handler invocations
  Requests,         \* request ids
  Owners,           \* authenticated users
  Conversations,    \* conversation ids (context_id)
  NoOwner,          \* owner column of a row that does not exist
  NoConversation,   \* conversation of a message that does not exist
  Cost,             \* estimateTokens of the question a request id stands for
  Orchestrated,     \* orchestrator_enabled_: multi-agent path or A2A adapter
  SerialRetries,    \* clients retry a request only after its run has ended
  MaxFaults,        \* bound: failing transactions
  MaxCrashes        \* bound: server crashes

ASSUME RowAssumption == NoOwner \notin Owners /\ NoConversation \notin Conversations
ASSUME CostAssumption == Cost \in [Requests -> Nat \ {0}]
ASSUME ModeAssumption == Orchestrated \in BOOLEAN /\ SerialRetries \in BOOLEAN
ASSUME BoundAssumption == MaxFaults \in Nat /\ MaxCrashes \in Nat

VARIABLES
  conversation,     \* conversations: its owner
  log,              \* query_logs, keyed by request id
  trace,            \* traces, keyed by trace-<request id>
  reservation,      \* budget_reservations, keyed by request id
  message,          \* conversation_messages, keyed by msg-<role>-<request id>
  ledger,           \* token_usage_ledger, keyed by usage-<request id>
  pc,               \* where a run is
  args,             \* owner, request, conversation and RPC of a run
  traced,           \* run.trace_row_id has been set
  estimated,        \* run.estimated_tokens
  finalized,        \* run.finalized
  verdict,          \* status and answer a run persists when it is finalized
  aborting,         \* the run is inside abortDurableRun
  event,            \* terminal stream event emitted
  outcome,          \* status the RPC returns
  faults, crashes

tables == <<conversation, log, trace, reservation, message, ledger>>
locals == <<args, traced, estimated, finalized, verdict, aborting, event, outcome>>
vars == <<tables, pc, locals, faults, crashes>>

Roles == {"user", "assistant"}
Terminal == {"completed", "failed", "cancelled", "rejected"}
LogStatus == {"running"} \cup Terminal
Modes == {"sync", "stream"}
Outcomes == {"none", "ok", "cancelled", "agent_error", "breaker_open",
             "rejected", "refused", "aborted", "crashed"}

\* The positions at which a run is about to execute a transaction.
TxSteps == {"ensure", "log", "log_check", "trace", "trace_check", "reserve",
            "reject_log", "reject_trace", "context", "user", "assistant",
            "fin_log", "fin_trace", "ledger"}
Steps == {"idle", "call", "abort", "done"} \cup TxSteps
InFlight == Steps \ {"idle", "done"}

NoRow == [owner |-> NoOwner, status |-> "none"]
NoTokens == [owner |-> NoOwner, tokens |-> 0]
NoMessage == [owner |-> NoOwner, conv |-> NoConversation]

Rows == {NoRow} \cup [owner: Owners, status: LogStatus]
TokenRows == {NoTokens} \cup [owner: Owners, tokens: Nat]
Messages == {NoMessage} \cup [owner: Owners, conv: Conversations]

Owner(r) == args[r].owner
Req(r) == args[r].req
Conv(r) == args[r].conv

------------------------------------------------------------------------------
(* Control of a run. *)

Goto(r, step) == pc' = [pc EXCEPT ![r] = step]

\* An exception leaves the try block; inside abortDurableRun it is swallowed.
Throws(r) ==
  /\ faults < MaxFaults
  /\ faults' = faults + 1
  /\ Goto(r, IF aborting[r] THEN "done" ELSE "abort")

\* The transaction has committed: its caller goes on to step, or the
\* acknowledgement is lost and the caller sees an exception.
Committed(r, step) ==
  \/ Goto(r, step) /\ UNCHANGED faults
  \/ Throws(r)

Returns(r, code) == outcome' = [outcome EXCEPT ![r] = code]

\* beginDurableRows found a row of another owner: the RPC answers INTERNAL.
Refuses(r) ==
  \/ Goto(r, "done") /\ Returns(r, "refused") /\ UNCHANGED faults
  \/ Throws(r) /\ UNCHANGED outcome

\* updateQueryLog and updateTrace: an UPDATE of the owner's existing row.
UpdatedRow(row, owner, status) ==
  IF row.owner = owner THEN [row EXCEPT !.status = status] ELSE row

\* finalizeDurableQuery wins its compare-exchange and starts to persist.
Finalize(r, status, answer) ==
  /\ finalized' = [finalized EXCEPT ![r] = TRUE]
  /\ verdict' = [verdict EXCEPT ![r] = [status |-> status, answer |-> answer]]
  /\ Goto(r, "user")

------------------------------------------------------------------------------
Init ==
  /\ conversation = [c \in Conversations |-> NoOwner]
  /\ log = [q \in Requests |-> NoRow]
  /\ trace = [q \in Requests |-> NoRow]
  /\ reservation = [q \in Requests |-> NoTokens]
  /\ message = [m \in Requests \X Roles |-> NoMessage]
  /\ ledger = [q \in Requests |-> NoTokens]
  /\ pc = [r \in Runs |-> "idle"]
  /\ args \in [Runs -> [owner: Owners, req: Requests, conv: Conversations, mode: Modes]]
  /\ traced = [r \in Runs |-> FALSE]
  /\ estimated = [r \in Runs |-> 0]
  /\ finalized = [r \in Runs |-> FALSE]
  /\ verdict = [r \in Runs |-> [status |-> "failed", answer |-> FALSE]]
  /\ aborting = [r \in Runs |-> FALSE]
  /\ event = [r \in Runs |-> "none"]
  /\ outcome = [r \in Runs |-> "none"]
  /\ faults = 0
  /\ crashes = 0

\* An authenticated call arrives.  The owner comes from the session only.
Begin(r) ==
  /\ pc[r] = "idle"
  /\ SerialRetries => \A s \in Runs : Req(s) = Req(r) => pc[s] \notin InFlight
  /\ Goto(r, "ensure")
  /\ UNCHANGED <<tables, locals, faults, crashes>>

\* Mutant of EnsureConversation: ON CONFLICT DO UPDATE takes the conversation over.
TakeConversation(r) ==
  /\ pc[r] = "ensure"
  /\ conversation' = [conversation EXCEPT ![Conv(r)] = Owner(r)]
  /\ Committed(r, "log")
  /\ traced' = [traced EXCEPT ![r] = TRUE]
  /\ UNCHANGED <<log, trace, reservation, message, ledger, args, estimated,
                 finalized, verdict, aborting, event, outcome, crashes>>

\* Step 2: confirm or create the conversation; another owner's is refused.
EnsureConversation(r) ==
  /\ pc[r] = "ensure"
  /\ \/ /\ conversation[Conv(r)] \in {NoOwner, Owner(r)}
        /\ conversation' = [conversation EXCEPT ![Conv(r)] = Owner(r)]
        /\ \/ /\ Goto(r, "log")
              /\ traced' = [traced EXCEPT ![r] = TRUE]
              /\ UNCHANGED faults
           \/ Throws(r) /\ UNCHANGED traced
        /\ UNCHANGED outcome
     \/ /\ conversation[Conv(r)] \notin {NoOwner, Owner(r)}
        /\ Refuses(r)
        /\ UNCHANGED <<conversation, traced>>
  /\ UNCHANGED <<log, trace, reservation, message, ledger, args, estimated,
                 finalized, verdict, aborting, event, crashes>>

\* Mutant of CreateQueryLog: an upsert sets a settled query back to running.
UpsertQueryLog(r) ==
  /\ pc[r] = "log"
  /\ log[Req(r)].owner \in {NoOwner, Owner(r)}
  /\ log' = [log EXCEPT ![Req(r)] = [owner |-> Owner(r), status |-> "running"]]
  /\ Committed(r, "trace")
  /\ UNCHANGED <<conversation, trace, reservation, message, ledger, locals, crashes>>

\* Step 3: insert the running query log; a duplicate id is never updated.
CreateQueryLog(r) ==
  /\ pc[r] = "log"
  /\ \/ /\ log[Req(r)] = NoRow
        /\ log' = [log EXCEPT ![Req(r)] = [owner |-> Owner(r), status |-> "running"]]
        /\ Committed(r, "trace")
     \/ /\ log[Req(r)] # NoRow
        /\ Committed(r, "log_check")
        /\ UNCHANGED log
  /\ UNCHANGED <<conversation, trace, reservation, message, ledger, locals, crashes>>

\* Mutant of CheckQueryLog: any existing row will do.
AcceptAnyQueryLog(r) ==
  /\ pc[r] = "log_check"
  /\ Committed(r, "trace")
  /\ UNCHANGED <<tables, locals, crashes>>

\* getQueryLogById: the duplicate must be the caller's own row.
CheckQueryLog(r) ==
  /\ pc[r] = "log_check"
  /\ \/ log[Req(r)].owner = Owner(r) /\ Committed(r, "trace") /\ UNCHANGED outcome
     \/ log[Req(r)].owner # Owner(r) /\ Refuses(r)
  /\ UNCHANGED <<tables, args, traced, estimated, finalized, verdict, aborting,
                 event, crashes>>

CreateTrace(r) ==
  /\ pc[r] = "trace"
  /\ \/ /\ trace[Req(r)] = NoRow
        /\ trace' = [trace EXCEPT ![Req(r)] = [owner |-> Owner(r), status |-> "running"]]
        /\ Committed(r, "reserve")
     \/ /\ trace[Req(r)] # NoRow
        /\ Committed(r, "trace_check")
        /\ UNCHANGED trace
  /\ UNCHANGED <<conversation, log, reservation, message, ledger, locals, crashes>>

CheckTrace(r) ==
  /\ pc[r] = "trace_check"
  /\ \/ trace[Req(r)].owner = Owner(r) /\ Committed(r, "reserve") /\ UNCHANGED outcome
     \/ trace[Req(r)].owner # Owner(r) /\ Refuses(r)
  /\ UNCHANGED <<tables, args, traced, estimated, finalized, verdict, aborting,
                 event, crashes>>

\* Mutant of Reserve: the refusal is recorded nowhere and the run goes on.
IgnoreRefusal(r) ==
  /\ pc[r] = "reserve"
  /\ estimated' = [estimated EXCEPT ![r] = Cost[Req(r)]]
  /\ \/ /\ reservation[Req(r)] = NoTokens
        /\ reservation' = [reservation EXCEPT
             ![Req(r)] = [owner |-> Owner(r), tokens |-> Cost[Req(r)]]]
     \/ UNCHANGED reservation
  /\ Committed(r, "context")
  /\ UNCHANGED <<conversation, log, trace, message, ledger, args, traced,
                 finalized, verdict, aborting, event, outcome, crashes>>

\* Mutant of Reserve: a retry that finds its reservation does not estimate again.
EstimateOnce(r) ==
  /\ pc[r] = "reserve"
  /\ \/ /\ reservation[Req(r)].owner = Owner(r)
        /\ Committed(r, "context")
        /\ UNCHANGED <<reservation, estimated>>
     \/ /\ reservation[Req(r)] = NoTokens
        /\ reservation' = [reservation EXCEPT
             ![Req(r)] = [owner |-> Owner(r), tokens |-> Cost[Req(r)]]]
        /\ estimated' = [estimated EXCEPT ![r] = Cost[Req(r)]]
        /\ Committed(r, "context")
  /\ UNCHANGED <<conversation, log, trace, message, ledger, args, traced,
                 finalized, verdict, aborting, event, outcome, crashes>>

\* Step 4: reserve the estimate.  An own reservation is accepted again, a
\* foreign one refused; without one the quota decides.
Reserve(r) ==
  /\ pc[r] = "reserve"
  /\ estimated' = [estimated EXCEPT ![r] = Cost[Req(r)]]
  /\ \/ /\ reservation[Req(r)].owner = Owner(r)
        /\ Committed(r, "context")
        /\ UNCHANGED reservation
     \/ /\ reservation[Req(r)] = NoTokens
        /\ reservation' = [reservation EXCEPT
             ![Req(r)] = [owner |-> Owner(r), tokens |-> Cost[Req(r)]]]
        /\ Committed(r, "context")
     \/ /\ reservation[Req(r)].owner # Owner(r)
        /\ Committed(r, "reject_log")
        /\ UNCHANGED reservation
  /\ UNCHANGED <<conversation, log, trace, message, ledger, args, traced,
                 finalized, verdict, aborting, event, outcome, crashes>>

\* Mutant of RejectLog: the wrong terminal status.
RejectLogAsFailed(r) ==
  /\ pc[r] = "reject_log"
  /\ log' = [log EXCEPT ![Req(r)] = UpdatedRow(@, Owner(r), "failed")]
  /\ Committed(r, "reject_trace")
  /\ UNCHANGED <<conversation, trace, reservation, message, ledger, locals, crashes>>

\* The refusal is persisted before it is answered.
RejectLog(r) ==
  /\ pc[r] = "reject_log"
  /\ log' = [log EXCEPT ![Req(r)] = UpdatedRow(@, Owner(r), "rejected")]
  /\ Committed(r, "reject_trace")
  /\ UNCHANGED <<conversation, trace, reservation, message, ledger, locals, crashes>>

\* Mutant of RejectTrace: only the log is settled.
RejectWithoutTrace(r) ==
  /\ pc[r] = "reject_trace"
  /\ Goto(r, "done")
  /\ finalized' = [finalized EXCEPT ![r] = TRUE]
  /\ Returns(r, "rejected")
  /\ UNCHANGED <<tables, args, traced, estimated, verdict, aborting, event,
                 faults, crashes>>

RejectTrace(r) ==
  /\ pc[r] = "reject_trace"
  /\ trace' = [trace EXCEPT ![Req(r)] = UpdatedRow(@, Owner(r), "rejected")]
  /\ \/ /\ Goto(r, "done")
        /\ finalized' = [finalized EXCEPT ![r] = TRUE]
        /\ Returns(r, "rejected")
        /\ UNCHANGED faults
     \/ Throws(r) /\ UNCHANGED <<finalized, outcome>>
  /\ UNCHANGED <<conversation, log, reservation, message, ledger, args, traced,
                 estimated, verdict, aborting, event, crashes>>

\* Step 5: read the conversation and its messages for the agent.
ReadContext(r) ==
  /\ pc[r] = "context"
  /\ Committed(r, "call")
  /\ UNCHANGED <<tables, locals, crashes>>

------------------------------------------------------------------------------
(* The agent call and the verdict it leads to. *)

\* Query only: the client has gone before the agent is called.
CancelledBeforeCall(r) ==
  /\ pc[r] = "call" /\ args[r].mode = "sync"
  /\ Finalize(r, "cancelled", FALSE)
  /\ Returns(r, "cancelled")
  /\ UNCHANGED <<tables, args, traced, estimated, aborting, event, faults, crashes>>

\* Mutant of BreakerOpen: the rows of the refused query are forgotten.
BreakerForgetsRows(r) ==
  /\ pc[r] = "call" /\ ~Orchestrated
  /\ Goto(r, "done")
  /\ Returns(r, "breaker_open")
  /\ UNCHANGED <<tables, args, traced, estimated, finalized, verdict, aborting,
                 event, faults, crashes>>

BreakerOpen(r) ==
  /\ pc[r] = "call" /\ ~Orchestrated
  /\ Finalize(r, "failed", FALSE)
  /\ Returns(r, "breaker_open")
  /\ UNCHANGED <<tables, args, traced, estimated, aborting, event, faults, crashes>>

\* Query: the agent succeeds or reports an error, with or without text.
AgentAnswers(r) ==
  /\ pc[r] = "call" /\ args[r].mode = "sync"
  /\ \E answer \in BOOLEAN :
       \/ Finalize(r, "completed", answer) /\ Returns(r, "ok")
       \/ Finalize(r, "failed", answer) /\ Returns(r, "agent_error")
  /\ UNCHANGED <<tables, args, traced, estimated, aborting, event, faults, crashes>>

\* QueryStream: the terminal event is written before the rows are persisted.
\* A broken stream (A2A path) and a cancellation emit none.
StreamEnds(r) ==
  /\ pc[r] = "call" /\ args[r].mode = "stream"
  /\ \E answer \in BOOLEAN :
       \/ /\ Finalize(r, "completed", answer)
          /\ event' = [event EXCEPT ![r] = "complete"]
          /\ Returns(r, "ok")
       \/ /\ Finalize(r, "failed", answer)
          /\ event' = [event EXCEPT ![r] = "error"]
          /\ Returns(r, "agent_error")
       \/ /\ ~Orchestrated
          /\ Finalize(r, "failed", answer)
          /\ Returns(r, "agent_error")
          /\ UNCHANGED event
       \/ /\ Finalize(r, "cancelled", answer)
          /\ Returns(r, "cancelled")
          /\ UNCHANGED event
  /\ UNCHANGED <<tables, args, traced, estimated, aborting, faults, crashes>>

\* The agent call throws; the handler's catch block takes over.
AgentThrows(r) ==
  /\ pc[r] = "call"
  /\ Goto(r, "abort")
  /\ UNCHANGED <<tables, locals, faults, crashes>>

------------------------------------------------------------------------------
(* finalizeDurableQuery after its compare-exchange, one transaction each. *)

\* Mutant of Append: the conversation is found by its id alone.
AppendAnywhere(r, role) ==
  IF conversation[Conv(r)] # NoOwner /\ message[<<Req(r), role>>] = NoMessage
  THEN [message EXCEPT ![<<Req(r), role>>] = [owner |-> Owner(r), conv |-> Conv(r)]]
  ELSE message

\* appendMessageAutoSequence: only into the owner's own conversation, and
\* only when no row has this message id.
Append(r, role) ==
  IF conversation[Conv(r)] = Owner(r) /\ message[<<Req(r), role>>] = NoMessage
  THEN [message EXCEPT ![<<Req(r), role>>] = [owner |-> Owner(r), conv |-> Conv(r)]]
  ELSE message

\* Mutant of PersistUserMessage: only the first attempt persists the rest.
PersistFirstAttempt(r) ==
  /\ pc[r] = "user"
  /\ message' = Append(r, "user")
  /\ Committed(r, IF message[<<Req(r), "user">>] # NoMessage THEN "done"
                  ELSE IF verdict[r].answer THEN "assistant" ELSE "fin_log")
  /\ UNCHANGED <<conversation, log, trace, reservation, ledger, locals, crashes>>

PersistUserMessage(r) ==
  /\ pc[r] = "user"
  /\ message' = Append(r, "user")
  /\ Committed(r, IF verdict[r].answer THEN "assistant" ELSE "fin_log")
  /\ UNCHANGED <<conversation, log, trace, reservation, ledger, locals, crashes>>

PersistAnswer(r) ==
  /\ pc[r] = "assistant"
  /\ message' = Append(r, "assistant")
  /\ Committed(r, "fin_log")
  /\ UNCHANGED <<conversation, log, trace, reservation, ledger, locals, crashes>>

PersistLog(r) ==
  /\ pc[r] = "fin_log"
  /\ log' = [log EXCEPT ![Req(r)] = UpdatedRow(@, Owner(r), verdict[r].status)]
  /\ Committed(r, "fin_trace")
  /\ UNCHANGED <<conversation, trace, reservation, message, ledger, locals, crashes>>

PersistTrace(r) ==
  /\ pc[r] = "fin_trace"
  /\ trace' = IF traced[r]
              THEN [trace EXCEPT ![Req(r)] = UpdatedRow(@, Owner(r), verdict[r].status)]
              ELSE trace
  /\ Committed(r, "ledger")
  /\ UNCHANGED <<conversation, log, reservation, message, ledger, locals, crashes>>

\* Mutant of PersistUsage: the entry of an earlier run is overwritten.
UpsertUsage(r) ==
  /\ pc[r] = "ledger"
  /\ ledger' = [ledger EXCEPT ![Req(r)] = [owner |-> Owner(r), tokens |-> estimated[r]]]
  /\ Committed(r, "done")
  /\ UNCHANGED <<conversation, log, trace, reservation, message, locals, crashes>>

\* One ledger entry per request id: a duplicate is skipped.
PersistUsage(r) ==
  /\ pc[r] = "ledger"
  /\ ledger' = IF ledger[Req(r)] = NoTokens
               THEN [ledger EXCEPT ![Req(r)] = [owner |-> Owner(r), tokens |-> estimated[r]]]
               ELSE ledger
  /\ Committed(r, "done")
  /\ UNCHANGED <<conversation, log, trace, reservation, message, locals, crashes>>

------------------------------------------------------------------------------
(* Failures. *)

\* A transaction is rolled back and the repository call throws.
RolledBack(r) ==
  /\ pc[r] \in TxSteps
  /\ Throws(r)
  /\ estimated' = [estimated EXCEPT ![r] = IF pc[r] = "reserve" THEN Cost[Req(r)] ELSE @]
  /\ UNCHANGED <<tables, args, traced, finalized, verdict, aborting, event,
                 outcome, crashes>>

\* The catch block: abortDurableRun, whose finalize does nothing when the
\* run had already won its compare-exchange.
Abort(r) ==
  /\ pc[r] = "abort"
  /\ aborting' = [aborting EXCEPT ![r] = TRUE]
  /\ Returns(r, "aborted")
  /\ \/ finalized[r] /\ Goto(r, "done") /\ UNCHANGED <<finalized, verdict>>
     \/ ~finalized[r] /\ Finalize(r, "failed", FALSE)
  /\ UNCHANGED <<tables, args, traced, estimated, event, faults, crashes>>

\* The server process dies: every run in flight is gone, the tables stay.
Crash ==
  /\ crashes < MaxCrashes
  /\ crashes' = crashes + 1
  /\ \E r \in Runs : pc[r] \in InFlight
  /\ pc' = [r \in Runs |-> IF pc[r] \in InFlight THEN "done" ELSE pc[r]]
  /\ outcome' = [r \in Runs |-> IF pc[r] \in InFlight THEN "crashed" ELSE outcome[r]]
  /\ UNCHANGED <<tables, args, traced, estimated, finalized, verdict, aborting,
                 event, faults>>

------------------------------------------------------------------------------
\* One step of a handler that is running.
RunStep(r) ==
  \/ EnsureConversation(r) \/ CreateQueryLog(r) \/ CheckQueryLog(r)
  \/ CreateTrace(r) \/ CheckTrace(r)
  \/ Reserve(r) \/ RejectLog(r) \/ RejectTrace(r) \/ ReadContext(r)
  \/ CancelledBeforeCall(r) \/ BreakerOpen(r) \/ AgentAnswers(r)
  \/ StreamEnds(r) \/ AgentThrows(r)
  \/ PersistUserMessage(r) \/ PersistAnswer(r) \/ PersistLog(r)
  \/ PersistTrace(r) \/ PersistUsage(r)
  \/ RolledBack(r) \/ Abort(r)

Next == Crash \/ \E r \in Runs : Begin(r) \/ RunStep(r)

Spec == Init /\ [][Next]_vars

\* Every handler thread is scheduled; pool leases, agent calls and SQL
\* statements return, with an error if need be.  No client has to call.
FairSpec == Spec /\ \A r \in Runs : WF_vars(RunStep(r))

------------------------------------------------------------------------------
(* Properties. *)

\* Every table and every run-local variable keeps its shape.
TypeOK ==
  /\ conversation \in [Conversations -> Owners \cup {NoOwner}]
  /\ log \in [Requests -> Rows]
  /\ trace \in [Requests -> Rows]
  /\ reservation \in [Requests -> TokenRows]
  /\ message \in [Requests \X Roles -> Messages]
  /\ ledger \in [Requests -> TokenRows]
  /\ pc \in [Runs -> Steps]
  /\ args \in [Runs -> [owner: Owners, req: Requests, conv: Conversations, mode: Modes]]
  /\ traced \in [Runs -> BOOLEAN]
  /\ estimated \in [Runs -> Nat]
  /\ finalized \in [Runs -> BOOLEAN]
  /\ verdict \in [Runs -> [status: Terminal, answer: BOOLEAN]]
  /\ aborting \in [Runs -> BOOLEAN]
  /\ event \in [Runs -> {"none", "complete", "error"}]
  /\ outcome \in [Runs -> Outcomes]
  /\ faults \in 0..MaxFaults
  /\ crashes \in 0..MaxCrashes

\* What a run has established before it reaches a step, and what its verdict
\* rests on.
HoldsConversation(r) ==
  \/ pc[r] \in {"log", "log_check", "trace", "trace_check", "reserve",
               "reject_log", "reject_trace", "context", "call"}
  \/ verdict[r].answer
HoldsLog(r) ==
  pc[r] \in {"trace", "trace_check", "reserve", "reject_log", "reject_trace",
            "context", "call"}
HoldsTrace(r) == pc[r] \in {"reserve", "reject_log", "reject_trace", "context", "call"}
HoldsReservation(r) ==
  \/ pc[r] \in {"context", "call"}
  \/ verdict[r].status = "completed" \/ verdict[r].answer \/ event[r] = "complete"
  \/ MaxFaults = 0 /\ pc[r] \in {"abort", "user", "assistant", "fin_log", "fin_trace", "ledger"}

ChecksValid(r) ==
  /\ HoldsConversation(r) => conversation[Conv(r)] = Owner(r)
  /\ HoldsLog(r) => log[Req(r)].owner = Owner(r)
  /\ HoldsTrace(r) => trace[Req(r)].owner = Owner(r)
  /\ HoldsReservation(r) => reservation[Req(r)].owner = Owner(r)
  /\ pc[r] = "assistant" => verdict[r].answer /\ message[<<Req(r), "user">>] # NoMessage

\* What a run has checked in one transaction still holds in the later ones
\* that rely on it, whatever other runs commit in between: nothing is read
\* again before it is used (beginDurableRows, reserveBudgetOrReject, finalize).
ChecksStayValid == \A r \in Runs : ChecksValid(r)

\* The trace and the reservation of a request belong to the owner of its
\* query log, even when two owners race for one request id and transactions
\* fail (ai_query_service.cpp: beginDurableRows before reserveBudgetOrReject).
RowsShareOwner ==
  \A q \in Requests :
    /\ trace[q] # NoRow => trace[q].owner = log[q].owner
    /\ reservation[q] # NoTokens => reservation[q].owner = trace[q].owner

\* No race for a request id or a conversation mixes the data of two owners: not in
\* the tables, and not in what a run relies on.
OwnersAgree == ChecksStayValid /\ RowsShareOwner

\* No query is recorded as completed, in the log or in the trace, and no
\* client is sent a complete event, unless the tokens were reserved for the
\* same owner: no retry, duplicate or late finalize gets around the budget.
CompletedWasReserved ==
  /\ \A q \in Requests :
       /\ log[q].status = "completed" => reservation[q].owner = log[q].owner
       /\ trace[q].status = "completed" => reservation[q].owner = trace[q].owner
  /\ \A r \in Runs :
       event[r] = "complete" => reservation[Req(r)].owner = Owner(r)

\* A recorded message lies in a conversation of its owner, and an answer is
\* never recorded without its question and without a reservation of the
\* same owner, although these are separate transactions of racing runs.
HistoryWellFormed ==
  \A q \in Requests :
    /\ \A role \in Roles :
         message[<<q, role>>] # NoMessage =>
           conversation[message[<<q, role>>].conv] = message[<<q, role>>].owner
    /\ message[<<q, "assistant">>] # NoMessage =>
         /\ message[<<q, "user">>] # NoMessage
         /\ reservation[q].owner = message[<<q, "assistant">>].owner

\* What is recorded has what it rests on: a completion its reservation, an answer
\* its question, a message its conversation.
RecordsBacked == CompletedWasReserved /\ HistoryWellFormed

\* A run that answers OK has everything persisted: terminal log and trace,
\* the question, the answer if there is one, and the ledger entry.  Nothing
\* a concurrent retry does takes this back.
OkMeansDurable ==
  \A r \in Runs :
    pc[r] = "done" /\ outcome[r] = "ok" =>
      /\ log[Req(r)].status \in Terminal
      /\ trace[Req(r)].status \in Terminal
      /\ message[<<Req(r), "user">>] # NoMessage
      /\ verdict[r].answer => message[<<Req(r), "assistant">>] # NoMessage
      /\ ledger[Req(r)] # NoTokens

\* A query or its trace is running only while some run works on it, or after
\* a crash (README: any failing step ends in a persisted terminal state; the
\* crash guard of Query: rows already created are finalized as failed).
RunningHasWorker ==
  \A q \in Requests :
    "running" \in {log[q].status, trace[q].status} =>
      \E r \in Runs : Req(r) = q /\ (pc[r] \in InFlight \/ outcome[r] = "crashed")

\* The ledger charges exactly what was reserved (comment on estimateTokens:
\* "The same value is recorded in token_usage_ledger").
LedgerMatchesReservation ==
  \A q \in Requests :
    ledger[q] # NoTokens /\ reservation[q] # NoTokens => ledger[q] = reservation[q]

\* Retries never rewrite: reservations, messages and ledger entries are
\* immutable, a row never changes owner and never goes back to running.
RetriesNeverRewrite ==
  [][ /\ \A q \in Requests :
           /\ reservation[q] # NoTokens => reservation'[q] = reservation[q]
           /\ ledger[q] # NoTokens => ledger'[q] = ledger[q]
           /\ log[q] # NoRow => log'[q].owner = log[q].owner
           /\ log[q].status \in Terminal => log'[q].status \in Terminal
           /\ trace[q].status \in Terminal => trace'[q].status \in Terminal
      /\ \A m \in Requests \X Roles :
           message[m] # NoMessage => message'[m] = message[m] ]_vars

\* Without failing transactions no query stays running: whoever admitted it
\* settles it, or the server crashed under one of its runs.
RunningIsSettled ==
  \A q \in Requests :
    (log[q].status = "running") ~>
      \/ log[q].status \in Terminal
      \/ \E r \in Runs : Req(r) = q /\ outcome[r] = "crashed"

\* The pipeline implements the request life cycle.
Lifecycle == INSTANCE RequestLifecycle WITH
  Reliable <- MaxFaults = 0,
  status <- [q \in Requests |-> log[q].status],
  billed <- [q \in Requests |-> reservation[q] # NoTokens],
  history <- [q \in Requests |-> {role \in Roles : message[<<q, role>>] # NoMessage}],
  charged <- [q \in Requests |-> ledger[q] # NoTokens]
ImplementsLifecycle == Lifecycle!Spec
=============================================================================
