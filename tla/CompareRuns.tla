---------------------------- MODULE CompareRuns ----------------------------
(***************************************************************************)
(* CompareAgents: one question is put to several agents at once, each in a *)
(* worker thread that runs the pipeline of a query of its own, and a row   *)
(* of compare_runs tells how the run ended.  The row is written in         *)
(* transactions, which may fail or only lose their acknowledgement.        *)
(***************************************************************************)
CONSTANT Compared   \* the agents of the request

VARIABLES
  call,        \* where CompareAgents is or how it replied, and the status of its run
  outcome,     \* AgentOutcome of each agent
  row,         \* of compare_runs
  cancelled,   \* ctx->IsCancelled()
  mishaps      \* what went wrong; each write is done once
compareVars == <<call, outcome, row, cancelled, mishaps>>

NoRow == [status |-> "none", results |-> [a \in Compared |-> "none"]]
Replied == {"OK", "INTERNAL", "CANCELLED", "down"}
Mishaps == {"create failed", "create lost", "update failed", "update lost",
            "final failed", "final lost", "crash"}

CompareInit ==
  /\ call = [at |-> "start", status |-> "none"]
  /\ outcome = [a \in Compared |-> "none"] /\ row = NoRow
  /\ cancelled = FALSE /\ mishaps = {}

RunGoesTo(at) == call' = [call EXCEPT !.at = at]
GoesWrong(m) == mishaps' = mishaps \cup {m}
WritesRun(status, results) == row' = [status |-> status, results |-> results]
-----------------------------------------------------------------------------
CompareAgents ==
  /\ call.at = "start" /\ RunGoesTo(IF cancelled THEN "CANCELLED" ELSE "create")
  /\ UNCHANGED <<outcome, row, cancelled, mishaps>>

\* When the insert throws, the run does not count as created.
createCompareRun ==
  /\ call.at = "create"
  /\ \/ WritesRun("running", NoRow.results) /\ RunGoesTo("gate") /\ UNCHANGED mishaps
     \/ UNCHANGED row /\ RunGoesTo("INTERNAL") /\ GoesWrong("create failed")
     \/ WritesRun("running", NoRow.results) /\ RunGoesTo("INTERNAL") /\ GoesWrong("create lost")
  /\ UNCHANGED <<outcome, cancelled>>

\* The agent is registered and healthy, and its worker starts; or it fails here.
HealthGate(a) ==
  /\ call.at = "gate" /\ outcome[a] = "none"
  /\ \E o \in {"running", "failed"} : outcome' = [outcome EXCEPT ![a] = o]
  /\ UNCHANGED <<call, row, cancelled, mishaps>>

\* The worker's query ends, also while other agents are still looked up.
WorkerEnds(a) ==
  /\ call.at = "gate" /\ outcome[a] = "running"
  /\ \E o \in {"completed", "failed"} : outcome' = [outcome EXCEPT ![a] = o]
  /\ UNCHANGED <<call, row, cancelled, mishaps>>

Completed == {a \in Compared : outcome[a] = "completed"}
RunStatus ==
  IF cancelled THEN "cancelled"
  ELSE IF Completed = Compared THEN "completed"
  ELSE IF Completed = {} THEN "failed" ELSE "partial"

\* Mutant: workers are not waited for.
AggregatesStarted ==
  /\ call.at = "gate" /\ \A a \in Compared : outcome[a] # "none"
  /\ call' = [at |-> "update", status |-> RunStatus]
  /\ UNCHANGED <<outcome, row, cancelled, mishaps>>

\* All workers are joined.
Aggregate ==
  /\ call.at = "gate" /\ \A a \in Compared : outcome[a] \in {"completed", "failed"}
  /\ call' = [at |-> "update", status |-> RunStatus]
  /\ UNCHANGED <<outcome, row, cancelled, mishaps>>

updateCompareRun ==
  /\ call.at = "update"
  /\ \/ WritesRun(call.status, outcome) /\ RunGoesTo("OK") /\ UNCHANGED mishaps
     \/ UNCHANGED row /\ RunGoesTo("final") /\ GoesWrong("update failed")
     \/ WritesRun(call.status, outcome) /\ RunGoesTo("final") /\ GoesWrong("update lost")
  /\ UNCHANGED <<outcome, cancelled>>

\* One attempt to leave a terminal state.
WriteFailed ==
  /\ call.at = "final" /\ RunGoesTo("INTERNAL")
  /\ \/ WritesRun("failed", outcome) /\ UNCHANGED mishaps
     \/ UNCHANGED row /\ GoesWrong("final failed")
     \/ WritesRun("failed", outcome) /\ GoesWrong("final lost")
  /\ UNCHANGED <<outcome, cancelled>>

\* The client gives up; what runs is not stopped.
ClientCancels ==
  /\ call.at \notin Replied /\ ~cancelled /\ cancelled' = TRUE
  /\ UNCHANGED <<call, outcome, row, mishaps>>

ServerEnds ==
  /\ call.at \notin Replied /\ RunGoesTo("down") /\ GoesWrong("crash")
  /\ outcome' = [a \in Compared |-> IF outcome[a] = "running" THEN "none" ELSE outcome[a]]
  /\ UNCHANGED <<row, cancelled>>

CompareNext ==
  \/ CompareAgents \/ createCompareRun \/ Aggregate \/ updateCompareRun \/ WriteFailed
  \/ \E a \in Compared : HealthGate(a) \/ WorkerEnds(a)
  \/ ClientCancels \/ ServerEnds
CompareSpec == CompareInit /\ [][CompareNext]_compareVars
-----------------------------------------------------------------------------
CompareTypeOK ==
  /\ call.at \in Replied \cup {"start", "create", "gate", "update", "final"}
  /\ row.status \in {"none", "running", "completed", "failed", "partial", "cancelled"}
  /\ cancelled \in BOOLEAN /\ mishaps \subseteq Mishaps

Settled == row.status \notin {"none", "running"}

\* A run is settled when none of its queries runs any more, and its row keeps how
\* each of them ended.
SettledAfterWorkers == Settled => row.results = outcome /\ \A a \in Compared : outcome[a] # "running"

\* "a single failed agent never masks the whole run" (agent_lifecycle_service.cpp:439):
\* the status tells the outcomes apart, unless the client gave up or the first write
\* went wrong.
StatusTellsOutcomes ==
  /\ row.status = "completed" => Completed = Compared
  /\ row.status = "partial" => Completed \notin {{}, Compared}
  /\ row.status = "failed" =>
       Completed = {} \/ mishaps \cap {"update failed", "update lost"} # {}
  /\ row.status = "cancelled" => cancelled

\* A reply of OK is what the row says; after another reply the row is not settled
\* as anything but failed, unless both last writes went wrong.
ReplyTellsRow ==
  /\ call.at = "OK" => row.status = call.status
  /\ call.at = "INTERNAL" /\ Settled /\ row.status # "failed" =>
       {"update lost", "final failed"} \subseteq mishaps

\* "The run row must never stay "running" forever" (agent_lifecycle_service.cpp:511):
\* it does so only if the server ended, both last writes failed, or the server never
\* learned that it created the row.
RunningOnlyIfBroken ==
  call.at \in Replied /\ row.status = "running" =>
    \/ "crash" \in mishaps \/ "create lost" \in mishaps
    \/ {"update failed", "final failed"} \subseteq mishaps

CompareInvariant ==
  /\ CompareTypeOK /\ SettledAfterWorkers /\ StatusTellsOutcomes
  /\ ReplyTellsRow /\ RunningOnlyIfBroken
=============================================================================
