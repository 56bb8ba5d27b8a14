-------------------------- MODULE RequestLifecycle --------------------------
(***************************************************************************)
(* What the durable query pipeline promises about one request id, whatever *)
(* the number of runs, retries and crashes behind it: it is admitted once, *)
(* billed once, its history grows by the question and then the answer, it  *)
(* is charged once, and it is settled as completed only if it is billed.   *)
(***************************************************************************)
CONSTANTS
  Requests,     \* request ids
  Reliable      \* no transaction ever fails

VARIABLES
  status,       \* status of the request
  billed,       \* a budget reservation exists
  history,      \* roles whose message is recorded
  charged       \* a ledger entry exists

vars == <<status, billed, history, charged>>

Settled == {"completed", "failed", "cancelled", "rejected"}

Init ==
  /\ status = [q \in Requests |-> "none"]
  /\ billed = [q \in Requests |-> FALSE]
  /\ history = [q \in Requests |-> {}]
  /\ charged = [q \in Requests |-> FALSE]

Admit(q) ==
  /\ status[q] = "none"
  /\ status' = [status EXCEPT ![q] = "running"]
  /\ UNCHANGED <<billed, history, charged>>

Bill(q) ==
  /\ status[q] # "none" /\ ~billed[q]
  /\ billed' = [billed EXCEPT ![q] = TRUE]
  /\ UNCHANGED <<status, history, charged>>

\* A late duplicate run may settle the request again.
Settle(q, s) ==
  /\ status[q] # "none"
  /\ s = "completed" => billed[q]
  /\ status' = [status EXCEPT ![q] = s]
  /\ UNCHANGED <<billed, history, charged>>

\* After a failed transaction an aborted run may record its question and an
\* empty charge although nothing was billed.
RecordQuestion(q) ==
  /\ history[q] = {}
  /\ Reliable => billed[q]
  /\ history' = [history EXCEPT ![q] = {"user"}]
  /\ UNCHANGED <<status, billed, charged>>

RecordAnswer(q) ==
  /\ history[q] = {"user"}
  /\ billed[q]
  /\ history' = [history EXCEPT ![q] = {"user", "assistant"}]
  /\ UNCHANGED <<status, billed, charged>>

Charge(q) ==
  /\ ~charged[q]
  /\ Reliable => billed[q]
  /\ charged' = [charged EXCEPT ![q] = TRUE]
  /\ UNCHANGED <<status, billed, history>>

Next ==
  \E q \in Requests :
    \/ Admit(q) \/ Bill(q) \/ RecordQuestion(q) \/ RecordAnswer(q) \/ Charge(q)
    \/ \E s \in Settled : Settle(q, s)

Spec == Init /\ [][Next]_vars
=============================================================================
