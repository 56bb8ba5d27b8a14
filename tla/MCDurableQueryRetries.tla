------------------------ MODULE MCDurableQueryRetries ------------------------
(***************************************************************************)
(* The pipeline with a history of the requests two runs of which were in   *)
(* flight at once: what holds for all others does not need the clients to  *)
(* wait, only that this request was not retried too early.                 *)
(***************************************************************************)
EXTENDS MCDurableQuery

VARIABLE overlapped

InFlightFor(q) == {r \in Runs : Req(r) = q /\ pc[r] \in InFlight}
Overlapping(q) == \E r, s \in InFlightFor(q) : r # s

RetriesInit == Init /\ overlapped = {}
RetriesNext ==
  /\ Next
  /\ overlapped' = overlapped \cup {q \in Requests : Overlapping(q)'}

RetriesSpec ==
  /\ RetriesInit /\ [][RetriesNext]_<<vars, overlapped>>
  /\ \A r \in Runs : WF_vars(RunStep(r))

\* Once nobody works on a request, its query log and its trace tell the same
\* story, unless runs of it overlapped or a run crashed between the two writes
\* (finalizeDurableQuery, reserveBudgetOrReject).
LogAndTraceAgree ==
  \A q \in Requests \ overlapped :
    InFlightFor(q) = {} /\ (\A r \in Runs : Req(r) = q => outcome[r] # "crashed") =>
      log[q] = trace[q]

\* What the tables say of one request agrees: the log with the trace, and the ledger
\* with the reservation.
RecordsAgree == LedgerMatchesReservation /\ LogAndTraceAgree
=============================================================================
