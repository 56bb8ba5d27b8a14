------------------------- MODULE DurableQueryProofs -------------------------
(***************************************************************************)
(* Proofs about DurableQuery, for any number of runs, requests, owners,    *)
(* conversations, failing transactions and crashes.                        *)
(***************************************************************************)
EXTENDS MCDurableQueryRetries, TLAPS

(* Types of the control operators. *)

LEMMA ArgsType ==
  ASSUME TypeOK, NEW r \in Runs
  PROVE  Owner(r) \in Owners /\ Req(r) \in Requests /\ Conv(r) \in Conversations
  BY DEF TypeOK, Owner, Req, Conv

LEMMA GotoType ==
  ASSUME TypeOK, NEW r \in Runs, NEW step \in Steps, Goto(r, step)
  PROVE  pc' \in [Runs -> Steps]
  BY DEF TypeOK, Goto

LEMMA ThrowsType ==
  ASSUME TypeOK, NEW r \in Runs, Throws(r)
  PROVE  pc' \in [Runs -> Steps] /\ faults' \in 0..MaxFaults
<1>1. (IF aborting[r] THEN "done" ELSE "abort") \in Steps
  BY DEF Steps
<1> QED
  BY <1>1, BoundAssumption, GotoType DEF TypeOK, Throws

LEMMA CommittedType ==
  ASSUME TypeOK, NEW r \in Runs, NEW step \in Steps, Committed(r, step)
  PROVE  pc' \in [Runs -> Steps] /\ faults' \in 0..MaxFaults
  BY GotoType, ThrowsType DEF Committed, TypeOK

LEMMA RefusesType ==
  ASSUME TypeOK, NEW r \in Runs, Refuses(r)
  PROVE  pc' \in [Runs -> Steps] /\ faults' \in 0..MaxFaults /\ outcome' \in [Runs -> Outcomes]
<1>1. "done" \in Steps /\ "refused" \in Outcomes
  BY DEF Steps, Outcomes
<1>2. CASE Goto(r, "done") /\ Returns(r, "refused") /\ UNCHANGED faults
  BY <1>1, <1>2, GotoType DEF Returns, TypeOK
<1>3. CASE Throws(r) /\ UNCHANGED outcome
  BY <1>3, ThrowsType DEF TypeOK
<1> QED
  BY <1>2, <1>3 DEF Refuses

LEMMA UpdatedRowType ==
  ASSUME NEW row \in Rows, NEW owner \in Owners, NEW status \in LogStatus
  PROVE  UpdatedRow(row, owner, status) \in Rows
  BY RowAssumption DEF UpdatedRow, Rows, NoRow

LEMMA FinalizeType ==
  ASSUME TypeOK, NEW r \in Runs, NEW s \in Terminal, NEW a \in BOOLEAN, Finalize(r, s, a)
  PROVE  /\ pc' \in [Runs -> Steps]
         /\ finalized' \in [Runs -> BOOLEAN]
         /\ verdict' \in [Runs -> [status: Terminal, answer: BOOLEAN]]
<1>1. "user" \in Steps
  BY DEF Steps, TxSteps
<1> QED
  BY <1>1, GotoType DEF Finalize, TypeOK

LEMMA AppendType ==
  ASSUME TypeOK, NEW r \in Runs, NEW role \in Roles
  PROVE  Append(r, role) \in [Requests \X Roles -> Messages]
<1>1. <<Req(r), role>> \in Requests \X Roles
  BY ArgsType
<1>2. [owner |-> Owner(r), conv |-> Conv(r)] \in Messages
  BY ArgsType DEF Messages
<1> QED
  BY <1>1, <1>2 DEF Append, TypeOK

LEMMA StepNames ==
  /\ TxSteps \subseteq Steps /\ InFlight \subseteq Steps
  /\ {"idle", "call", "abort", "done"} \subseteq Steps
  BY DEF Steps, InFlight

(* Type correctness. *)

\* Each step of a run keeps the types.
LEMMA RunStepType ==
  ASSUME TypeOK, NEW r \in Runs, RunStep(r)
  PROVE  TypeOK'
<1> USE ArgsType, StepNames
<1>1. CASE EnsureConversation(r)
  <2>1. pc' \in [Runs -> Steps] /\ faults' \in 0..MaxFaults /\ outcome' \in [Runs -> Outcomes]
    BY <1>1, GotoType, ThrowsType, RefusesType DEF EnsureConversation, TypeOK, TxSteps
  <2>2. conversation' \in [Conversations -> Owners \cup {NoOwner}]
    <3>1. \/ conversation' = [conversation EXCEPT ![Conv(r)] = Owner(r)]
          \/ conversation' = conversation
      BY <1>1 DEF EnsureConversation
    <3> QED
      BY <3>1 DEF TypeOK
  <2>3. traced' \in [Runs -> BOOLEAN]
    BY <1>1 DEF EnsureConversation, TypeOK
  <2> QED
    BY <1>1, <2>1, <2>2, <2>3 DEF EnsureConversation, TypeOK
<1>2. CASE CreateQueryLog(r)
  <2>1. pc' \in [Runs -> Steps] /\ faults' \in 0..MaxFaults
    BY <1>2, CommittedType DEF CreateQueryLog, TxSteps
  <2>2. [owner |-> Owner(r), status |-> "running"] \in Rows
    BY DEF Rows, LogStatus
  <2>3. log' \in [Requests -> Rows]
    BY <1>2, <2>2 DEF CreateQueryLog, TypeOK
  <2> QED
    BY <1>2, <2>1, <2>3 DEF CreateQueryLog, TypeOK, locals
<1>3. CASE CheckQueryLog(r)
  <2>1. pc' \in [Runs -> Steps] /\ faults' \in 0..MaxFaults /\ outcome' \in [Runs -> Outcomes]
    BY <1>3, CommittedType, RefusesType DEF CheckQueryLog, TypeOK, TxSteps
  <2> QED
    BY <1>3, <2>1 DEF CheckQueryLog, TypeOK, tables
<1>4. CASE CreateTrace(r)
  <2>1. pc' \in [Runs -> Steps] /\ faults' \in 0..MaxFaults
    BY <1>4, CommittedType DEF CreateTrace, TxSteps
  <2>2. [owner |-> Owner(r), status |-> "running"] \in Rows
    BY DEF Rows, LogStatus
  <2>3. trace' \in [Requests -> Rows]
    BY <1>4, <2>2 DEF CreateTrace, TypeOK
  <2> QED
    BY <1>4, <2>1, <2>3 DEF CreateTrace, TypeOK, locals
<1>5. CASE CheckTrace(r)
  <2>1. pc' \in [Runs -> Steps] /\ faults' \in 0..MaxFaults /\ outcome' \in [Runs -> Outcomes]
    BY <1>5, CommittedType, RefusesType DEF CheckTrace, TypeOK, TxSteps
  <2> QED
    BY <1>5, <2>1 DEF CheckTrace, TypeOK, tables
<1>6. CASE Reserve(r)
  <2>1. pc' \in [Runs -> Steps] /\ faults' \in 0..MaxFaults
    BY <1>6, CommittedType DEF Reserve, TxSteps
  <2>2. Cost[Req(r)] \in Nat
    BY CostAssumption
  <2>3. [owner |-> Owner(r), tokens |-> Cost[Req(r)]] \in TokenRows
    BY <2>2 DEF TokenRows
  <2>4. reservation' \in [Requests -> TokenRows]
    BY <1>6, <2>3 DEF Reserve, TypeOK
  <2>5. estimated' \in [Runs -> Nat]
    BY <1>6, <2>2 DEF Reserve, TypeOK
  <2> QED
    BY <1>6, <2>1, <2>4, <2>5 DEF Reserve, TypeOK
<1>7. CASE RejectLog(r)
  <2>1. pc' \in [Runs -> Steps] /\ faults' \in 0..MaxFaults
    BY <1>7, CommittedType DEF RejectLog, TxSteps
  <2>2. log' \in [Requests -> Rows]
    BY <1>7, UpdatedRowType DEF RejectLog, TypeOK, LogStatus, Terminal
  <2> QED
    BY <1>7, <2>1, <2>2 DEF RejectLog, TypeOK, locals
<1>8. CASE RejectTrace(r)
  <2>1. /\ pc' \in [Runs -> Steps] /\ faults' \in 0..MaxFaults
        /\ finalized' \in [Runs -> BOOLEAN] /\ outcome' \in [Runs -> Outcomes]
    BY <1>8, GotoType, ThrowsType DEF RejectTrace, Returns, TypeOK, Outcomes
  <2>2. trace' \in [Requests -> Rows]
    BY <1>8, UpdatedRowType DEF RejectTrace, TypeOK, LogStatus, Terminal
  <2> QED
    BY <1>8, <2>1, <2>2 DEF RejectTrace, TypeOK
<1>9. CASE ReadContext(r)
  <2>1. pc' \in [Runs -> Steps] /\ faults' \in 0..MaxFaults
    BY <1>9, CommittedType DEF ReadContext
  <2> QED
    BY <1>9, <2>1 DEF ReadContext, TypeOK, tables, locals
<1>10. CASE CancelledBeforeCall(r)
  <2>1. /\ pc' \in [Runs -> Steps] /\ finalized' \in [Runs -> BOOLEAN]
        /\ verdict' \in [Runs -> [status: Terminal, answer: BOOLEAN]]
    BY <1>10, FinalizeType DEF CancelledBeforeCall, Terminal
  <2>2. outcome' \in [Runs -> Outcomes]
    BY <1>10 DEF CancelledBeforeCall, Returns, TypeOK, Outcomes
  <2> QED
    BY <1>10, <2>1, <2>2 DEF CancelledBeforeCall, TypeOK, tables
<1>11. CASE BreakerOpen(r)
  <2>1. /\ pc' \in [Runs -> Steps] /\ finalized' \in [Runs -> BOOLEAN]
        /\ verdict' \in [Runs -> [status: Terminal, answer: BOOLEAN]]
    BY <1>11, FinalizeType DEF BreakerOpen, Terminal
  <2>2. outcome' \in [Runs -> Outcomes]
    BY <1>11 DEF BreakerOpen, Returns, TypeOK, Outcomes
  <2> QED
    BY <1>11, <2>1, <2>2 DEF BreakerOpen, TypeOK, tables
<1>12. CASE AgentAnswers(r)
  <2>1. /\ pc' \in [Runs -> Steps] /\ finalized' \in [Runs -> BOOLEAN]
        /\ verdict' \in [Runs -> [status: Terminal, answer: BOOLEAN]]
    BY <1>12, FinalizeType DEF AgentAnswers, Terminal
  <2>2. outcome' \in [Runs -> Outcomes]
    BY <1>12 DEF AgentAnswers, Returns, TypeOK, Outcomes
  <2> QED
    BY <1>12, <2>1, <2>2 DEF AgentAnswers, TypeOK, tables
<1>13. CASE StreamEnds(r)
  <2>1. /\ pc' \in [Runs -> Steps] /\ finalized' \in [Runs -> BOOLEAN]
        /\ verdict' \in [Runs -> [status: Terminal, answer: BOOLEAN]]
    BY <1>13, FinalizeType DEF StreamEnds, Terminal
  <2>2. outcome' \in [Runs -> Outcomes] /\ event' \in [Runs -> {"none", "complete", "error"}]
    BY <1>13 DEF StreamEnds, Returns, TypeOK, Outcomes
  <2> QED
    BY <1>13, <2>1, <2>2 DEF StreamEnds, TypeOK, tables
<1>14. CASE AgentThrows(r)
  BY <1>14, GotoType DEF AgentThrows, TypeOK, tables, locals
<1>15. CASE PersistUserMessage(r)
  <2>1. pc' \in [Runs -> Steps] /\ faults' \in 0..MaxFaults
    BY <1>15, CommittedType DEF PersistUserMessage, TxSteps
  <2> QED
    BY <1>15, <2>1, AppendType DEF PersistUserMessage, TypeOK, locals, Roles
<1>16. CASE PersistAnswer(r)
  <2>1. pc' \in [Runs -> Steps] /\ faults' \in 0..MaxFaults
    BY <1>16, CommittedType DEF PersistAnswer, TxSteps
  <2> QED
    BY <1>16, <2>1, AppendType DEF PersistAnswer, TypeOK, locals, Roles
<1>17. CASE PersistLog(r)
  <2>1. pc' \in [Runs -> Steps] /\ faults' \in 0..MaxFaults
    BY <1>17, CommittedType DEF PersistLog, TxSteps
  <2>2. verdict[r].status \in LogStatus
    BY DEF TypeOK, LogStatus
  <2>3. log' \in [Requests -> Rows]
    BY <1>17, <2>2, UpdatedRowType DEF PersistLog, TypeOK
  <2> QED
    BY <1>17, <2>1, <2>3 DEF PersistLog, TypeOK, locals
<1>18. CASE PersistTrace(r)
  <2>1. pc' \in [Runs -> Steps] /\ faults' \in 0..MaxFaults
    BY <1>18, CommittedType DEF PersistTrace, TxSteps
  <2>2. verdict[r].status \in LogStatus
    BY DEF TypeOK, LogStatus
  <2>3. trace' \in [Requests -> Rows]
    BY <1>18, <2>2, UpdatedRowType DEF PersistTrace, TypeOK
  <2> QED
    BY <1>18, <2>1, <2>3 DEF PersistTrace, TypeOK, locals
<1>19. CASE PersistUsage(r)
  <2>1. pc' \in [Runs -> Steps] /\ faults' \in 0..MaxFaults
    BY <1>19, CommittedType DEF PersistUsage
  <2>2. ledger' \in [Requests -> TokenRows]
    BY <1>19 DEF PersistUsage, TypeOK, TokenRows
  <2> QED
    BY <1>19, <2>1, <2>2 DEF PersistUsage, TypeOK, locals
<1>20. CASE RolledBack(r)
  <2>1. pc' \in [Runs -> Steps] /\ faults' \in 0..MaxFaults
    BY <1>20, ThrowsType DEF RolledBack
  <2>2. estimated' \in [Runs -> Nat]
    BY <1>20, CostAssumption DEF RolledBack, TypeOK
  <2> QED
    BY <1>20, <2>1, <2>2 DEF RolledBack, TypeOK, tables
<1>21. CASE Abort(r)
  <2>1. /\ pc' \in [Runs -> Steps] /\ finalized' \in [Runs -> BOOLEAN]
        /\ verdict' \in [Runs -> [status: Terminal, answer: BOOLEAN]]
    BY <1>21, FinalizeType, GotoType DEF Abort, Terminal, TypeOK
  <2>2. outcome' \in [Runs -> Outcomes] /\ aborting' \in [Runs -> BOOLEAN]
    BY <1>21 DEF Abort, Returns, TypeOK, Outcomes
  <2> QED
    BY <1>21, <2>1, <2>2 DEF Abort, TypeOK, tables
<1> QED
  BY <1>1, <1>2, <1>3, <1>4, <1>5, <1>6, <1>7, <1>8, <1>9, <1>10, <1>11, <1>12,
     <1>13, <1>14, <1>15, <1>16, <1>17, <1>18, <1>19, <1>20, <1>21 DEF RunStep

LEMMA InitType == Init => TypeOK
<1> SUFFICES ASSUME Init PROVE TypeOK
  OBVIOUS
<1>1. /\ log \in [Requests -> Rows] /\ trace \in [Requests -> Rows]
      /\ reservation \in [Requests -> TokenRows]
      /\ message \in [Requests \X Roles -> Messages]
      /\ ledger \in [Requests -> TokenRows]
  BY DEF Init, Rows, TokenRows, Messages
<1>2. /\ conversation \in [Conversations -> Owners \cup {NoOwner}]
      /\ pc \in [Runs -> Steps]
      /\ traced \in [Runs -> BOOLEAN] /\ estimated \in [Runs -> Nat]
      /\ finalized \in [Runs -> BOOLEAN] /\ aborting \in [Runs -> BOOLEAN]
      /\ event \in [Runs -> {"none", "complete", "error"}]
      /\ outcome \in [Runs -> Outcomes]
  BY StepNames DEF Init, Outcomes
<1>3. verdict \in [Runs -> [status: Terminal, answer: BOOLEAN]]
  BY DEF Init, Terminal
<1> QED
  BY <1>1, <1>2, <1>3, BoundAssumption DEF Init, TypeOK

LEMMA NextType == TypeOK /\ [Next]_vars => TypeOK'
<1> SUFFICES ASSUME TypeOK, [Next]_vars
             PROVE  TypeOK'
  OBVIOUS
<1>1. CASE UNCHANGED vars
  BY <1>1 DEF TypeOK, vars, tables, locals
<1>2. CASE Crash
  <2>1. pc' \in [Runs -> Steps] /\ outcome' \in [Runs -> Outcomes]
    BY <1>2, StepNames DEF Crash, TypeOK, Outcomes
  <2>2. crashes' \in 0..MaxCrashes
    BY <1>2, BoundAssumption DEF Crash, TypeOK
  <2> QED
    BY <1>2, <2>1, <2>2 DEF Crash, TypeOK, tables
<1>3. CASE \E r \in Runs : Begin(r)
  BY <1>3, GotoType, StepNames DEF Begin, TypeOK, tables, locals, TxSteps
<1> QED
  BY <1>1, <1>2, <1>3, RunStepType DEF Next

\* Every variable keeps its type.
THEOREM TypeCorrect == Spec => []TypeOK
  BY InitType, NextType, PTL DEF Spec

(* The tables only grow. *)

\* A row, once there, keeps its owner; reservations, messages and ledger
\* entries are immutable.
Grows ==
  /\ args' = args
  /\ \A c \in Conversations : conversation[c] # NoOwner => conversation'[c] = conversation[c]
  /\ \A q \in Requests :
       /\ log[q] # NoRow => log'[q].owner = log[q].owner
       /\ trace[q] # NoRow => trace'[q].owner = trace[q].owner
       /\ reservation[q] # NoTokens => reservation'[q] = reservation[q]
       /\ ledger[q] # NoTokens => ledger'[q] = ledger[q]
  /\ \A m \in Requests \X Roles : message[m] # NoMessage => message'[m] = message[m]

\* A row without an owner is the null row.
LEMMA NullRows ==
  ASSUME TypeOK
  PROVE  /\ \A q \in Requests :
              /\ log[q] = NoRow <=> log[q].owner = NoOwner
              /\ trace[q] = NoRow <=> trace[q].owner = NoOwner
              /\ reservation[q] = NoTokens <=> reservation[q].owner = NoOwner
         /\ \A m \in Requests \X Roles : message[m] = NoMessage <=> message[m].owner = NoOwner
<1>1. \A row \in Rows : row = NoRow <=> row.owner = NoOwner
  BY RowAssumption DEF Rows, NoRow
<1>2. \A row \in TokenRows : row = NoTokens <=> row.owner = NoOwner
  BY RowAssumption DEF TokenRows, NoTokens
<1>3. \A row \in Messages : row = NoMessage <=> row.owner = NoOwner
  BY RowAssumption DEF Messages, NoMessage
<1> QED
  BY <1>1, <1>2, <1>3 DEF TypeOK

LEMMA UpdatedRowOwner ==
  ASSUME NEW row \in Rows, NEW owner, NEW status
  PROVE  UpdatedRow(row, owner, status).owner = row.owner
  BY DEF UpdatedRow, Rows, NoRow

LEMMA RunStepGrows ==
  ASSUME TypeOK, NEW r \in Runs, RunStep(r)
  PROVE  Grows
<1> USE ArgsType DEF Grows
<1>1. CASE EnsureConversation(r)
  BY <1>1, RowAssumption DEF EnsureConversation, TypeOK
<1>2. CASE CreateQueryLog(r)
  BY <1>2 DEF CreateQueryLog, TypeOK, locals
<1>3. CASE CreateTrace(r)
  BY <1>3 DEF CreateTrace, TypeOK, locals
<1>4. CASE Reserve(r)
  BY <1>4, NullRows DEF Reserve, TypeOK
<1>5. CASE RejectLog(r)
  BY <1>5, UpdatedRowOwner DEF RejectLog, TypeOK, locals
<1>6. CASE RejectTrace(r)
  BY <1>6, UpdatedRowOwner DEF RejectTrace, TypeOK
<1>7. CASE PersistUserMessage(r)
  BY <1>7 DEF PersistUserMessage, Append, TypeOK, locals
<1>8. CASE PersistAnswer(r)
  BY <1>8 DEF PersistAnswer, Append, TypeOK, locals
<1>9. CASE PersistLog(r)
  BY <1>9, UpdatedRowOwner DEF PersistLog, TypeOK, locals
<1>10. CASE PersistTrace(r)
  BY <1>10, UpdatedRowOwner DEF PersistTrace, TypeOK, locals
<1>11. CASE PersistUsage(r)
  BY <1>11 DEF PersistUsage, TypeOK, locals
<1>12. CASE CheckQueryLog(r) \/ CheckTrace(r) \/ ReadContext(r)
  BY <1>12 DEF CheckQueryLog, CheckTrace, ReadContext, tables, locals
<1>13. CASE CancelledBeforeCall(r) \/ BreakerOpen(r) \/ AgentAnswers(r) \/ StreamEnds(r)
  BY <1>13 DEF CancelledBeforeCall, BreakerOpen, AgentAnswers, StreamEnds, tables
<1>14. CASE AgentThrows(r) \/ RolledBack(r) \/ Abort(r)
  BY <1>14 DEF AgentThrows, RolledBack, Abort, tables, locals
<1> QED
  BY <1>1, <1>2, <1>3, <1>4, <1>5, <1>6, <1>7, <1>8, <1>9, <1>10, <1>11, <1>12,
     <1>13, <1>14 DEF RunStep

(* The checks of a run stay valid. *)

\* A step of one run leaves the local state of the others alone.
LEMMA RunStepIsLocal ==
  ASSUME TypeOK, NEW r \in Runs, RunStep(r), NEW s \in Runs \ {r}
  PROVE  pc'[s] = pc[s] /\ verdict'[s] = verdict[s] /\ event'[s] = event[s]
<1>1. \A step : Goto(r, step) => pc'[s] = pc[s]
  BY DEF Goto, TypeOK
<1>2. Throws(r) => pc'[s] = pc[s]
  BY <1>1 DEF Throws
<1>3. \A step : Committed(r, step) => pc'[s] = pc[s]
  BY <1>1, <1>2 DEF Committed
<1>4. \A status, answer : Finalize(r, status, answer) => pc'[s] = pc[s] /\ verdict'[s] = verdict[s]
  BY <1>1 DEF Finalize, TypeOK
<1>5. Refuses(r) => pc'[s] = pc[s]
  BY <1>1, <1>2 DEF Refuses
<1>6. CASE EnsureConversation(r) \/ CreateQueryLog(r) \/ CheckQueryLog(r)
           \/ CreateTrace(r) \/ CheckTrace(r)
  BY <1>6, <1>1, <1>2, <1>3, <1>5
  DEF EnsureConversation, CreateQueryLog, CheckQueryLog, CreateTrace, CheckTrace, locals
<1>7. CASE Reserve(r) \/ RejectLog(r) \/ RejectTrace(r) \/ ReadContext(r)
  BY <1>7, <1>1, <1>2, <1>3 DEF Reserve, RejectLog, RejectTrace, ReadContext, locals
<1>8. CASE CancelledBeforeCall(r) \/ BreakerOpen(r) \/ AgentAnswers(r)
  BY <1>8, <1>4 DEF CancelledBeforeCall, BreakerOpen, AgentAnswers
<1>9. CASE StreamEnds(r)
  BY <1>9, <1>4 DEF StreamEnds, TypeOK
<1>10. CASE PersistUserMessage(r) \/ PersistAnswer(r) \/ PersistLog(r)
            \/ PersistTrace(r) \/ PersistUsage(r)
  BY <1>10, <1>3
  DEF PersistUserMessage, PersistAnswer, PersistLog, PersistTrace, PersistUsage, locals
<1>11. CASE AgentThrows(r) \/ RolledBack(r) \/ Abort(r)
  BY <1>11, <1>1, <1>2, <1>4 DEF AgentThrows, RolledBack, Abort, locals
<1> QED
  BY <1>6, <1>7, <1>8, <1>9, <1>10, <1>11 DEF RunStep

\* What held of the rows of a run still holds after any step.
LEMMA RowsStay ==
  ASSUME TypeOK, Grows, NEW r \in Runs
  PROVE  /\ Owner(r)' = Owner(r) /\ Req(r)' = Req(r) /\ Conv(r)' = Conv(r)
         /\ conversation[Conv(r)] = Owner(r) => conversation'[Conv(r)] = Owner(r)
         /\ log[Req(r)].owner = Owner(r) => log'[Req(r)].owner = Owner(r)
         /\ trace[Req(r)].owner = Owner(r) => trace'[Req(r)].owner = Owner(r)
         /\ reservation[Req(r)].owner = Owner(r) => reservation'[Req(r)].owner = Owner(r)
         /\ message[<<Req(r), "user">>] # NoMessage => message'[<<Req(r), "user">>] # NoMessage
<1>1. Owner(r)' = Owner(r) /\ Req(r)' = Req(r) /\ Conv(r)' = Conv(r)
  BY DEF Grows, Owner, Req, Conv
<1>2. <<Req(r), "user">> \in Requests \X Roles
  BY ArgsType DEF Roles
<1> QED
  BY <1>1, <1>2, ArgsType, NullRows, RowAssumption DEF Grows

\* A run whose local state does not change keeps what it has checked.
LEMMA UnmovedChecks ==
  ASSUME TypeOK, Grows, NEW s \in Runs, ChecksValid(s),
         pc'[s] = pc[s], verdict'[s] = verdict[s], event'[s] = event[s]
  PROVE  ChecksValid(s)'
  BY RowsStay DEF ChecksValid, HoldsConversation, HoldsLog, HoldsTrace, HoldsReservation

\* Neither does a run that is done, or that leaves its try block.
LEMMA LeavingChecks ==
  ASSUME TypeOK, Grows, NEW r \in Runs, ChecksValid(r),
         pc'[r] \in {"done", "abort"}, pc'[r] = "abort" /\ MaxFaults = 0 => HoldsReservation(r),
         verdict'[r] = verdict[r], event'[r] = event[r]
  PROVE  ChecksValid(r)'
  BY RowsStay DEF ChecksValid, HoldsConversation, HoldsLog, HoldsTrace, HoldsReservation

\* Where a transaction leads to.
LEMMA NextPc ==
  ASSUME TypeOK, NEW r \in Runs
  PROVE  /\ \A step : Goto(r, step) => pc'[r] = step
         /\ Throws(r) => pc'[r] \in {"done", "abort"} /\ MaxFaults # 0
         /\ Refuses(r) => pc'[r] \in {"done", "abort"} /\ (pc'[r] = "abort" => MaxFaults # 0)
         /\ \A step : Committed(r, step) =>
              pc'[r] = step \/ (pc'[r] \in {"done", "abort"} /\ MaxFaults # 0)
<1>1. \A step : Goto(r, step) => pc'[r] = step
  BY DEF Goto, TypeOK
<1>2. Throws(r) => pc'[r] \in {"done", "abort"} /\ MaxFaults # 0
  BY <1>1, BoundAssumption DEF Throws, TypeOK
<1> QED
  BY <1>1, <1>2 DEF Committed, Refuses

\* Every step of a run establishes what the run relies on next.
LEMMA RunStepChecks ==
  ASSUME TypeOK, NEW r \in Runs, ChecksValid(r), RunStep(r)
  PROVE  ChecksValid(r)'
<1> DEFINE Same == verdict'[r] = verdict[r] /\ event'[r] = event[r]
           Leaves == pc'[r] \in {"done", "abort"} /\ (pc'[r] = "abort" => MaxFaults # 0)
           Held == /\ HoldsConversation(r) => conversation'[Conv(r)] = Owner(r)
                   /\ HoldsLog(r) => log'[Req(r)].owner = Owner(r)
                   /\ HoldsTrace(r) => trace'[Req(r)].owner = Owner(r)
                   /\ HoldsReservation(r) => reservation'[Req(r)].owner = Owner(r)
<1>1. Grows /\ Owner(r)' = Owner(r) /\ Req(r)' = Req(r) /\ Conv(r)' = Conv(r)
  BY RunStepGrows, RowsStay
<1>2. Held
  BY <1>1, RowsStay DEF ChecksValid
<1>3. Same /\ Leaves => ChecksValid(r)'
  BY <1>1, LeavingChecks
<1> HIDE DEF Held
<1> USE <1>1, <1>2, <1>3, ArgsType, NextPc
    DEF HoldsConversation, HoldsLog, HoldsTrace, HoldsReservation
<1>4. CASE EnsureConversation(r)
  <2>1. Same
    BY <1>4 DEF EnsureConversation
  <2>2. CASE pc'[r] = "log"
    <3>1. conversation'[Conv(r)] = Owner(r)
      BY <1>4, <2>2 DEF EnsureConversation, TypeOK
    <3> QED
      BY <1>4, <2>1, <2>2, <3>1 DEF EnsureConversation, ChecksValid, Held
  <2>3. pc'[r] = "log" \/ Leaves
    BY <1>4 DEF EnsureConversation
  <2> QED
    BY <2>1, <2>2, <2>3
<1>5. CASE CreateQueryLog(r)
  <2>1. Same
    BY <1>5 DEF CreateQueryLog, locals
  <2>2. pc'[r] \in {"trace", "log_check"} \/ Leaves
    BY <1>5 DEF CreateQueryLog
  <2>3. CASE pc'[r] = "trace"
    <3>1. log'[Req(r)].owner = Owner(r)
      <4>1. log' = [log EXCEPT ![Req(r)] = [owner |-> Owner(r), status |-> "running"]]
        BY <1>5, <2>3 DEF CreateQueryLog
      <4> QED
        BY <4>1 DEF TypeOK
    <3> QED
      BY <1>5, <2>1, <2>3, <3>1 DEF CreateQueryLog, ChecksValid, Held
  <2>4. CASE pc'[r] = "log_check"
    BY <1>5, <2>1, <2>4 DEF CreateQueryLog, ChecksValid, Held
  <2> QED
    BY <2>1, <2>2, <2>3, <2>4
<1>6. CASE CheckQueryLog(r)
  <2>1. Same
    BY <1>6 DEF CheckQueryLog
  <2>2. pc'[r] = "trace" \/ Leaves
    BY <1>6 DEF CheckQueryLog
  <2>3. CASE pc'[r] = "trace"
    <3>1. log'[Req(r)].owner = Owner(r)
      BY <1>6, <2>3 DEF CheckQueryLog, tables
    <3> QED
      BY <1>6, <2>1, <2>3, <3>1 DEF CheckQueryLog, ChecksValid, Held
  <2> QED
    BY <2>1, <2>2, <2>3
<1>7. CASE CreateTrace(r)
  <2>1. Same
    BY <1>7 DEF CreateTrace, locals
  <2>2. pc'[r] \in {"reserve", "trace_check"} \/ Leaves
    BY <1>7 DEF CreateTrace
  <2>3. CASE pc'[r] = "reserve"
    <3>1. trace'[Req(r)].owner = Owner(r)
      <4>1. trace' = [trace EXCEPT ![Req(r)] = [owner |-> Owner(r), status |-> "running"]]
        BY <1>7, <2>3 DEF CreateTrace
      <4> QED
        BY <4>1 DEF TypeOK
    <3> QED
      BY <1>7, <2>1, <2>3, <3>1 DEF CreateTrace, ChecksValid, Held
  <2>4. CASE pc'[r] = "trace_check"
    BY <1>7, <2>1, <2>4 DEF CreateTrace, ChecksValid, Held
  <2> QED
    BY <2>1, <2>2, <2>3, <2>4
<1>8. CASE CheckTrace(r)
  <2>1. Same
    BY <1>8 DEF CheckTrace
  <2>2. pc'[r] = "reserve" \/ Leaves
    BY <1>8 DEF CheckTrace
  <2>3. CASE pc'[r] = "reserve"
    <3>1. trace'[Req(r)].owner = Owner(r)
      BY <1>8, <2>3 DEF CheckTrace, tables
    <3> QED
      BY <1>8, <2>1, <2>3, <3>1 DEF CheckTrace, ChecksValid, Held
  <2> QED
    BY <2>1, <2>2, <2>3
<1>9. CASE Reserve(r)
  <2>1. Same
    BY <1>9 DEF Reserve
  <2>2. pc'[r] \in {"context", "reject_log"} \/ Leaves
    BY <1>9 DEF Reserve
  <2>3. CASE pc'[r] = "context"
    <3>1. reservation'[Req(r)].owner = Owner(r)
      <4>1. \/ reservation[Req(r)].owner = Owner(r) /\ reservation' = reservation
            \/ reservation' = [reservation EXCEPT
                 ![Req(r)] = [owner |-> Owner(r), tokens |-> Cost[Req(r)]]]
        BY <1>9, <2>3 DEF Reserve
      <4> QED
        BY <4>1 DEF TypeOK
    <3> QED
      BY <1>9, <2>1, <2>3, <3>1 DEF Reserve, ChecksValid, Held
  <2>4. CASE pc'[r] = "reject_log"
    BY <1>9, <2>1, <2>4 DEF Reserve, ChecksValid, Held
  <2> QED
    BY <2>1, <2>2, <2>3, <2>4
<1>10. CASE RejectLog(r) \/ RejectTrace(r)
  <2>1. Same
    BY <1>10 DEF RejectLog, RejectTrace, locals
  <2>2. pc'[r] = "reject_trace" \/ Leaves
    BY <1>10 DEF RejectLog, RejectTrace
  <2>3. CASE pc'[r] = "reject_trace"
    BY <1>10, <2>1, <2>3 DEF RejectLog, RejectTrace, ChecksValid, Held
  <2> QED
    BY <2>1, <2>2, <2>3
<1>11. CASE ReadContext(r)
  <2>1. Same
    BY <1>11 DEF ReadContext, locals
  <2>2. pc'[r] = "call" \/ Leaves
    BY <1>11 DEF ReadContext
  <2>3. CASE pc'[r] = "call"
    BY <1>11, <2>1, <2>3 DEF ReadContext, ChecksValid, Held
  <2> QED
    BY <2>1, <2>2, <2>3
<1>12. CASE CancelledBeforeCall(r) \/ BreakerOpen(r) \/ AgentAnswers(r) \/ StreamEnds(r)
  <2>1. pc[r] = "call" /\ pc'[r] = "user"
    BY <1>12 DEF CancelledBeforeCall, BreakerOpen, AgentAnswers, StreamEnds, Finalize
  <2> QED
    BY <2>1 DEF ChecksValid, Held
<1>13. CASE AgentThrows(r)
  <2>1. Same /\ pc[r] = "call" /\ pc'[r] = "abort"
    BY <1>13 DEF AgentThrows, locals
  <2> QED
    BY <2>1, LeavingChecks
<1>14. CASE PersistUserMessage(r)
  <2>1. Same
    BY <1>14 DEF PersistUserMessage, locals
  <2>2. pc'[r] = (IF verdict[r].answer THEN "assistant" ELSE "fin_log") \/ Leaves
    BY <1>14 DEF PersistUserMessage
  <2>3. CASE pc'[r] = (IF verdict[r].answer THEN "assistant" ELSE "fin_log")
    <3>1. verdict[r].answer => message'[<<Req(r), "user">>] # NoMessage
      <4>1. <<Req(r), "user">> \in Requests \X Roles
        BY DEF Roles
      <4>2. [owner |-> Owner(r), conv |-> Conv(r)] # NoMessage
        BY RowAssumption DEF NoMessage
      <4>3. verdict[r].answer => conversation[Conv(r)] = Owner(r)
        BY DEF ChecksValid
      <4> QED
        BY <1>14, <4>1, <4>2, <4>3 DEF PersistUserMessage, Append, TypeOK
    <3> QED
      BY <1>14, <2>1, <2>3, <3>1 DEF PersistUserMessage, ChecksValid, Held
  <2> QED
    BY <2>1, <2>2, <2>3
<1>15. CASE PersistAnswer(r) \/ PersistLog(r) \/ PersistTrace(r) \/ PersistUsage(r)
  <2>1. Same
    BY <1>15 DEF PersistAnswer, PersistLog, PersistTrace, PersistUsage, locals
  <2>2. pc'[r] \in {"fin_log", "fin_trace", "ledger"} \/ Leaves
    BY <1>15 DEF PersistAnswer, PersistLog, PersistTrace, PersistUsage
  <2>3. CASE pc'[r] \in {"fin_log", "fin_trace", "ledger"}
    BY <1>15, <2>1, <2>3
    DEF PersistAnswer, PersistLog, PersistTrace, PersistUsage, ChecksValid, Held
  <2> QED
    BY <2>1, <2>2, <2>3
<1>16. CASE RolledBack(r)
  BY <1>16 DEF RolledBack
<1>17. CASE Abort(r)
  <2>1. CASE finalized[r]
    BY <1>17, <2>1 DEF Abort, Finalize
  <2>2. CASE ~finalized[r]
    <3>1. pc[r] = "abort" /\ pc'[r] = "user" /\ event'[r] = event[r]
      BY <1>17, <2>2 DEF Abort, Finalize
    <3>2. verdict'[r] = [status |-> "failed", answer |-> FALSE]
      BY <1>17, <2>2 DEF Abort, Finalize, TypeOK
    <3> QED
      BY <3>1, <3>2 DEF ChecksValid, Held
  <2> QED
    BY <2>1, <2>2
<1> QED
  BY <1>4, <1>5, <1>6, <1>7, <1>8, <1>9, <1>10, <1>11, <1>12, <1>13, <1>14, <1>15,
     <1>16, <1>17 DEF RunStep

(* The invariants of the tables. *)

LEMMA RunStepOwners ==
  ASSUME TypeOK, NEW r \in Runs, ChecksValid(r), RowsShareOwner, RunStep(r)
  PROVE  RowsShareOwner'
<1> USE ArgsType, NullRows, RowAssumption
<1>1. /\ HoldsLog(r) => log[Req(r)].owner = Owner(r)
      /\ HoldsTrace(r) => trace[Req(r)].owner = Owner(r)
  BY DEF ChecksValid
<1>2. Grows
  BY RunStepGrows
<1>3. CASE UNCHANGED <<trace, reservation>>
  BY <1>2, <1>3 DEF RowsShareOwner, Grows
<1>4. CASE CreateTrace(r)
  <2>1. HoldsLog(r) /\ UNCHANGED <<log, reservation>>
    BY <1>4 DEF CreateTrace, HoldsLog
  <2>2. CASE trace' = [trace EXCEPT ![Req(r)] = [owner |-> Owner(r), status |-> "running"]]
             /\ trace[Req(r)] = NoRow
    BY <1>1, <2>1, <2>2 DEF RowsShareOwner, TypeOK, NoRow
  <2> QED
    BY <1>4, <1>3, <2>1, <2>2 DEF CreateTrace
<1>5. CASE Reserve(r)
  <2>1. HoldsTrace(r) /\ UNCHANGED <<log, trace>>
    BY <1>5 DEF Reserve, HoldsTrace
  <2>2. CASE reservation' = [reservation EXCEPT
               ![Req(r)] = [owner |-> Owner(r), tokens |-> Cost[Req(r)]]]
    BY <1>1, <2>1, <2>2 DEF RowsShareOwner, TypeOK
  <2> QED
    BY <1>5, <1>3, <2>1, <2>2 DEF Reserve
<1>6. CASE RejectTrace(r) \/ PersistTrace(r)
  <2>1. UNCHANGED <<log, reservation>>
    BY <1>6 DEF RejectTrace, PersistTrace
  <2>2. \A q \in Requests :
          trace'[q] = trace[q] \/ \E status : trace'[q] = UpdatedRow(trace[q], Owner(r), status)
    BY <1>6 DEF RejectTrace, PersistTrace, TypeOK
  <2>3. \A q \in Requests : trace'[q].owner = trace[q].owner
    <3>1. \A status : \A q \in Requests :
            UpdatedRow(trace[q], Owner(r), status).owner = trace[q].owner
      BY UpdatedRowOwner DEF TypeOK
    <3> QED
      BY <2>2, <3>1
  <2>4. \A q \in Requests : trace[q] = NoRow => trace'[q] = NoRow
    <3>1. \A status : UpdatedRow(NoRow, Owner(r), status) = NoRow
      BY DEF UpdatedRow, NoRow
    <3> QED
      BY <2>2, <3>1
  <2> QED
    BY <2>1, <2>3, <2>4 DEF RowsShareOwner
<1>7. CASE EnsureConversation(r) \/ CreateQueryLog(r) \/ CheckQueryLog(r) \/ CheckTrace(r)
           \/ RejectLog(r) \/ ReadContext(r)
  BY <1>3, <1>7
  DEF EnsureConversation, CreateQueryLog, CheckQueryLog, CheckTrace, RejectLog, ReadContext, tables
<1>8. CASE CancelledBeforeCall(r) \/ BreakerOpen(r) \/ AgentAnswers(r) \/ StreamEnds(r)
           \/ AgentThrows(r) \/ RolledBack(r) \/ Abort(r)
  BY <1>3, <1>8 DEF CancelledBeforeCall, BreakerOpen, AgentAnswers, StreamEnds,
     AgentThrows, RolledBack, Abort, tables
<1>9. CASE PersistUserMessage(r) \/ PersistAnswer(r) \/ PersistLog(r) \/ PersistUsage(r)
  BY <1>3, <1>9 DEF PersistUserMessage, PersistAnswer, PersistLog, PersistUsage
<1> QED
  BY <1>4, <1>5, <1>6, <1>7, <1>8, <1>9 DEF RunStep

\* A row is updated to completed only by a run whose owner holds the reservation.
LEMMA RunStepCompleted ==
  ASSUME TypeOK, NEW r \in Runs, ChecksStayValid, CompletedWasReserved, RunStep(r)
  PROVE  CompletedWasReserved'
<1> USE ArgsType, NullRows, RowAssumption
<1>1. verdict[r].status = "completed" => reservation[Req(r)].owner = Owner(r)
  BY DEF ChecksStayValid, ChecksValid, HoldsReservation
<1>2. Grows
  BY RunStepGrows
<1>3. \A q \in Requests : reservation[q].owner # NoOwner => reservation'[q] = reservation[q]
  BY <1>2 DEF Grows
<1>4. \A q \in Requests : log[q].status = "completed" \/ trace[q].status = "completed"
                            => reservation'[q] = reservation[q]
  <2>1. \A row \in Rows : row.status = "completed" => row.owner # NoOwner
    BY DEF Rows, NoRow
  <2>2. ASSUME NEW q \in Requests, NEW row \in Rows, row.status = "completed",
               reservation[q].owner = row.owner
        PROVE  reservation'[q] = reservation[q]
    BY <1>3, <2>1, <2>2
  <2>3. \A q \in Requests : log[q] \in Rows /\ trace[q] \in Rows
    BY DEF TypeOK
  <2> QED
    BY <2>2, <2>3 DEF CompletedWasReserved
<1>5. \A s \in Runs : event'[s] = "complete" => reservation'[Req(s)'].owner = Owner(s)'
  <2>1. \A s \in Runs : ChecksValid(s)'
    <3>1. ASSUME NEW s \in Runs, s # r
          PROVE  ChecksValid(s)'
      BY <1>2, <3>1, RunStepIsLocal, UnmovedChecks DEF ChecksStayValid
    <3>2. ChecksValid(r)'
      BY RunStepChecks DEF ChecksStayValid
    <3> QED
      BY <3>1, <3>2
  <2>2. \A s \in Runs : HoldsReservation(s)' => reservation'[Req(s)'].owner = Owner(s)'
    BY <2>1 DEF ChecksValid
  <2>3. \A s \in Runs : event'[s] = "complete" => HoldsReservation(s)'
    BY DEF HoldsReservation
  <2> QED
    BY <2>2, <2>3
<1>6. ASSUME NEW status,
             status = "completed" => reservation[Req(r)].owner = Owner(r),
             NEW q \in Requests, NEW row \in Rows, NEW new,
             row.status = "completed" => reservation[q].owner = row.owner /\ reservation'[q] = reservation[q],
             new = row \/ (q = Req(r) /\ new = UpdatedRow(row, Owner(r), status)),
             new.status = "completed"
      PROVE  reservation'[q].owner = new.owner
  <2>1. CASE new = row
    BY <1>6, <2>1
  <2>2. CASE q = Req(r) /\ new = UpdatedRow(row, Owner(r), status) /\ row.owner = Owner(r)
    <3>1. new.status = status /\ new.owner = Owner(r)
      BY <2>2 DEF UpdatedRow, Rows, NoRow
    <3> QED
      BY <1>3, <1>6, <2>2, <3>1
  <2>3. CASE new = UpdatedRow(row, Owner(r), status) /\ row.owner # Owner(r)
    BY <2>1, <2>3 DEF UpdatedRow
  <2> QED
    BY <1>6, <2>1, <2>2, <2>3
<1>7. ASSUME NEW q \in Requests, log'[q].status = "completed"
      PROVE  reservation'[q].owner = log'[q].owner
  <2> DEFINE row == log[q]
             new == log'[q]
  <2>1. row \in Rows /\ (row.status = "completed" =>
          reservation[q].owner = row.owner /\ reservation'[q] = reservation[q])
    BY <1>4 DEF CompletedWasReserved, TypeOK
  <2>2. CASE log' = log
    BY <1>6, <1>7, <2>1, <2>2
  <2>3. CASE CreateQueryLog(r)
    <3>1. log'[q] = log[q]
      BY <1>7, <2>3 DEF CreateQueryLog, TypeOK
    <3> QED
      BY <1>7, <2>1, <3>1
  <2>4. CASE RejectLog(r)
    <3>1. new = row \/ (q = Req(r) /\ new = UpdatedRow(row, Owner(r), "rejected"))
      BY <2>4 DEF RejectLog, TypeOK
    <3> QED
      BY <1>6, <1>7, <2>1, <3>1
  <2>5. CASE PersistLog(r)
    <3>1. new = row \/ (q = Req(r) /\ new = UpdatedRow(row, Owner(r), verdict[r].status))
      BY <2>5 DEF PersistLog, TypeOK
    <3> QED
      BY <1>1, <1>6, <1>7, <2>1, <3>1
  <2>6. log' = log \/ CreateQueryLog(r) \/ RejectLog(r) \/ PersistLog(r)
    BY DEF RunStep, EnsureConversation, CheckQueryLog, CreateTrace, CheckTrace, Reserve,
       RejectTrace, ReadContext, CancelledBeforeCall, BreakerOpen, AgentAnswers, StreamEnds,
       AgentThrows, PersistUserMessage, PersistAnswer, PersistTrace, PersistUsage, RolledBack,
       Abort, tables
  <2> QED
    BY <2>2, <2>3, <2>4, <2>5, <2>6
<1>8. ASSUME NEW q \in Requests, trace'[q].status = "completed"
      PROVE  reservation'[q].owner = trace'[q].owner
  <2> DEFINE row == trace[q]
             new == trace'[q]
  <2>1. row \in Rows /\ (row.status = "completed" =>
          reservation[q].owner = row.owner /\ reservation'[q] = reservation[q])
    BY <1>4 DEF CompletedWasReserved, TypeOK
  <2>2. CASE trace' = trace
    BY <1>6, <1>8, <2>1, <2>2
  <2>3. CASE CreateTrace(r)
    <3>1. trace'[q] = trace[q]
      BY <1>8, <2>3 DEF CreateTrace, TypeOK
    <3> QED
      BY <1>8, <2>1, <3>1
  <2>4. CASE RejectTrace(r)
    <3>1. new = row \/ (q = Req(r) /\ new = UpdatedRow(row, Owner(r), "rejected"))
      BY <2>4 DEF RejectTrace, TypeOK
    <3> QED
      BY <1>6, <1>8, <2>1, <3>1
  <2>5. CASE PersistTrace(r)
    <3>1. new = row \/ (q = Req(r) /\ new = UpdatedRow(row, Owner(r), verdict[r].status))
      BY <2>5 DEF PersistTrace, TypeOK
    <3> QED
      BY <1>1, <1>6, <1>8, <2>1, <3>1
  <2>6. trace' = trace \/ CreateTrace(r) \/ RejectTrace(r) \/ PersistTrace(r)
    BY DEF RunStep, EnsureConversation, CreateQueryLog, CheckQueryLog, CheckTrace, Reserve,
       RejectLog, ReadContext, CancelledBeforeCall, BreakerOpen, AgentAnswers, StreamEnds,
       AgentThrows, PersistUserMessage, PersistAnswer, PersistLog, PersistUsage, RolledBack,
       Abort, tables
  <2> QED
    BY <2>2, <2>3, <2>4, <2>5, <2>6
<1> QED
  BY <1>5, <1>7, <1>8 DEF CompletedWasReserved

\* A message goes into its owner's conversation; an answer follows its question.
LEMMA RunStepHistory ==
  ASSUME TypeOK, NEW r \in Runs, ChecksValid(r), HistoryWellFormed, RunStep(r)
  PROVE  HistoryWellFormed'
<1> USE ArgsType, NullRows, RowAssumption
<1>1. Grows
  BY RunStepGrows
<1>2. ASSUME NEW q \in Requests, NEW x \in Roles, message[<<q, x>>] # NoMessage
      PROVE  /\ conversation'[message[<<q, x>>].conv] = message[<<q, x>>].owner
             /\ x = "assistant" => reservation'[q] = reservation[q]
  <2> DEFINE m == message[<<q, x>>]
  <2>1. m \in Messages
    BY DEF TypeOK
  <2>2. m.owner \in Owners /\ m.conv \in Conversations
    BY <1>2, <2>1 DEF Messages
  <2>3. conversation[m.conv] = m.owner
    BY <1>2 DEF HistoryWellFormed
  <2>4. x = "assistant" => reservation[q].owner = m.owner
    BY <1>2 DEF HistoryWellFormed
  <2> QED
    BY <1>1, <2>2, <2>3, <2>4 DEF Grows
<1>3. CASE message' = message
  BY <1>2, <1>3 DEF HistoryWellFormed, Roles
<1>4. ASSUME NEW role \in Roles, message' = Append(r, role), conversation' = conversation,
             role = "assistant" =>
               /\ message[<<Req(r), "user">>] # NoMessage
               /\ reservation[Req(r)].owner = Owner(r) /\ reservation' = reservation
      PROVE  HistoryWellFormed'
  <2>1. CASE message' = [message EXCEPT
               ![<<Req(r), role>>] = [owner |-> Owner(r), conv |-> Conv(r)]]
             /\ conversation[Conv(r)] = Owner(r)
    <3>1. message'[<<Req(r), role>>] = [owner |-> Owner(r), conv |-> Conv(r)]
      BY <2>1 DEF TypeOK
    <3>2. \A q \in Requests, x \in Roles : <<q, x>> # <<Req(r), role>> =>
            message'[<<q, x>>] = message[<<q, x>>]
      BY <2>1 DEF TypeOK
    <3>3. \A q \in Requests, x \in Roles : message'[<<q, x>>] # NoMessage =>
            conversation'[message'[<<q, x>>].conv] = message'[<<q, x>>].owner
      <4>1. TAKE q \in Requests, x \in Roles
      <4>2. CASE <<q, x>> = <<Req(r), role>>
        BY <1>4, <2>1, <3>1, <4>2
      <4>3. CASE <<q, x>> # <<Req(r), role>>
        BY <1>2, <3>2, <4>3
      <4> QED
        BY <4>2, <4>3
    <3>4. ASSUME NEW q \in Requests, message'[<<q, "assistant">>] # NoMessage
          PROVE  message'[<<q, "user">>] # NoMessage
                 /\ reservation'[q].owner = message'[<<q, "assistant">>].owner
      <4>1. message[<<q, "user">>] # NoMessage => message'[<<q, "user">>] # NoMessage
        BY <1>1 DEF Grows, Roles
      <4>2. CASE <<q, "assistant">> = <<Req(r), role>>
        BY <1>4, <3>1, <4>1, <4>2
      <4>3. CASE <<q, "assistant">> # <<Req(r), role>>
        <5>1. message'[<<q, "assistant">>] = message[<<q, "assistant">>]
          BY <3>2, <4>3 DEF Roles
        <5>2. message[<<q, "assistant">>] # NoMessage
          BY <3>4, <5>1
        <5>3. /\ message[<<q, "user">>] # NoMessage
              /\ reservation[q].owner = message[<<q, "assistant">>].owner
          BY <5>2 DEF HistoryWellFormed
        <5>4. reservation'[q] = reservation[q]
          BY <1>2, <5>2 DEF Roles
        <5> QED
          BY <4>1, <5>1, <5>3, <5>4
      <4> QED
        BY <4>2, <4>3
    <3> QED
      BY <3>3, <3>4 DEF HistoryWellFormed
  <2> QED
    BY <1>3, <1>4, <2>1 DEF Append
<1>5. CASE PersistUserMessage(r)
  BY <1>4, <1>5 DEF PersistUserMessage, Roles
<1>6. CASE PersistAnswer(r)
  <2>1. /\ message[<<Req(r), "user">>] # NoMessage
        /\ reservation[Req(r)].owner = Owner(r)
    BY <1>6 DEF PersistAnswer, ChecksValid, HoldsReservation
  <2> QED
    BY <1>4, <1>6, <2>1 DEF PersistAnswer, Roles
<1>7. message' = message \/ PersistUserMessage(r) \/ PersistAnswer(r)
  BY DEF RunStep, EnsureConversation, CreateQueryLog, CheckQueryLog, CreateTrace, CheckTrace,
     Reserve, RejectLog, RejectTrace, ReadContext, CancelledBeforeCall, BreakerOpen,
     AgentAnswers, StreamEnds, AgentThrows, PersistLog, PersistTrace, PersistUsage,
     RolledBack, Abort, tables
<1> QED
  BY <1>3, <1>5, <1>6, <1>7

------------------------------------------------------------------------------
(* The inductive invariant. *)

\* What the runs have checked is needed to show that they may write what they
\* write; the invariants of the tables alone are not inductive.
IInv ==
  /\ TypeOK
  /\ ChecksStayValid
  /\ RowsShareOwner
  /\ CompletedWasReserved
  /\ HistoryWellFormed

LEMMA InitInvariant == Init => IInv
<1> SUFFICES ASSUME Init PROVE IInv
  OBVIOUS
<1>1. TypeOK
  BY InitType
<1>2. ChecksStayValid
  BY DEF Init, ChecksStayValid, ChecksValid, HoldsConversation, HoldsLog, HoldsTrace,
     HoldsReservation
<1>3. RowsShareOwner
  BY DEF Init, RowsShareOwner
<1>4. CompletedWasReserved
  BY DEF Init, CompletedWasReserved, NoRow
<1>5. HistoryWellFormed
  BY DEF Init, HistoryWellFormed, Roles
<1> QED
  BY <1>1, <1>2, <1>3, <1>4, <1>5 DEF IInv

\* A step that leaves the tables alone and, of the local state, changes at
\* most pc, from idle to ensure or to done.
LEMMA QuietStep ==
  ASSUME IInv, UNCHANGED <<tables, args, verdict, event>>,
         \A r \in Runs : pc'[r] = pc[r] \/ pc'[r] \in {"ensure", "done"}
  PROVE  /\ ChecksStayValid' /\ RowsShareOwner'
         /\ CompletedWasReserved' /\ HistoryWellFormed'
<1>1. RowsShareOwner' /\ CompletedWasReserved' /\ HistoryWellFormed'
  BY DEF IInv, RowsShareOwner, CompletedWasReserved, HistoryWellFormed, tables, Req, Owner
<1>2. ChecksStayValid'
  BY DEF IInv, ChecksStayValid, ChecksValid, HoldsConversation, HoldsLog, HoldsTrace,
     HoldsReservation, tables, Req, Owner, Conv
<1> QED
  BY <1>1, <1>2

LEMMA NextInvariant ==
  ASSUME IInv, [Next]_vars
  PROVE  IInv'
<1>1. TypeOK'
  BY NextType DEF IInv
<1>2. CASE UNCHANGED vars
  BY <1>1, <1>2, QuietStep DEF vars, locals, IInv
<1>3. CASE Crash
  <2>1. \A r \in Runs : pc'[r] = pc[r] \/ pc'[r] = "done"
    BY <1>3 DEF Crash
  <2> QED
    BY <1>1, <1>3, <2>1, QuietStep DEF Crash, IInv
<1>4. ASSUME NEW r \in Runs, Begin(r)
      PROVE  IInv'
  <2>1. \A s \in Runs : pc'[s] = pc[s] \/ pc'[s] = "ensure"
    BY <1>4 DEF Begin, Goto, IInv, TypeOK
  <2> QED
    BY <1>1, <1>4, <2>1, QuietStep DEF Begin, locals, IInv
<1>5. ASSUME NEW r \in Runs, RunStep(r)
      PROVE  IInv'
  <2>1. \A s \in Runs : ChecksValid(s)'
    BY <1>5, RunStepGrows, RunStepChecks, RunStepIsLocal, UnmovedChecks
    DEF IInv, ChecksStayValid
  <2>2. RowsShareOwner'
    BY <1>5, RunStepOwners DEF IInv, ChecksStayValid
  <2>3. CompletedWasReserved'
    BY <1>5, RunStepCompleted DEF IInv
  <2>4. HistoryWellFormed'
    BY <1>5, RunStepHistory DEF IInv, ChecksStayValid
  <2> QED
    BY <1>1, <2>1, <2>2, <2>3, <2>4 DEF IInv, ChecksStayValid
<1> QED
  BY <1>2, <1>3, <1>4, <1>5 DEF Next

LEMMA Invariance == Spec => []IInv
<1>1. IInv /\ [Next]_vars => IInv'
  BY NextInvariant
<1> QED
  BY <1>1, InitInvariant, PTL DEF Spec

\* What a run has checked stays true until the run relies on it.
THEOREM ChecksCorrect == Spec => []ChecksStayValid
<1>1. IInv => ChecksStayValid
  BY DEF IInv
<1> QED
  BY <1>1, Invariance, PTL

\* The trace and the reservation of a request belong to its query log's owner.
THEOREM OwnersCorrect == Spec => []RowsShareOwner
<1>1. IInv => RowsShareOwner
  BY DEF IInv
<1> QED
  BY <1>1, Invariance, PTL

\* Two owners that race for one request id never mix their data.
THEOREM AgreementCorrect == Spec => []OwnersAgree
<1>1. ChecksStayValid /\ RowsShareOwner => OwnersAgree
  BY DEF OwnersAgree
<1> QED
  BY <1>1, ChecksCorrect, OwnersCorrect, PTL

\* Nothing is completed without a reservation of the same owner.
THEOREM BudgetCorrect == Spec => []CompletedWasReserved
<1>1. IInv => CompletedWasReserved
  BY DEF IInv
<1> QED
  BY <1>1, Invariance, PTL

\* Messages lie in their owner's conversations, answers after questions.
THEOREM HistoryCorrect == Spec => []HistoryWellFormed
<1>1. IInv => HistoryWellFormed
  BY DEF IInv
<1> QED
  BY <1>1, Invariance, PTL

\* A completion has its reservation, an answer its question and its reservation,
\* a message a conversation of its owner.
THEOREM RecordsCorrect == Spec => []RecordsBacked
<1>1. CompletedWasReserved /\ HistoryWellFormed => RecordsBacked
  BY DEF RecordsBacked
<1> QED
  BY <1>1, BudgetCorrect, HistoryCorrect, PTL

------------------------------------------------------------------------------
(* Retries never rewrite. *)

\* What a step of a run may do to one row of the log or of the traces: insert
\* it as running, or settle it.
RowStep(old, new, owner) ==
  \/ new = old
  \/ old = NoRow /\ new = [owner |-> owner, status |-> "running"]
  \/ \E status \in Terminal : new = UpdatedRow(old, owner, status)

LEMMA LogStep ==
  ASSUME TypeOK, NEW r \in Runs, RunStep(r), NEW q \in Requests
  PROVE  RowStep(log[q], log'[q], Owner(r))
<1> USE ArgsType
<1>1. CASE CreateQueryLog(r)
  BY <1>1 DEF CreateQueryLog, RowStep, TypeOK
<1>2. CASE RejectLog(r)
  BY <1>2 DEF RejectLog, RowStep, TypeOK, Terminal
<1>3. CASE PersistLog(r)
  <2>1. verdict[r].status \in Terminal
    BY DEF TypeOK
  <2> QED
    BY <1>3, <2>1 DEF PersistLog, RowStep, TypeOK
<1>4. CASE log' = log
  BY <1>4 DEF RowStep
<1>5. log' = log \/ CreateQueryLog(r) \/ RejectLog(r) \/ PersistLog(r)
  BY DEF RunStep, EnsureConversation, CheckQueryLog, CreateTrace, CheckTrace, Reserve,
     RejectTrace, ReadContext, CancelledBeforeCall, BreakerOpen, AgentAnswers, StreamEnds,
     AgentThrows, PersistUserMessage, PersistAnswer, PersistTrace, PersistUsage, RolledBack,
     Abort, tables
<1> QED
  BY <1>1, <1>2, <1>3, <1>4, <1>5

LEMMA TraceStep ==
  ASSUME TypeOK, NEW r \in Runs, RunStep(r), NEW q \in Requests
  PROVE  RowStep(trace[q], trace'[q], Owner(r))
<1> USE ArgsType
<1>1. CASE CreateTrace(r)
  BY <1>1 DEF CreateTrace, RowStep, TypeOK
<1>2. CASE RejectTrace(r)
  BY <1>2 DEF RejectTrace, RowStep, TypeOK, Terminal
<1>3. CASE PersistTrace(r)
  <2>1. verdict[r].status \in Terminal
    BY DEF TypeOK
  <2> QED
    BY <1>3, <2>1 DEF PersistTrace, RowStep, TypeOK
<1>4. CASE trace' = trace
  BY <1>4 DEF RowStep
<1>5. trace' = trace \/ CreateTrace(r) \/ RejectTrace(r) \/ PersistTrace(r)
  BY DEF RunStep, EnsureConversation, CreateQueryLog, CheckQueryLog, CheckTrace, Reserve,
     RejectLog, ReadContext, CancelledBeforeCall, BreakerOpen, AgentAnswers, StreamEnds,
     AgentThrows, PersistUserMessage, PersistAnswer, PersistLog, PersistUsage, RolledBack,
     Abort, tables
<1> QED
  BY <1>1, <1>2, <1>3, <1>4, <1>5

LEMMA SettledStays ==
  ASSUME NEW old \in Rows, NEW new, NEW owner, RowStep(old, new, owner), old.status \in Terminal
  PROVE  new.status \in Terminal
<1>1. old # NoRow
  BY DEF NoRow, Terminal
<1>2. CASE new = old
  BY <1>2
<1>3. ASSUME NEW status \in Terminal, new = UpdatedRow(old, owner, status)
      PROVE  new.status \in Terminal
  BY <1>3, <1>1 DEF UpdatedRow, Rows
<1> QED
  BY <1>1, <1>2, <1>3 DEF RowStep

\* Reservations, messages and ledger entries are immutable, rows keep their
\* owner and never go back to running.
THEOREM RewriteCorrect == Spec => RetriesNeverRewrite
<1> DEFINE Rewrites ==
      /\ \A q \in Requests :
           /\ reservation[q] # NoTokens => reservation'[q] = reservation[q]
           /\ ledger[q] # NoTokens => ledger'[q] = ledger[q]
           /\ log[q] # NoRow => log'[q].owner = log[q].owner
           /\ log[q].status \in Terminal => log'[q].status \in Terminal
           /\ trace[q].status \in Terminal => trace'[q].status \in Terminal
      /\ \A m \in Requests \X Roles :
           message[m] # NoMessage => message'[m] = message[m]
<1>1. TypeOK /\ [Next]_vars => [Rewrites]_vars
  <2> SUFFICES ASSUME TypeOK, [Next]_vars
               PROVE  Rewrites
    BY DEF Rewrites
  <2>1. CASE UNCHANGED tables
    BY <2>1 DEF tables
  <2>2. ASSUME NEW r \in Runs, RunStep(r)
        PROVE  Rewrites
    <3>1. \A q \in Requests :
            /\ log[q].status \in Terminal => log'[q].status \in Terminal
            /\ trace[q].status \in Terminal => trace'[q].status \in Terminal
      BY <2>2, LogStep, TraceStep, SettledStays DEF TypeOK
    <3> QED
      BY <2>2, <3>1, RunStepGrows DEF Grows
  <2>3. CASE UNCHANGED vars \/ Crash \/ \E r \in Runs : Begin(r)
    BY <2>1, <2>3 DEF vars, Crash, Begin
  <2> QED
    BY <2>2, <2>3 DEF Next
<1> QED
  BY <1>1, TypeCorrect, PTL DEF Spec, RetriesNeverRewrite

------------------------------------------------------------------------------
(* The pipeline implements the request life cycle. *)

\* The refinement mapping.
Status == [q \in Requests |-> log[q].status]
Billed == [q \in Requests |-> reservation[q] # NoTokens]
History == [q \in Requests |-> {role \in Roles : message[<<q, role>>] # NoMessage}]
Charged == [q \in Requests |-> ledger[q] # NoTokens]

LEMMA InitRefines == Init => Lifecycle!Init
<1> SUFFICES ASSUME Init PROVE Lifecycle!Init
  OBVIOUS
<1>1. /\ Status = [q \in Requests |-> "none"]
      /\ Billed = [q \in Requests |-> FALSE]
      /\ Charged = [q \in Requests |-> FALSE]
  BY DEF Init, Status, Billed, Charged, NoRow
<1>2. History = [q \in Requests |-> {}]
  <2>1. \A q \in Requests : {role \in Roles : message[<<q, role>>] # NoMessage} = {}
    BY DEF Init
  <2> QED
    BY <2>1 DEF History
<1> QED
  BY <1>1, <1>2 DEF Lifecycle!Init, Status, Billed, History, Charged

\* A query log exists as soon as a run holds it, and stays.
LEMMA LoggedStatus ==
  ASSUME TypeOK, NEW q \in Requests, log[q].owner \in Owners
  PROVE  log[q].status \in LogStatus /\ Status[q] # "none"
<1>1. log[q] # NoRow /\ log[q] \in Rows
  BY RowAssumption DEF NoRow, TypeOK
<1> QED
  BY <1>1 DEF Rows, LogStatus, Terminal, Status

\* Tables that do not change map to values that do not change.
LEMMA Stutters ==
  /\ log' = log => Status' = Status
  /\ reservation' = reservation => Billed' = Billed
  /\ message' = message => History' = History
  /\ ledger' = ledger => Charged' = Charged
  BY DEF Status, Billed, History, Charged

\* Settling a row of the log.
LEMMA SettleRefines ==
  ASSUME IInv, NEW r \in Runs, NEW s \in Terminal,
         log' = [log EXCEPT ![Req(r)] = UpdatedRow(@, Owner(r), s)],
         UNCHANGED <<reservation, message, ledger>>,
         s = "completed" => reservation[Req(r)].owner = Owner(r)
  PROVE  [Lifecycle!Next]_Lifecycle!vars
<1> USE ArgsType DEF IInv
<1> PICK q \in Requests : q = Req(r)
  OBVIOUS
<1>1. UNCHANGED <<Billed, History, Charged>>
  BY Stutters
<1>2. CASE log[Req(r)].owner # Owner(r)
  <2>1. log' = log
    BY <1>2 DEF UpdatedRow, TypeOK
  <2> QED
    BY <1>1, <2>1, Stutters DEF Lifecycle!vars, Status, Billed, History, Charged
<1>3. CASE log[Req(r)].owner = Owner(r)
  <2>1. Status[q] # "none"
    BY <1>3, LoggedStatus
  <2>2. UpdatedRow(log[Req(r)], Owner(r), s).status = s
    <3>1. log[Req(r)] \in Rows
      BY DEF TypeOK
    <3> QED
      BY <1>3, <3>1 DEF UpdatedRow, Rows, NoRow
  <2>3. Status' = [Status EXCEPT ![q] = s]
    BY <2>2 DEF Status, TypeOK
  <2>4. s = "completed" => Billed[q]
    BY NullRows, RowAssumption DEF Billed
  <2>5. Lifecycle!Settle(q, s)
    BY <1>1, <2>1, <2>3, <2>4 DEF Lifecycle!Settle, Status, Billed, History, Charged
  <2> QED
    BY <2>5 DEF Lifecycle!Next, Lifecycle!Settled, Terminal
<1> QED
  BY <1>2, <1>3

\* Recording a message.
LEMMA AppendRefines ==
  ASSUME IInv, NEW r \in Runs, NEW role \in Roles, message' = Append(r, role),
         UNCHANGED <<log, reservation, ledger>>,
         role = "user" => (MaxFaults = 0 => reservation[Req(r)].owner = Owner(r)),
         role = "assistant" => /\ reservation[Req(r)].owner = Owner(r)
                               /\ message[<<Req(r), "user">>] # NoMessage
  PROVE  [Lifecycle!Next]_Lifecycle!vars
<1> USE ArgsType DEF IInv
<1> PICK q \in Requests : q = Req(r)
  OBVIOUS
<1>1. UNCHANGED <<Status, Billed, Charged>>
  BY Stutters
<1>2. CASE message' = message
  BY <1>1, <1>2, Stutters DEF Lifecycle!vars, Status, Billed, History, Charged
<1>3. CASE message[<<Req(r), role>>] = NoMessage /\ message' = [message EXCEPT
             ![<<Req(r), role>>] = [owner |-> Owner(r), conv |-> Conv(r)]]
  <2>1. [owner |-> Owner(r), conv |-> Conv(r)] # NoMessage
    BY RowAssumption DEF NoMessage
  <2>2. reservation[Req(r)].owner = Owner(r) => Billed[q]
    BY NullRows, RowAssumption DEF Billed
  <2>3. \A p \in Requests, x \in Roles : message'[<<p, x>>] # NoMessage <=>
          message[<<p, x>>] # NoMessage \/ (p = q /\ x = role)
    BY <1>3, <2>1 DEF TypeOK
  <2>4. History' = [History EXCEPT ![q] = @ \cup {role}]
    <3>1. \A p \in Requests : {x \in Roles : message'[<<p, x>>] # NoMessage} =
            IF p = q THEN {x \in Roles : message[<<p, x>>] # NoMessage} \cup {role}
                     ELSE {x \in Roles : message[<<p, x>>] # NoMessage}
      BY <2>3
    <3> QED
      BY <3>1 DEF History
  <2>5. CASE role = "user"
    <3>1. message[<<Req(r), "assistant">>] = NoMessage
      BY <1>3, <2>5 DEF HistoryWellFormed
    <3>2. History[q] = {}
      BY <1>3, <2>5, <3>1 DEF History, Roles
    <3>3. History' = [History EXCEPT ![q] = {"user"}]
      BY <2>4, <2>5, <3>2 DEF History
    <3>4. /\ History[q] = {} /\ (MaxFaults = 0 => Billed[q])
          /\ History' = [History EXCEPT ![q] = {"user"}]
          /\ UNCHANGED <<Status, Billed, Charged>>
      BY <1>1, <2>2, <2>5, <3>2, <3>3
    <3>5. Lifecycle!RecordQuestion(q)
      BY <3>4 DEF Lifecycle!RecordQuestion, Status, Billed, History, Charged
    <3> QED
      BY <3>5 DEF Lifecycle!Next
  <2>6. CASE role = "assistant"
    <3>1. History[q] = {"user"}
      BY <1>3, <2>6 DEF History, Roles
    <3>2. History' = [History EXCEPT ![q] = {"user", "assistant"}]
      BY <2>4, <2>6, <3>1 DEF History
    <3>3. /\ History[q] = {"user"} /\ Billed[q]
          /\ History' = [History EXCEPT ![q] = {"user", "assistant"}]
          /\ UNCHANGED <<Status, Billed, Charged>>
      BY <1>1, <2>2, <2>6, <3>1, <3>2
    <3>4. Lifecycle!RecordAnswer(q)
      BY <3>3 DEF Lifecycle!RecordAnswer, Status, Billed, History, Charged
    <3> QED
      BY <3>4 DEF Lifecycle!Next
  <2> QED
    BY <2>5, <2>6 DEF Roles
<1> QED
  BY <1>2, <1>3 DEF Append

LEMMA StutterRefines ==
  ASSUME UNCHANGED <<log, reservation, message, ledger>>
  PROVE  UNCHANGED Lifecycle!vars
<1>1. UNCHANGED <<Status, Billed, History, Charged>>
  BY Stutters
<1> QED
  BY <1>1 DEF Lifecycle!vars, Status, Billed, History, Charged

LEMMA RunStepRefines ==
  ASSUME IInv, NEW r \in Runs, RunStep(r)
  PROVE  [Lifecycle!Next]_Lifecycle!vars
<1> USE ArgsType, StutterRefines DEF IInv
<1> PICK q \in Requests : q = Req(r)
  OBVIOUS
<1>1. CASE UNCHANGED <<log, reservation, message, ledger>>
  BY <1>1
<1>2. CASE CreateQueryLog(r)
  <2>1. UNCHANGED <<Billed, History, Charged>>
    BY <1>2, Stutters DEF CreateQueryLog
  <2>2. CASE log[q] = NoRow
    <3>1. Status[q] = "none"
      BY <2>2 DEF Status, NoRow
    <3>2. log' = [log EXCEPT ![q] = [owner |-> Owner(r), status |-> "running"]]
      BY <1>2, <2>2 DEF CreateQueryLog
    <3>3. Status' = [Status EXCEPT ![q] = "running"]
      BY <3>2 DEF Status, TypeOK
    <3>4. Lifecycle!Admit(q)
      BY <2>1, <3>1, <3>3 DEF Lifecycle!Admit, Status, Billed, History, Charged
    <3> QED
      BY <3>4 DEF Lifecycle!Next
  <2> QED
    BY <1>1, <1>2, <2>2 DEF CreateQueryLog
<1>3. CASE Reserve(r)
  <2>1. UNCHANGED <<Status, History, Charged>>
    BY <1>3, Stutters DEF Reserve
  <2>2. CASE reservation[q] = NoTokens /\ reservation' # reservation
    <3>1. Status[q] # "none"
      BY <1>3, LoggedStatus DEF Reserve, ChecksStayValid, ChecksValid, HoldsLog
    <3>2. reservation' = [reservation EXCEPT ![q] = [owner |-> Owner(r), tokens |-> Cost[q]]]
      BY <1>3, <2>2 DEF Reserve
    <3>3. [owner |-> Owner(r), tokens |-> Cost[q]] # NoTokens
      BY RowAssumption DEF NoTokens
    <3>4. Billed' = [Billed EXCEPT ![q] = TRUE]
      BY <3>2, <3>3 DEF Billed, TypeOK
    <3>5. Lifecycle!Bill(q)
      BY <2>1, <2>2, <3>1, <3>4 DEF Lifecycle!Bill, Status, Billed, History, Charged
    <3> QED
      BY <3>5 DEF Lifecycle!Next
  <2> QED
    BY <1>1, <1>3, <2>2 DEF Reserve
<1>4. CASE RejectLog(r)
  BY <1>4, SettleRefines DEF RejectLog, Terminal
<1>5. CASE PersistLog(r)
  <2>1. /\ verdict[r].status \in Terminal
        /\ verdict[r].status = "completed" => reservation[Req(r)].owner = Owner(r)
    BY DEF TypeOK, ChecksStayValid, ChecksValid, HoldsReservation
  <2> QED
    BY <1>5, <2>1, SettleRefines DEF PersistLog
<1>6. CASE PersistUserMessage(r)
  <2>1. MaxFaults = 0 => reservation[Req(r)].owner = Owner(r)
    BY <1>6 DEF PersistUserMessage, ChecksStayValid, ChecksValid, HoldsReservation
  <2> QED
    BY <1>6, <2>1, AppendRefines DEF PersistUserMessage, Roles
<1>7. CASE PersistAnswer(r)
  <2>1. /\ reservation[Req(r)].owner = Owner(r)
        /\ message[<<Req(r), "user">>] # NoMessage
    BY <1>7 DEF PersistAnswer, ChecksStayValid, ChecksValid, HoldsReservation
  <2> QED
    BY <1>7, <2>1, AppendRefines DEF PersistAnswer, Roles
<1>8. CASE PersistUsage(r)
  <2>1. UNCHANGED <<Status, Billed, History>>
    BY <1>8, Stutters DEF PersistUsage
  <2>2. CASE ledger[q] = NoTokens
    <3>1. ledger' = [ledger EXCEPT ![q] = [owner |-> Owner(r), tokens |-> estimated[r]]]
      BY <1>8, <2>2 DEF PersistUsage
    <3>2. [owner |-> Owner(r), tokens |-> estimated[r]] # NoTokens
      BY RowAssumption DEF NoTokens
    <3>3. ~Charged[q] /\ Charged' = [Charged EXCEPT ![q] = TRUE]
      BY <2>2, <3>1, <3>2 DEF Charged, TypeOK
    <3>4. MaxFaults = 0 => Billed[q]
      <4>1. MaxFaults = 0 => HoldsReservation(r)
        BY <1>8 DEF PersistUsage, HoldsReservation
      <4>2. MaxFaults = 0 => reservation[q].owner = Owner(r)
        BY <4>1 DEF ChecksStayValid, ChecksValid
      <4> QED
        BY <4>2, NullRows, RowAssumption DEF Billed
    <3>5. Lifecycle!Charge(q)
      BY <2>1, <3>3, <3>4 DEF Lifecycle!Charge, Status, Billed, History, Charged
    <3> QED
      BY <3>5 DEF Lifecycle!Next
  <2> QED
    BY <1>1, <1>8, <2>2 DEF PersistUsage
<1>9. \/ UNCHANGED <<log, reservation, message, ledger>>
      \/ CreateQueryLog(r) \/ Reserve(r) \/ RejectLog(r) \/ PersistLog(r)
      \/ PersistUserMessage(r) \/ PersistAnswer(r) \/ PersistUsage(r)
  BY DEF RunStep, EnsureConversation, CheckQueryLog, CreateTrace, CheckTrace,
     RejectTrace, ReadContext, CancelledBeforeCall, BreakerOpen, AgentAnswers, StreamEnds,
     AgentThrows, PersistTrace, RolledBack, Abort, tables
<1> QED
  BY <1>1, <1>2, <1>3, <1>4, <1>5, <1>6, <1>7, <1>8, <1>9

\* The durable query pipeline implements the request life cycle: whatever runs,
\* retries, crashes and failing transactions do, a request is admitted, billed
\* and charged at most once and completed only when billed.
THEOREM Refinement == Spec => ImplementsLifecycle
<1>1. IInv /\ [Next]_vars => [Lifecycle!Next]_Lifecycle!vars
  <2> SUFFICES ASSUME IInv, [Next]_vars
               PROVE  [Lifecycle!Next]_Lifecycle!vars
    OBVIOUS
  <2>1. CASE UNCHANGED tables
    BY <2>1, StutterRefines DEF tables
  <2>2. CASE UNCHANGED vars \/ Crash \/ \E r \in Runs : Begin(r)
    BY <2>1, <2>2 DEF vars, Crash, Begin
  <2>3. CASE \E r \in Runs : RunStep(r)
    BY <2>3, RunStepRefines
  <2> QED
    BY <2>2, <2>3 DEF Next
<1> QED
  BY <1>1, InitRefines, Invariance, PTL DEF Spec, ImplementsLifecycle, Lifecycle!Spec

------------------------------------------------------------------------------
(* What a run that answers OK has persisted. *)

\* The steps before a run is finalized, and those after.
Trying == {"idle", "ensure", "log", "log_check", "trace", "trace_check", "reserve",
           "reject_log", "reject_trace", "context", "call"}
Settling == {"user", "assistant", "fin_log", "fin_trace", "ledger"}

\* A run that means to answer OK has persisted what lies behind it.
OkPersists(r) ==
  /\ pc[r] \in Settling \cup {"abort", "done"} /\ ~aborting[r] /\ traced[r]
  /\ conversation[Conv(r)] = Owner(r)
  /\ log[Req(r)].owner = Owner(r) /\ trace[Req(r)].owner = Owner(r)
  /\ pc[r] \in {"assistant", "fin_log", "fin_trace", "ledger", "done"} =>
       message[<<Req(r), "user">>] # NoMessage
  /\ pc[r] \in {"fin_log", "fin_trace", "ledger", "done"} /\ verdict[r].answer =>
       message[<<Req(r), "assistant">>] # NoMessage
  /\ pc[r] \in {"fin_trace", "ledger", "done"} => log[Req(r)].status \in Terminal
  /\ pc[r] \in {"ledger", "done"} => trace[Req(r)].status \in Terminal
  /\ pc[r] = "done" => ledger[Req(r)] # NoTokens

RunFits(r) ==
  /\ pc[r] \in Trying => ~aborting[r] /\ outcome[r] = "none"
  /\ pc[r] \in Trying \ {"idle", "ensure"} => traced[r]
  /\ outcome[r] = "ok" => OkPersists(r)

OkInv == IInv /\ \A r \in Runs : RunFits(r)

\* A step of one run leaves all local state of the others alone.
LEMMA RunStepKeepsOthers ==
  ASSUME TypeOK, NEW r \in Runs, RunStep(r), NEW s \in Runs \ {r}
  PROVE  /\ pc'[s] = pc[s] /\ verdict'[s] = verdict[s]
         /\ traced'[s] = traced[s] /\ aborting'[s] = aborting[s] /\ outcome'[s] = outcome[s]
         /\ finalized'[s] = finalized[s] /\ estimated'[s] = estimated[s]
<1>1. pc'[s] = pc[s] /\ verdict'[s] = verdict[s]
  BY RunStepIsLocal
<1>2. \A code : Returns(r, code) => outcome'[s] = outcome[s]
  BY DEF Returns, TypeOK
<1>3. Refuses(r) => outcome'[s] = outcome[s]
  BY <1>2 DEF Refuses
<1>4. \A status, answer : Finalize(r, status, answer) => finalized'[s] = finalized[s]
  BY DEF Finalize, TypeOK
<1>5. CASE EnsureConversation(r) \/ Reserve(r) \/ RolledBack(r)
  BY <1>1, <1>3, <1>5 DEF EnsureConversation, Reserve, RolledBack, TypeOK
<1>6. CASE CheckQueryLog(r) \/ CheckTrace(r)
  BY <1>1, <1>3, <1>6 DEF CheckQueryLog, CheckTrace
<1>7. CASE RejectTrace(r)
  BY <1>1, <1>2, <1>7 DEF RejectTrace, TypeOK
<1>8. CASE CancelledBeforeCall(r) \/ BreakerOpen(r) \/ AgentAnswers(r) \/ StreamEnds(r)
  BY <1>1, <1>2, <1>4, <1>8 DEF CancelledBeforeCall, BreakerOpen, AgentAnswers, StreamEnds
<1>9. CASE Abort(r)
  BY <1>1, <1>2, <1>4, <1>9 DEF Abort, TypeOK
<1>10. CASE UNCHANGED locals
  BY <1>10 , <1>1 DEF locals
<1>11. CreateQueryLog(r) \/ CreateTrace(r) \/ RejectLog(r) \/ ReadContext(r) \/ AgentThrows(r)
         \/ PersistUserMessage(r) \/ PersistAnswer(r) \/ PersistLog(r) \/ PersistTrace(r)
         \/ PersistUsage(r)
       => UNCHANGED locals
  BY DEF CreateQueryLog, CreateTrace, RejectLog, ReadContext, AgentThrows, PersistUserMessage,
     PersistAnswer, PersistLog, PersistTrace, PersistUsage
<1> QED
  BY <1>5, <1>6, <1>7, <1>8, <1>9, <1>10, <1>11 DEF RunStep

\* What is persisted for a run stays persisted.
LEMMA PersistedStays ==
  ASSUME TypeOK, NEW r \in Runs, RunStep(r), NEW s \in Runs
  PROVE  /\ Owner(s)' = Owner(s) /\ Req(s)' = Req(s) /\ Conv(s)' = Conv(s)
         /\ conversation[Conv(s)] = Owner(s) => conversation'[Conv(s)] = Owner(s)
         /\ log[Req(s)].owner = Owner(s) => log'[Req(s)].owner = Owner(s)
         /\ trace[Req(s)].owner = Owner(s) => trace'[Req(s)].owner = Owner(s)
         /\ \A role \in Roles : message[<<Req(s), role>>] # NoMessage =>
              message'[<<Req(s), role>>] # NoMessage
         /\ log[Req(s)].status \in Terminal => log'[Req(s)].status \in Terminal
         /\ trace[Req(s)].status \in Terminal => trace'[Req(s)].status \in Terminal
         /\ ledger[Req(s)] # NoTokens => ledger'[Req(s)] # NoTokens
<1>1. Grows
  BY RunStepGrows
<1>2. /\ log[Req(s)].status \in Terminal => log'[Req(s)].status \in Terminal
      /\ trace[Req(s)].status \in Terminal => trace'[Req(s)].status \in Terminal
  BY ArgsType, LogStep, TraceStep, SettledStays DEF TypeOK
<1>3. /\ \A role \in Roles : message[<<Req(s), role>>] # NoMessage =>
           message'[<<Req(s), role>>] # NoMessage
      /\ ledger[Req(s)] # NoTokens => ledger'[Req(s)] # NoTokens
  BY <1>1, ArgsType DEF Grows
<1> QED
  BY <1>1, <1>2, <1>3, RowsStay

LEMMA OthersFit ==
  ASSUME TypeOK, NEW r \in Runs, RunStep(r), NEW s \in Runs \ {r}, RunFits(s)
  PROVE  RunFits(s)'
BY RunStepKeepsOthers, PersistedStays DEF RunFits, OkPersists, Roles

\* A run that settles, and means to answer OK.
LEMMA SettlingFits ==
  ASSUME IInv, NEW r \in Runs, RunFits(r), pc[r] \in Settling,
         \/ PersistUserMessage(r) \/ PersistAnswer(r) \/ PersistLog(r) \/ PersistTrace(r)
         \/ PersistUsage(r)
  PROVE  RunFits(r)'
<1> USE ArgsType DEF IInv
<1>1. RunStep(r) /\ UNCHANGED locals
  BY DEF RunStep, PersistUserMessage, PersistAnswer, PersistLog, PersistTrace, PersistUsage
<1>2. pc'[r] \in Settling \cup {"abort", "done"}
  BY NextPc DEF PersistUserMessage, PersistAnswer, PersistLog, PersistTrace, PersistUsage, Settling
<1>3. CASE outcome[r] # "ok"
  BY <1>1, <1>2, <1>3 DEF RunFits, locals, Trying, Settling
<1>4. CASE outcome[r] = "ok"
  <2>1. /\ OkPersists(r) /\ outcome'[r] = "ok" /\ aborting'[r] = aborting[r]
        /\ verdict'[r] = verdict[r] /\ traced'[r] = traced[r]
    BY <1>1, <1>4 DEF RunFits, locals
  <2>2. pc'[r] \in {"abort", "done"} => pc'[r] = "abort" \/ (pc[r] = "ledger" /\ PersistUsage(r))
    <3>1. \A step : Goto(r, step) => pc'[r] = step
      BY NextPc
    <3>2. Throws(r) => pc'[r] = "abort"
      BY <2>1, <3>1 DEF Throws, OkPersists
    <3> QED
      BY <3>1, <3>2 DEF Committed, PersistUserMessage, PersistAnswer, PersistLog, PersistTrace,
         PersistUsage
  <2>3. CASE PersistUserMessage(r)
    <3>1. message'[<<Req(r), "user">>] # NoMessage
      <4>1. [owner |-> Owner(r), conv |-> Conv(r)] # NoMessage
        BY RowAssumption DEF NoMessage
      <4> QED
        BY <2>1, <2>3, <4>1 DEF PersistUserMessage, Append, OkPersists, TypeOK, Roles
    <3>2. pc'[r] \in {"assistant", "fin_log", "abort"} /\ (pc'[r] = "fin_log" => ~verdict[r].answer)
      BY <2>2, <2>3, NextPc DEF PersistUserMessage
    <3> QED
      BY <1>1, <2>1, <3>1, <3>2, PersistedStays DEF RunFits, OkPersists, Trying, Settling
  <2>4. CASE PersistAnswer(r)
    <3>1. message'[<<Req(r), "assistant">>] # NoMessage
      <4>1. [owner |-> Owner(r), conv |-> Conv(r)] # NoMessage
        BY RowAssumption DEF NoMessage
      <4> QED
        BY <2>1, <2>4, <4>1 DEF PersistAnswer, Append, OkPersists, TypeOK, Roles
    <3>2. pc[r] = "assistant" /\ pc'[r] \in {"fin_log", "abort"}
      BY <2>2, <2>4, NextPc DEF PersistAnswer
    <3> QED
      BY <1>1, <2>1, <3>1, <3>2, PersistedStays DEF RunFits, OkPersists, Trying, Settling, Roles
  <2>5. CASE PersistLog(r)
    <3>1. log'[Req(r)].status \in Terminal
      BY <2>1, <2>5 DEF PersistLog, UpdatedRow, OkPersists, TypeOK, Rows, NoRow
    <3>2. pc[r] = "fin_log" /\ pc'[r] \in {"fin_trace", "abort"}
      BY <2>2, <2>5, NextPc DEF PersistLog
    <3> QED
      BY <1>1, <2>1, <3>1, <3>2, PersistedStays DEF RunFits, OkPersists, Trying, Settling, Roles
  <2>6. CASE PersistTrace(r)
    <3>1. trace'[Req(r)].status \in Terminal
      BY <2>1, <2>6 DEF PersistTrace, UpdatedRow, OkPersists, TypeOK, Rows, NoRow
    <3>2. pc[r] = "fin_trace" /\ pc'[r] \in {"ledger", "abort"}
      BY <2>2, <2>6, NextPc DEF PersistTrace
    <3> QED
      BY <1>1, <2>1, <3>1, <3>2, PersistedStays DEF RunFits, OkPersists, Trying, Settling, Roles
  <2>7. CASE PersistUsage(r)
    <3>1. ledger'[Req(r)] # NoTokens
      <4>1. [owner |-> Owner(r), tokens |-> estimated[r]] # NoTokens
        BY RowAssumption DEF NoTokens
      <4> QED
        BY <2>7, <4>1 DEF PersistUsage, TypeOK
    <3>2. pc[r] = "ledger" /\ pc'[r] \in {"done", "abort"}
      BY <2>2, <2>7, NextPc DEF PersistUsage
    <3> QED
      BY <1>1, <2>1, <3>1, <3>2, PersistedStays DEF RunFits, OkPersists, Trying, Settling, Roles
  <2> QED
    BY <2>3, <2>4, <2>5, <2>6, <2>7
<1> QED
  BY <1>3, <1>4

LEMMA RunStepFits ==
  ASSUME IInv, NEW r \in Runs, RunFits(r), RunStep(r)
  PROVE  RunFits(r)'
<1> USE ArgsType, NextPc DEF IInv
<1> DEFINE Tries == /\ pc[r] \in Trying /\ aborting'[r] = aborting[r]
                    /\ outcome'[r] \notin {"ok"} /\ (pc'[r] \in Trying => outcome'[r] = "none")
                    /\ (pc'[r] \in Trying \ {"idle", "ensure"} => traced'[r])
<1>1. Tries => RunFits(r)'
  BY DEF RunFits
<1>2. CASE EnsureConversation(r)
  BY <1>1, <1>2 DEF EnsureConversation, Refuses, Returns, TypeOK, RunFits, Trying
<1>3. CASE CheckQueryLog(r) \/ CheckTrace(r)
  <2>1. pc[r] \in Trying \ {"idle", "ensure"} /\ traced'[r] = traced[r] /\ aborting'[r] = aborting[r]
    BY <1>3 DEF CheckQueryLog, CheckTrace, Trying
  <2>2. \/ outcome'[r] = outcome[r]
        \/ outcome'[r] = "refused" /\ pc'[r] = "done"
    BY <1>3 DEF CheckQueryLog, CheckTrace, Refuses, Returns, TypeOK
  <2> QED
    BY <1>1, <2>1, <2>2 DEF RunFits, Trying
<1>4. CASE CreateQueryLog(r) \/ CreateTrace(r) \/ RejectLog(r) \/ ReadContext(r) \/ AgentThrows(r)
  <2>1. pc[r] \in Trying \ {"idle", "ensure"} /\ UNCHANGED locals
    BY <1>4 DEF CreateQueryLog, CreateTrace, RejectLog, ReadContext, AgentThrows, Trying
  <2> QED
    BY <1>1, <2>1 DEF RunFits, Trying, locals
<1>5. CASE Reserve(r)
  BY <1>1, <1>5 DEF Reserve, RunFits, Trying
<1>6. CASE RejectTrace(r)
  <2>1. /\ pc[r] = "reject_trace" /\ UNCHANGED <<traced, aborting>>
        /\ \/ outcome'[r] = outcome[r]
           \/ outcome'[r] = "rejected"
        /\ pc'[r] \in {"done", "abort"}
    BY <1>6 DEF RejectTrace, Returns, TypeOK
  <2> QED
    BY <1>1, <2>1 DEF RunFits, Trying
<1>7. CASE CancelledBeforeCall(r) \/ BreakerOpen(r) \/ AgentAnswers(r) \/ StreamEnds(r)
  <2>1. /\ pc[r] = "call" /\ pc'[r] = "user" /\ UNCHANGED <<aborting, traced, tables, args>>
    BY <1>7 DEF CancelledBeforeCall, BreakerOpen, AgentAnswers, StreamEnds, Finalize
  <2>2. ~aborting[r] /\ traced[r]
    BY <2>1 DEF RunFits, Trying
  <2>3. /\ conversation[Conv(r)] = Owner(r) /\ log[Req(r)].owner = Owner(r)
        /\ trace[Req(r)].owner = Owner(r)
    BY <2>1 DEF ChecksStayValid, ChecksValid, HoldsConversation, HoldsLog, HoldsTrace
  <2>4. OkPersists(r)'
    BY <2>1, <2>2, <2>3 DEF OkPersists, Settling, tables, Owner, Req, Conv
  <2> QED
    BY <2>1, <2>4 DEF RunFits, Trying
<1>8. CASE PersistUserMessage(r) \/ PersistAnswer(r) \/ PersistLog(r) \/ PersistTrace(r)
           \/ PersistUsage(r)
  <2>1. pc[r] \in Settling
    BY <1>8 DEF PersistUserMessage, PersistAnswer, PersistLog, PersistTrace, PersistUsage, Settling
  <2> QED
    BY <1>8, <2>1, SettlingFits
<1>9. CASE RolledBack(r)
  <2>1. /\ pc[r] \in TxSteps /\ pc'[r] = (IF aborting[r] THEN "done" ELSE "abort")
        /\ UNCHANGED <<tables, args, traced, verdict, aborting, outcome>>
    BY <1>9 DEF RolledBack, Throws
  <2>2. OkPersists(r) => OkPersists(r)'
    BY <2>1 DEF OkPersists, TxSteps, Settling, tables, Owner, Req, Conv
  <2> QED
    BY <2>1, <2>2 DEF RunFits, Trying
<1>10. CASE Abort(r)
  <2>1. outcome'[r] = "aborted" /\ pc'[r] \in {"done", "user"}
    BY <1>10 DEF Abort, Returns, Finalize, TypeOK
  <2> QED
    BY <2>1 DEF RunFits, Trying
<1> QED
  BY <1>2, <1>3, <1>4, <1>5, <1>6, <1>7, <1>8, <1>9, <1>10 DEF RunStep

LEMMA InitOk == ASSUME Init PROVE OkInv
<1>1. IInv
  BY InitInvariant
<1>2. \A r \in Runs : RunFits(r)
  BY DEF Init, RunFits, Trying
<1> QED
  BY <1>1, <1>2 DEF OkInv

LEMMA NextOk == ASSUME OkInv, [Next]_vars PROVE OkInv'
<1>1. IInv'
  BY NextInvariant DEF OkInv
<1>2. CASE UNCHANGED vars
  BY <1>1, <1>2 DEF OkInv, RunFits, OkPersists, vars, tables, locals, Owner, Req, Conv
<1>3. CASE Crash
  <2>1. ASSUME NEW s \in Runs PROVE RunFits(s)'
    <3>1. /\ UNCHANGED <<tables, args, traced, verdict, aborting>>
          /\ \/ pc'[s] = "done" /\ outcome'[s] = "crashed"
             \/ pc'[s] = pc[s] /\ outcome'[s] = outcome[s]
      BY <1>3 DEF Crash
    <3> QED
      BY <3>1 DEF OkInv, RunFits, OkPersists, tables, Owner, Req, Conv, Trying
  <2> QED
    BY <1>1, <2>1 DEF OkInv
<1>4. ASSUME NEW r \in Runs, Begin(r)
      PROVE  OkInv'
  <2>1. ASSUME NEW s \in Runs PROVE RunFits(s)'
    <3>1. /\ UNCHANGED <<tables, args, traced, verdict, aborting, outcome>>
          /\ \/ pc[s] = "idle" /\ pc'[s] = "ensure"
             \/ pc'[s] = pc[s]
      BY <1>4 DEF Begin, Goto, locals, OkInv, IInv, TypeOK
    <3> QED
      BY <3>1 DEF OkInv, RunFits, OkPersists, tables, Owner, Req, Conv, Trying, Settling
  <2> QED
    BY <1>1, <2>1 DEF OkInv
<1>5. ASSUME NEW r \in Runs, RunStep(r)
      PROVE  OkInv'
  <2>1. \A s \in Runs : RunFits(s)'
    BY <1>5, RunStepFits, OthersFit DEF OkInv, IInv
  <2> QED
    BY <1>1, <2>1 DEF OkInv
<1> QED
  BY <1>2, <1>3, <1>4, <1>5 DEF Next

LEMMA AlwaysOk == Spec => []OkInv
  BY InitOk, NextOk, PTL DEF Spec

\* A run that answers OK has settled its log and its trace, and stored its question,
\* its answer if there is one, and its ledger entry; no retry takes this back.
THEOREM OkCorrect == Spec => []OkMeansDurable
<1>1. OkInv => OkMeansDurable
  BY DEF OkInv, RunFits, OkPersists, OkMeansDurable
<1> QED
  BY <1>1, AlwaysOk, PTL

------------------------------------------------------------------------------
(* Without failing transactions every running row has its worker, and the    *)
(* log, the trace, the reservation and the ledger of a request agree.         *)

\* The steps at which a run has yet to settle the row of its log, or its trace.
LogSteps == {"trace", "trace_check", "reserve", "reject_log", "context", "call", "abort",
             "user", "assistant", "fin_log"}
TraceSteps == {"reserve", "reject_log", "reject_trace", "context", "call", "abort",
               "user", "assistant", "fin_log", "fin_trace"}

\* The run that will settle a running row has the owner of the row, or has crashed.
WorksOn(r, q, steps, owner) ==
  Req(r) = q /\ (outcome[r] = "crashed" \/ (pc[r] \in steps /\ Owner(r) = owner))
RowHasWorker(q) ==
  /\ log[q].status = "running" => \E r \in Runs : WorksOn(r, q, LogSteps, log[q].owner)
  /\ trace[q].status = "running" => \E r \in Runs : WorksOn(r, q, TraceSteps, trace[q].owner)

\* What was reserved, and what was charged of it.
ChargesFit(q) ==
  /\ reservation[q] # NoTokens => reservation[q].tokens = Cost[q]
  /\ ledger[q] # NoTokens => ledger[q] = reservation[q]

\* A run gets to its catch block from the call of the agent only.
Unfailed(r) ==
  /\ pc[r] \in Trying \cup {"abort"} => ~finalized[r]
  /\ pc[r] \in Settling \cup {"abort"} =>
       /\ traced[r] /\ log[Req(r)].owner = Owner(r) /\ trace[Req(r)].owner = Owner(r)
  /\ pc[r] \in Settling \cup {"context", "call", "abort"} => estimated[r] = Cost[Req(r)]
  /\ pc[r] = "trace_check" => trace[Req(r)] # NoRow
  /\ outcome[r] = "crashed" => pc[r] = "done"

FaultFreeInv ==
  /\ OkInv /\ \A r \in Runs : Unfailed(r)
  /\ \A q \in Requests : RowHasWorker(q) /\ ChargesFit(q)

\* The log and the trace of a request that one run works on.
PairFits(r) ==
  LET q == Req(r) IN
    /\ pc[r] \in InFlight \ {"trace", "reject_trace", "fin_trace"} => log[q] = trace[q]
    /\ pc[r] = "trace" =>
         log[q] = trace[q] \/ (trace[q] = NoRow /\ log[q] = [owner |-> Owner(r), status |-> "running"])
    /\ pc[r] = "reject_trace" => log[q] = UpdatedRow(trace[q], Owner(r), "rejected")
    /\ pc[r] = "fin_trace" => log[q] = UpdatedRow(trace[q], Owner(r), verdict[r].status)

Uncrashed(q) == \A r \in Runs : Req(r) = q => outcome[r] # "crashed"
PairsFit(q) ==
  /\ InFlightFor(q) = {} => log[q] = trace[q]
  /\ \A r \in InFlightFor(q) : PairFits(r)
RetriesInv ==
  /\ FaultFreeInv
  /\ \A q \in Requests \ overlapped : ~Overlapping(q) /\ (Uncrashed(q) => PairsFit(q))

LEMMA SureNext ==
  ASSUME TypeOK, MaxFaults = 0, NEW r \in Runs
  PROVE  /\ ~Throws(r) /\ ~RolledBack(r)
         /\ \A step : Goto(r, step) \/ Committed(r, step) => pc'[r] = step
         /\ Refuses(r) => pc'[r] = "done" /\ outcome'[r] = "refused"
         /\ \A status, answer : Finalize(r, status, answer) => pc'[r] = "user"
<1>1. ~Throws(r)
  BY DEF Throws, TypeOK
<1>2. \A step : Goto(r, step) => pc'[r] = step
  BY NextPc
<1>3. Refuses(r) => pc'[r] = "done" /\ outcome'[r] = "refused"
  BY <1>1, <1>2 DEF Refuses, Returns, TypeOK
<1> QED
  BY <1>1, <1>2, <1>3 DEF Committed, RolledBack, Finalize

\* A run goes from one step of these to the next, and settles a row as it leaves them.
LEMMA LogStepsGoOn ==
  ASSUME FaultFreeInv, MaxFaults = 0, NEW r \in Runs, RunStep(r), pc[r] \in LogSteps,
         log[Req(r)].owner = Owner(r)
  PROVE  pc'[r] \in LogSteps \/ log'[Req(r)].status \in Terminal
<1> USE ArgsType, SureNext DEF FaultFreeInv, OkInv, IInv, LogSteps
<1>1. CASE CreateTrace(r) \/ Reserve(r) \/ ReadContext(r) \/ AgentThrows(r)
           \/ PersistUserMessage(r) \/ PersistAnswer(r)
  BY <1>1 DEF CreateTrace, Reserve, ReadContext, AgentThrows, PersistUserMessage, PersistAnswer
<1>2. CASE CheckTrace(r)
  <2>1. trace[Req(r)].owner = Owner(r)
    BY <1>2 DEF Unfailed, RowsShareOwner, CheckTrace
  <2> QED
    BY <1>2, <2>1 DEF CheckTrace
<1>3. CASE CancelledBeforeCall(r) \/ BreakerOpen(r) \/ AgentAnswers(r) \/ StreamEnds(r)
  BY <1>3 DEF CancelledBeforeCall, BreakerOpen, AgentAnswers, StreamEnds
<1>4. CASE Abort(r)
  BY <1>4 DEF Abort, Unfailed
<1>5. CASE RejectLog(r)
  BY <1>5 DEF RejectLog, UpdatedRow, TypeOK, Rows, NoRow, Terminal
<1>6. CASE PersistLog(r)
  BY <1>6 DEF PersistLog, UpdatedRow, TypeOK, Rows, NoRow
<1>7. pc[r] \notin {"ensure", "log", "log_check", "reject_trace", "fin_trace", "ledger"}
  OBVIOUS
<1> QED
  BY <1>1, <1>2, <1>3, <1>4, <1>5, <1>6, <1>7 DEF RunStep, EnsureConversation, CreateQueryLog,
     CheckQueryLog, RejectTrace, PersistTrace, PersistUsage

LEMMA TraceStepsGoOn ==
  ASSUME FaultFreeInv, MaxFaults = 0, NEW r \in Runs, RunStep(r), pc[r] \in TraceSteps,
         trace[Req(r)].owner = Owner(r)
  PROVE  pc'[r] \in TraceSteps \/ trace'[Req(r)].status \in Terminal
<1> USE ArgsType, SureNext DEF FaultFreeInv, OkInv, IInv, TraceSteps
<1>1. CASE Reserve(r) \/ RejectLog(r) \/ ReadContext(r) \/ AgentThrows(r)
           \/ PersistUserMessage(r) \/ PersistAnswer(r) \/ PersistLog(r)
  BY <1>1 DEF Reserve, RejectLog, ReadContext, AgentThrows, PersistUserMessage, PersistAnswer,
     PersistLog
<1>2. CASE CancelledBeforeCall(r) \/ BreakerOpen(r) \/ AgentAnswers(r) \/ StreamEnds(r)
  BY <1>2 DEF CancelledBeforeCall, BreakerOpen, AgentAnswers, StreamEnds
<1>3. CASE Abort(r)
  BY <1>3 DEF Abort, Unfailed
<1>4. CASE RejectTrace(r)
  BY <1>4 DEF RejectTrace, UpdatedRow, TypeOK, Rows, NoRow, Terminal
<1>5. CASE PersistTrace(r)
  <2>1. traced[r]
    BY <1>5 DEF PersistTrace, Unfailed, Settling
  <2> QED
    BY <1>5, <2>1 DEF PersistTrace, UpdatedRow, TypeOK, Rows, NoRow
<1>6. pc[r] \notin {"ensure", "log", "log_check", "trace", "trace_check", "ledger"}
  OBVIOUS
<1> QED
  BY <1>1, <1>2, <1>3, <1>4, <1>5, <1>6 DEF RunStep, EnsureConversation, CreateQueryLog,
     CheckQueryLog, CreateTrace, CheckTrace, PersistUsage

\* A row that runs after a step ran before, or the step has inserted it.
LEMMA StillRunning ==
  ASSUME NEW old \in Rows, NEW new, NEW owner, RowStep(old, new, owner), new.status = "running"
  PROVE  \/ new = old
         \/ old = NoRow /\ new = [owner |-> owner, status |-> "running"]
<1>1. ASSUME NEW status \in Terminal, new = UpdatedRow(old, owner, status)
      PROVE  new = old
  BY <1>1 DEF UpdatedRow, Rows, Terminal, NoRow
<1> QED
  BY <1>1 DEF RowStep

LEMMA RunStepWorkers ==
  ASSUME FaultFreeInv, MaxFaults = 0, NEW r \in Runs, RunStep(r), NEW q \in Requests
  PROVE  RowHasWorker(q)'
<1> USE ArgsType DEF FaultFreeInv, OkInv, IInv
<1>1. pc[r] # "done" /\ args' = args
  <2>1. pc[r] # "done"
    BY DEF RunStep, EnsureConversation, CreateQueryLog, CheckQueryLog, CreateTrace, CheckTrace,
       Reserve, RejectLog, RejectTrace, ReadContext, CancelledBeforeCall, BreakerOpen,
       AgentAnswers, StreamEnds, AgentThrows, PersistUserMessage, PersistAnswer, PersistLog,
       PersistTrace, PersistUsage, RolledBack, Abort, TxSteps
  <2> QED
    BY <2>1, RunStepGrows DEF Grows
<1>2. ASSUME NEW s \in Runs PROVE Req(s)' = Req(s) /\ Owner(s)' = Owner(s)
  BY <1>1 DEF Req, Owner
<1>3. ASSUME log'[q].status = "running"
      PROVE  \E s \in Runs : WorksOn(s, q, LogSteps, log[q].owner)'
  <2>1. CASE log'[q] = log[q]
    <3>1. PICK s \in Runs : WorksOn(s, q, LogSteps, log[q].owner)
      BY <1>3, <2>1 DEF RowHasWorker
    <3>2. CASE s # r
      BY <1>2, <2>1, <3>1, <3>2, RunStepKeepsOthers DEF WorksOn
    <3>3. CASE s = r
      <4>1. pc[r] \in LogSteps /\ Req(r) = q /\ log[q].owner = Owner(r)
        BY <1>1, <3>1, <3>3 DEF WorksOn, Unfailed
      <4>2. pc'[r] \in LogSteps
        BY <1>3, <4>1, LogStepsGoOn DEF Terminal
      <4> QED
        BY <1>2, <2>1, <4>1, <4>2 DEF WorksOn
    <3> QED
      BY <3>2, <3>3
  <2>2. CASE log'[q] # log[q]
    <3>1. log[q] = NoRow /\ log'[q] = [owner |-> Owner(r), status |-> "running"]
      BY <1>3, <2>2, LogStep, StillRunning DEF TypeOK
    <3>2. CreateQueryLog(r)
      <4>1. ~RejectLog(r) /\ ~PersistLog(r)
        <5>1. \A status \in Terminal : UpdatedRow(log[q], Owner(r), status) = log[q]
          BY <3>1, RowAssumption DEF UpdatedRow, NoRow
        <5>2. "rejected" \in Terminal /\ verdict[r].status \in Terminal
          BY DEF Terminal, TypeOK
        <5>3. ASSUME NEW status \in Terminal,
                     log' = [log EXCEPT ![Req(r)] = UpdatedRow(@, Owner(r), status)]
              PROVE  FALSE
          BY <2>2, <5>1, <5>3 DEF TypeOK
        <5> QED
          BY <5>2, <5>3 DEF RejectLog, PersistLog
      <4> QED
        BY <2>2, <4>1 DEF RunStep, EnsureConversation, CheckQueryLog, CreateTrace, CheckTrace,
           Reserve, RejectTrace, ReadContext, CancelledBeforeCall, BreakerOpen, AgentAnswers,
           StreamEnds, AgentThrows, PersistUserMessage, PersistAnswer, PersistTrace,
           PersistUsage, RolledBack, Abort, tables
    <3>3. Req(r) = q /\ pc'[r] = "trace"
      BY <2>2, <3>1, <3>2, SureNext DEF CreateQueryLog, TypeOK
    <3> QED
      BY <1>2, <3>1, <3>3 DEF WorksOn, LogSteps
  <2> QED
    BY <2>1, <2>2
<1>4. ASSUME trace'[q].status = "running"
      PROVE  \E s \in Runs : WorksOn(s, q, TraceSteps, trace[q].owner)'
  <2>1. CASE trace'[q] = trace[q]
    <3>1. PICK s \in Runs : WorksOn(s, q, TraceSteps, trace[q].owner)
      BY <1>4, <2>1 DEF RowHasWorker
    <3>2. CASE s # r
      BY <1>2, <2>1, <3>1, <3>2, RunStepKeepsOthers DEF WorksOn
    <3>3. CASE s = r
      <4>1. pc[r] \in TraceSteps /\ Req(r) = q /\ trace[q].owner = Owner(r)
        BY <1>1, <3>1, <3>3 DEF WorksOn, Unfailed
      <4>2. pc'[r] \in TraceSteps
        BY <1>4, <4>1, TraceStepsGoOn DEF Terminal
      <4> QED
        BY <1>2, <2>1, <4>1, <4>2 DEF WorksOn
    <3> QED
      BY <3>2, <3>3
  <2>2. CASE trace'[q] # trace[q]
    <3>1. trace[q] = NoRow /\ trace'[q] = [owner |-> Owner(r), status |-> "running"]
      BY <1>4, <2>2, TraceStep, StillRunning DEF TypeOK
    <3>2. CreateTrace(r)
      <4>1. ~RejectTrace(r) /\ ~PersistTrace(r)
        <5>1. \A status \in Terminal : UpdatedRow(trace[q], Owner(r), status) = trace[q]
          BY <3>1, RowAssumption DEF UpdatedRow, NoRow
        <5>2. "rejected" \in Terminal /\ verdict[r].status \in Terminal
          BY DEF Terminal, TypeOK
        <5>3. ASSUME NEW status \in Terminal,
                     trace' = [trace EXCEPT ![Req(r)] = UpdatedRow(@, Owner(r), status)]
              PROVE  FALSE
          BY <2>2, <5>1, <5>3 DEF TypeOK
        <5> QED
          BY <2>2, <5>2, <5>3 DEF RejectTrace, PersistTrace
      <4> QED
        BY <2>2, <4>1 DEF RunStep, EnsureConversation, CreateQueryLog, CheckQueryLog, CheckTrace,
           Reserve, RejectLog, ReadContext, CancelledBeforeCall, BreakerOpen, AgentAnswers,
           StreamEnds, AgentThrows, PersistUserMessage, PersistAnswer, PersistLog,
           PersistUsage, RolledBack, Abort, tables
    <3>3. Req(r) = q /\ pc'[r] = "reserve"
      BY <2>2, <3>1, <3>2, SureNext DEF CreateTrace, TypeOK
    <3> QED
      BY <1>2, <3>1, <3>3 DEF WorksOn, TraceSteps
  <2> QED
    BY <2>1, <2>2
<1> QED
  BY <1>3, <1>4 DEF RowHasWorker

LEMMA RunStepCharges ==
  ASSUME FaultFreeInv, MaxFaults = 0, NEW r \in Runs, RunStep(r), NEW q \in Requests
  PROVE  ChargesFit(q)'
<1> USE ArgsType DEF FaultFreeInv, OkInv, IInv
<1>1. CASE Reserve(r)
  <2>1. /\ reservation'[q] = reservation[q]
           \/ (reservation[q] = NoTokens /\ reservation'[q].tokens = Cost[q])
        /\ ledger' = ledger
    BY <1>1 DEF Reserve, TypeOK
  <2> QED
    BY <2>1 DEF ChargesFit
<1>2. CASE PersistUsage(r)
  <2>1. reservation' = reservation
    BY <1>2 DEF PersistUsage
  <2>2. CASE ledger'[q] = ledger[q]
    BY <2>1, <2>2 DEF ChargesFit
  <2>3. CASE ledger'[q] # ledger[q]
    <3>1. /\ Req(r) = q /\ ledger'[q] = [owner |-> Owner(r), tokens |-> estimated[r]]
          /\ pc[r] = "ledger"
      BY <1>2, <2>3 DEF PersistUsage, TypeOK
    <3>2. reservation[q].owner = Owner(r) /\ estimated[r] = Cost[q]
      BY <3>1 DEF ChecksStayValid, ChecksValid, HoldsReservation, Unfailed, Settling
    <3>3. reservation[q] # NoTokens
      BY <3>2, NullRows, RowAssumption
    <3>4. reservation[q] = [owner |-> Owner(r), tokens |-> Cost[q]]
      BY <3>2, <3>3 DEF ChargesFit, TypeOK, TokenRows
    <3> QED
      BY <2>1, <3>1, <3>2, <3>3, <3>4 DEF ChargesFit
  <2> QED
    BY <2>2, <2>3
<1>3. CASE UNCHANGED <<reservation, ledger>>
  BY <1>3 DEF ChargesFit
<1>4. Reserve(r) \/ PersistUsage(r) \/ UNCHANGED <<reservation, ledger>>
  BY DEF RunStep, EnsureConversation, CreateQueryLog, CheckQueryLog, CreateTrace, CheckTrace,
     RejectLog, RejectTrace, ReadContext, CancelledBeforeCall, BreakerOpen, AgentAnswers,
     StreamEnds, AgentThrows, PersistUserMessage, PersistAnswer, PersistLog, PersistTrace,
     RolledBack, Abort, tables
<1> QED
  BY <1>1, <1>2, <1>3, <1>4

LEMMA OthersUnfailed ==
  ASSUME TypeOK, NEW r \in Runs, RunStep(r), NEW s \in Runs \ {r}, Unfailed(s)
  PROVE  Unfailed(s)'
<1>1. trace[Req(s)] # NoRow => trace'[Req(s)] # NoRow
  BY RunStepGrows, NullRows, ArgsType DEF Grows, NoRow
<1> QED
  BY <1>1, RunStepKeepsOthers, PersistedStays DEF Unfailed

LEMMA RunStepUnfailed ==
  ASSUME FaultFreeInv, MaxFaults = 0, NEW r \in Runs, RunStep(r)
  PROVE  Unfailed(r)'
<1> USE ArgsType, SureNext DEF FaultFreeInv, OkInv, IInv
<1>1. /\ Owner(r)' = Owner(r) /\ Req(r)' = Req(r)
      /\ log[Req(r)].owner = Owner(r) => log'[Req(r)].owner = Owner(r)
      /\ trace[Req(r)].owner = Owner(r) => trace'[Req(r)].owner = Owner(r)
      /\ trace[Req(r)] # NoRow => trace'[Req(r)] # NoRow
  <2>1. trace[Req(r)] # NoRow => trace'[Req(r)] # NoRow
    BY RunStepGrows, NullRows DEF Grows, NoRow
  <2> QED
    BY <2>1, PersistedStays
<1> USE <1>1 DEF Unfailed, Trying, Settling
<1>2. CASE EnsureConversation(r) \/ CreateQueryLog(r) \/ CheckQueryLog(r)
  BY <1>2 DEF EnsureConversation, CreateQueryLog, CheckQueryLog, locals
<1>3. CASE CreateTrace(r)
  BY <1>3 DEF CreateTrace, locals
<1>4. CASE CheckTrace(r)
  BY <1>4 DEF CheckTrace
<1>5. CASE Reserve(r)
  BY <1>5 DEF Reserve, TypeOK
<1>6. CASE RejectLog(r) \/ RejectTrace(r)
  <2>1. /\ pc'[r] \in {"reject_trace", "done"} /\ UNCHANGED <<traced, estimated>>
        /\ pc'[r] = "reject_trace" => finalized'[r] = finalized[r] /\ outcome'[r] = outcome[r]
        /\ pc[r] \in {"reject_log", "reject_trace"}
    BY <1>6 DEF RejectLog, RejectTrace, locals
  <2> QED
    BY <2>1
<1>7. CASE ReadContext(r)
  BY <1>7 DEF ReadContext, locals
<1>8. CASE AgentThrows(r)
  BY <1>8 DEF AgentThrows, locals, tables, RunFits, ChecksStayValid, ChecksValid, HoldsLog, HoldsTrace
<1>9. CASE CancelledBeforeCall(r) \/ BreakerOpen(r) \/ AgentAnswers(r) \/ StreamEnds(r)
  <2>1. /\ pc[r] = "call" /\ pc'[r] = "user" /\ UNCHANGED <<traced, tables, estimated>>
        /\ outcome'[r] # "crashed"
    BY <1>9 DEF CancelledBeforeCall, BreakerOpen, AgentAnswers, StreamEnds, Returns, TypeOK
  <2>2. traced[r] /\ log[Req(r)].owner = Owner(r) /\ trace[Req(r)].owner = Owner(r)
    BY <2>1 DEF RunFits, ChecksStayValid, ChecksValid, HoldsLog, HoldsTrace
  <2> QED
    BY <2>1, <2>2
<1>10. CASE PersistUserMessage(r) \/ PersistAnswer(r) \/ PersistLog(r) \/ PersistTrace(r)
            \/ PersistUsage(r)
  <2>1. /\ pc[r] \in Settling /\ pc'[r] \in Settling \cup {"done"} /\ UNCHANGED locals
    BY <1>10 DEF PersistUserMessage, PersistAnswer, PersistLog, PersistTrace, PersistUsage
  <2> QED
    BY <2>1 DEF locals
<1>11. CASE Abort(r)
  <2>1. /\ pc[r] = "abort" /\ pc'[r] = "user" /\ UNCHANGED <<traced, estimated>>
        /\ outcome'[r] # "crashed"
    BY <1>11 DEF Abort, Returns, TypeOK
  <2> QED
    BY <2>1
<1> QED
  BY <1>2, <1>3, <1>4, <1>5, <1>6, <1>7, <1>8, <1>9, <1>10, <1>11 DEF RunStep

LEMMA InitFaultFree == ASSUME Init PROVE FaultFreeInv
<1>1. OkInv
  BY InitOk
<1>2. \A r \in Runs : Unfailed(r)
  BY DEF Init, Unfailed, Trying, Settling
<1>3. \A q \in Requests : RowHasWorker(q) /\ ChargesFit(q)
  BY DEF Init, RowHasWorker, ChargesFit, NoRow
<1> QED
  BY <1>1, <1>2, <1>3 DEF FaultFreeInv

LEMMA NextFaultFree ==
  ASSUME FaultFreeInv, MaxFaults = 0, [Next]_vars
  PROVE  FaultFreeInv'
<1>1. OkInv'
  BY NextOk DEF FaultFreeInv
<1>2. CASE UNCHANGED vars
  BY <1>1, <1>2 DEF FaultFreeInv, Unfailed, RowHasWorker, WorksOn, ChargesFit, vars, tables, locals,
     Owner, Req
<1>3. ASSUME UNCHANGED <<tables, args, traced, estimated, finalized>>,
             \A s \in Runs : \/ pc'[s] = "done" /\ outcome'[s] = "crashed"
                             \/ pc'[s] = pc[s] /\ outcome'[s] = outcome[s]
                             \/ pc[s] = "idle" /\ pc'[s] = "ensure" /\ outcome'[s] = outcome[s]
      PROVE  FaultFreeInv'
  <2>1. \A s \in Runs : /\ Req(s)' = Req(s) /\ Owner(s)' = Owner(s)
                        /\ outcome[s] = "crashed" => outcome'[s] = "crashed"
    BY <1>3 DEF Req, Owner
  <2>2. \A s \in Runs : Unfailed(s)'
    BY <1>3, <2>1 DEF FaultFreeInv, Unfailed, tables, Trying, Settling
  <2>3. ASSUME NEW s \in Runs, NEW q \in Requests, NEW owner, NEW steps,
               "idle" \notin steps, WorksOn(s, q, steps, owner)
        PROVE  Req(s)' = q /\ (outcome'[s] = "crashed" \/ (pc'[s] \in steps /\ Owner(s)' = owner))
    BY <1>3, <2>1, <2>3 DEF WorksOn
  <2>4. ASSUME NEW q \in Requests PROVE RowHasWorker(q)'
    <3>1. "idle" \notin LogSteps /\ "idle" \notin TraceSteps
      BY DEF LogSteps, TraceSteps
    <3>2. log' = log /\ trace' = trace
      BY <1>3 DEF tables
    <3>3. RowHasWorker(q)
      BY DEF FaultFreeInv
    <3>4. ASSUME NEW owner, NEW steps, "idle" \notin steps,
                 \E s \in Runs : WorksOn(s, q, steps, owner)
          PROVE  \E s \in Runs : WorksOn(s, q, steps, owner)'
      <4>1. PICK s \in Runs : WorksOn(s, q, steps, owner)
        BY <3>4
      <4>2. Req(s)' = q /\ (outcome'[s] = "crashed" \/ (pc'[s] \in steps /\ Owner(s)' = owner))
        BY <2>3, <3>4, <4>1
      <4> QED
        BY <4>2 DEF WorksOn
    <3> QED
      BY <3>1, <3>2, <3>3, <3>4 DEF RowHasWorker
  <2>5. \A q \in Requests : ChargesFit(q)'
    BY <1>3 DEF FaultFreeInv, ChargesFit, tables
  <2> QED
    BY <1>1, <2>2, <2>4, <2>5 DEF FaultFreeInv
<1>4. CASE Crash
  BY <1>3, <1>4 DEF Crash
<1>5. CASE \E r \in Runs : Begin(r)
  <2>1. \A s \in Runs : pc'[s] = pc[s] \/ (pc[s] = "idle" /\ pc'[s] = "ensure")
    BY <1>5 DEF Begin, Goto, FaultFreeInv, OkInv, IInv, TypeOK
  <2> QED
    BY <1>3, <1>5, <2>1 DEF Begin, locals
<1>6. ASSUME NEW r \in Runs, RunStep(r) PROVE FaultFreeInv'
  <2>1. \A s \in Runs : Unfailed(s)'
    BY <1>6, RunStepUnfailed, OthersUnfailed DEF FaultFreeInv, OkInv, IInv
  <2>2. \A q \in Requests : RowHasWorker(q)' /\ ChargesFit(q)'
    BY <1>6, RunStepWorkers, RunStepCharges
  <2> QED
    BY <1>1, <2>1, <2>2 DEF FaultFreeInv
<1> QED
  BY <1>2, <1>4, <1>5, <1>6 DEF Next

LEMMA AlwaysFaultFree == ASSUME MaxFaults = 0 PROVE Spec => []FaultFreeInv
<1>1. FaultFreeInv /\ [Next]_vars => FaultFreeInv'
  BY NextFaultFree
<1> QED
  BY <1>1, InitFaultFree, PTL DEF Spec

\* Without failing transactions each query log and trace that is running has a run
\* that will settle it, unless the server crashed under one.
THEOREM WorkersCorrect == ASSUME MaxFaults = 0 PROVE Spec => []RunningHasWorker
<1>1. FaultFreeInv => RunningHasWorker
  BY DEF FaultFreeInv, RowHasWorker, WorksOn, RunningHasWorker, LogSteps, TraceSteps, InFlight,
     Steps, TxSteps
<1> QED
  BY <1>1, AlwaysFaultFree, PTL

\* Without failing transactions the ledger charges exactly what was reserved.
THEOREM LedgerCorrect == ASSUME MaxFaults = 0 PROVE Spec => []LedgerMatchesReservation
<1>1. FaultFreeInv => LedgerMatchesReservation
  BY DEF FaultFreeInv, ChargesFit, LedgerMatchesReservation
<1> QED
  BY <1>1, AlwaysFaultFree, PTL
\* One step of the run that works on a request keeps the log and the trace in step.
LEMMA PairStep ==
  ASSUME FaultFreeInv, MaxFaults = 0, NEW r \in Runs, RunStep(r), PairFits(r)
  PROVE  /\ pc'[r] \in InFlight => PairFits(r)'
         /\ pc'[r] \notin InFlight => log'[Req(r)] = trace'[Req(r)]
<1> USE ArgsType, SureNext DEF FaultFreeInv, OkInv, IInv
<1>1. /\ Req(r)' = Req(r) /\ Owner(r)' = Owner(r)
      /\ "done" \notin InFlight /\ "idle" \notin InFlight
  BY PersistedStays DEF InFlight
<1>2. ASSUME log' = log, trace' = trace,
             pc[r] \in InFlight \ {"trace", "reject_trace", "fin_trace"},
             pc'[r] \notin {"reject_trace", "fin_trace"}
      PROVE  /\ pc'[r] \in InFlight => PairFits(r)'
             /\ pc'[r] \notin InFlight => log'[Req(r)] = trace'[Req(r)]
  BY <1>1, <1>2 DEF PairFits
<1>3. CASE EnsureConversation(r) \/ CheckQueryLog(r) \/ CheckTrace(r) \/ Reserve(r) \/ ReadContext(r)
  <2>1. /\ log' = log /\ trace' = trace
        /\ pc[r] \in {"ensure", "log_check", "trace_check", "reserve", "context"}
        /\ pc'[r] \in {"log", "trace", "reserve", "context", "reject_log", "call", "done"}
    BY <1>3 DEF EnsureConversation, CheckQueryLog, CheckTrace, Reserve, ReadContext, tables
  <2> QED
    BY <1>2, <2>1 DEF InFlight, Steps, TxSteps
<1>4. CASE CancelledBeforeCall(r) \/ BreakerOpen(r) \/ AgentAnswers(r) \/ StreamEnds(r)
           \/ AgentThrows(r) \/ Abort(r)
  <2>1. /\ log' = log /\ trace' = trace
        /\ pc[r] \in {"call", "abort"} /\ pc'[r] \in {"user", "abort", "done"}
    BY <1>4 DEF CancelledBeforeCall, BreakerOpen, AgentAnswers, StreamEnds, AgentThrows, Abort, tables
  <2> QED
    BY <1>2, <2>1 DEF InFlight, Steps, TxSteps
<1>5. CASE PersistUserMessage(r) \/ PersistAnswer(r) \/ PersistUsage(r)
  <2>1. /\ log' = log /\ trace' = trace
        /\ pc[r] \in {"user", "assistant", "ledger"}
        /\ pc'[r] \in {"assistant", "fin_log", "done"}
    BY <1>5 DEF PersistUserMessage, PersistAnswer, PersistUsage
  <2> QED
    BY <1>2, <2>1 DEF InFlight, Steps, TxSteps
<1>6. CASE CreateQueryLog(r)
  <2>1. /\ pc[r] = "log" /\ trace' = trace /\ log[Req(r)] = trace[Req(r)]
        /\ \/ /\ log[Req(r)] = NoRow /\ pc'[r] = "trace"
              /\ log'[Req(r)] = [owner |-> Owner(r), status |-> "running"]
           \/ log' = log /\ pc'[r] = "log_check"
    BY <1>6 DEF CreateQueryLog, PairFits, TypeOK, InFlight, Steps, TxSteps
  <2> QED
    BY <1>1, <2>1 DEF PairFits, InFlight, Steps, TxSteps
<1>7. CASE CreateTrace(r)
  <2>1. /\ pc[r] = "trace" /\ log' = log
        /\ \/ /\ trace[Req(r)] = NoRow /\ pc'[r] = "reserve"
              /\ trace'[Req(r)] = [owner |-> Owner(r), status |-> "running"]
           \/ trace[Req(r)] # NoRow /\ trace' = trace /\ pc'[r] = "trace_check"
    BY <1>7 DEF CreateTrace, TypeOK
  <2>2. log[Req(r)] # NoRow
    BY <2>1, NullRows, RowAssumption DEF ChecksStayValid, ChecksValid, HoldsLog
  <2>3. log'[Req(r)] = trace'[Req(r)]
    BY <2>1, <2>2 DEF PairFits
  <2> QED
    BY <1>1, <2>1, <2>3 DEF PairFits, InFlight, Steps, TxSteps
<1>8. CASE RejectLog(r)
  <2>1. /\ pc'[r] = "reject_trace" /\ trace' = trace /\ log[Req(r)] = trace[Req(r)]
        /\ log'[Req(r)] = UpdatedRow(log[Req(r)], Owner(r), "rejected")
    BY <1>8 DEF RejectLog, PairFits, TypeOK, InFlight, Steps, TxSteps
  <2>2. log'[Req(r)] = UpdatedRow(trace'[Req(r)], Owner(r), "rejected")
    BY <2>1
  <2> QED
    BY <1>1, <2>1, <2>2 DEF PairFits, InFlight, Steps, TxSteps
<1>9. CASE RejectTrace(r)
  <2>1. /\ pc'[r] = "done" /\ log' = log
        /\ log[Req(r)] = UpdatedRow(trace[Req(r)], Owner(r), "rejected")
        /\ trace'[Req(r)] = UpdatedRow(trace[Req(r)], Owner(r), "rejected")
    BY <1>9 DEF RejectTrace, PairFits, TypeOK, InFlight, Steps, TxSteps
  <2> QED
    BY <1>1, <2>1
<1>10. CASE PersistLog(r)
  <2>1. /\ pc'[r] = "fin_trace" /\ trace' = trace /\ log[Req(r)] = trace[Req(r)]
        /\ verdict'[r] = verdict[r]
        /\ log'[Req(r)] = UpdatedRow(log[Req(r)], Owner(r), verdict[r].status)
    BY <1>10 DEF PersistLog, PairFits, TypeOK, InFlight, Steps, TxSteps, locals
  <2>2. log'[Req(r)] = UpdatedRow(trace'[Req(r)], Owner(r), verdict'[r].status)
    BY <2>1
  <2> QED
    BY <1>1, <2>1, <2>2 DEF PairFits, InFlight, Steps, TxSteps
<1>11. CASE PersistTrace(r)
  <2>1. /\ pc[r] = "fin_trace" /\ pc'[r] = "ledger" /\ log' = log /\ traced[r]
    BY <1>11 DEF PersistTrace, Unfailed, Settling
  <2>2. /\ log[Req(r)] = UpdatedRow(trace[Req(r)], Owner(r), verdict[r].status)
        /\ trace'[Req(r)] = UpdatedRow(trace[Req(r)], Owner(r), verdict[r].status)
    BY <1>11, <2>1 DEF PersistTrace, PairFits, TypeOK
  <2> QED
    BY <1>1, <2>1, <2>2 DEF PairFits, InFlight, Steps, TxSteps
<1> QED
  BY <1>3, <1>4, <1>5, <1>6, <1>7, <1>8, <1>9, <1>10, <1>11 DEF RunStep

\* A run leaves the rows of all other requests alone.
LEMMA OtherRequests ==
  ASSUME TypeOK, NEW r \in Runs, RunStep(r), NEW q \in Requests, Req(r) # q
  PROVE  log'[q] = log[q] /\ trace'[q] = trace[q]
<1>1. log'[q] = log[q]
  <2>1. CASE CreateQueryLog(r) \/ RejectLog(r) \/ PersistLog(r)
    BY <2>1 DEF CreateQueryLog, RejectLog, PersistLog, TypeOK
  <2> QED
    BY <2>1 DEF RunStep, EnsureConversation, CheckQueryLog, CreateTrace, CheckTrace, Reserve,
       RejectTrace, ReadContext, CancelledBeforeCall, BreakerOpen, AgentAnswers, StreamEnds,
       AgentThrows, PersistUserMessage, PersistAnswer, PersistTrace, PersistUsage, RolledBack,
       Abort, tables
<1>2. trace'[q] = trace[q]
  <2>1. CASE CreateTrace(r) \/ RejectTrace(r) \/ PersistTrace(r)
    BY <2>1 DEF CreateTrace, RejectTrace, PersistTrace, TypeOK
  <2> QED
    BY <2>1 DEF RunStep, EnsureConversation, CreateQueryLog, CheckQueryLog, CheckTrace, Reserve,
       RejectLog, ReadContext, CancelledBeforeCall, BreakerOpen, AgentAnswers, StreamEnds,
       AgentThrows, PersistUserMessage, PersistAnswer, PersistLog, PersistUsage, RolledBack,
       Abort, tables
<1> QED
  BY <1>1, <1>2

\* Only a run in flight takes a step.
LEMMA WorkingRuns ==
  ASSUME TypeOK, NEW r \in Runs, RunStep(r)
  PROVE  pc[r] \in InFlight
<1>1. pc[r] \notin {"idle", "done"}
  BY DEF RunStep, EnsureConversation, CreateQueryLog, CheckQueryLog, CreateTrace, CheckTrace,
     Reserve, RejectLog, RejectTrace, ReadContext, CancelledBeforeCall, BreakerOpen,
     AgentAnswers, StreamEnds, AgentThrows, PersistUserMessage, PersistAnswer, PersistLog,
     PersistTrace, PersistUsage, RolledBack, Abort, TxSteps
<1> QED
  BY <1>1 DEF TypeOK, InFlight

\* The local state of a run that takes no step keeps its pair.
LEMMA PairStays ==
  ASSUME NEW r \in Runs, args' = args, pc'[r] = pc[r], verdict'[r] = verdict[r], PairFits(r),
         log'[Req(r)] = log[Req(r)], trace'[Req(r)] = trace[Req(r)]
  PROVE  PairFits(r)'
<1>1. Req(r)' = Req(r) /\ Owner(r)' = Owner(r)
  BY DEF Req, Owner
<1> QED
  BY <1>1 DEF PairFits

LEMMA RunStepPairs ==
  ASSUME FaultFreeInv, MaxFaults = 0, NEW r \in Runs, RunStep(r), NEW q \in Requests,
         ~Overlapping(q), Uncrashed(q) => PairsFit(q), Uncrashed(q)'
  PROVE  PairsFit(q)'
<1> USE DEF FaultFreeInv, OkInv, IInv
<1>1. /\ args' = args /\ \A s \in Runs : Req(s)' = Req(s)
      /\ pc[r] \in InFlight
  BY RunStepGrows, WorkingRuns DEF Grows, Req
<1>2. \A s \in Runs \ {r} : /\ pc'[s] = pc[s] /\ verdict'[s] = verdict[s]
                            /\ outcome'[s] = outcome[s]
  BY RunStepKeepsOthers
<1>3. outcome[r] # "crashed"
  BY <1>1 DEF Unfailed, InFlight
<1>4. PairsFit(q)
  <2>1. Uncrashed(q)
    BY <1>1, <1>2, <1>3 DEF Uncrashed
  <2> QED
    BY <2>1
<1>5. CASE Req(r) = q
  <2>1. PairFits(r)
    BY <1>1, <1>4, <1>5 DEF PairsFit, InFlightFor
  <2>2. \A s \in Runs \ {r} : ~(Req(s)' = q /\ pc'[s] \in InFlight)
    BY <1>1, <1>2, <1>5 DEF Overlapping, InFlightFor
  <2>3. (InFlightFor(q) = {})' => log'[q] = trace'[q]
    BY <1>1, <1>5, <2>1, PairStep DEF InFlightFor
  <2>4. ASSUME NEW s \in Runs, Req(s)' = q, pc'[s] \in InFlight PROVE PairFits(s)'
    BY <2>1, <2>2, <2>4, PairStep
  <2> QED
    BY <2>3, <2>4 DEF PairsFit, InFlightFor
<1>6. CASE Req(r) # q
  <2>1. log'[q] = log[q] /\ trace'[q] = trace[q]
    BY <1>6, OtherRequests
  <2>2. ASSUME NEW s \in Runs PROVE (Req(s)' = q /\ pc'[s] \in InFlight) <=> (Req(s) = q /\ pc[s] \in InFlight)
    BY <1>1, <1>2, <1>6
  <2>3. (InFlightFor(q) = {})' => log'[q] = trace'[q]
    BY <1>4, <2>1, <2>2 DEF PairsFit, InFlightFor
  <2>4. ASSUME NEW s \in Runs, Req(s)' = q, pc'[s] \in InFlight PROVE PairFits(s)'
    <3>1. Req(s) = q /\ PairFits(s) /\ s # r
      BY <1>4, <1>6, <2>2, <2>4 DEF PairsFit, InFlightFor
    <3> QED
      BY <1>1, <1>2, <2>1, <3>1, PairStays
  <2> QED
    BY <2>3, <2>4 DEF PairsFit, InFlightFor
<1> QED
  BY <1>5, <1>6

LEMMA BeginPairs ==
  ASSUME TypeOK, NEW r \in Runs, Begin(r), NEW q \in Requests,
         ~Overlapping(q)', Uncrashed(q) => PairsFit(q), Uncrashed(q)'
  PROVE  PairsFit(q)'
<1>1. /\ args' = args /\ verdict' = verdict /\ outcome' = outcome /\ log' = log /\ trace' = trace
      /\ pc[r] = "idle" /\ pc'[r] = "ensure" /\ \A s \in Runs \ {r} : pc'[s] = pc[s]
  BY DEF Begin, Goto, TypeOK, tables, locals
<1>2. \A s \in Runs : Req(s)' = Req(s)
  BY <1>1 DEF Req
<1>3. PairsFit(q)
  BY <1>1, <1>2 DEF Uncrashed
<1>4. CASE Req(r) = q
  <2>1. \A s \in Runs \ {r} : ~(Req(s)' = q /\ pc'[s] \in InFlight)
    BY <1>1, <1>2, <1>4 DEF Overlapping, InFlightFor, InFlight, Steps, TxSteps
  <2>2. log'[q] = trace'[q]
    BY <1>1, <1>2, <1>3, <2>1 DEF PairsFit, InFlightFor, InFlight
  <2>3. PairFits(r)'
    BY <1>1, <1>2, <1>4, <2>2 DEF PairFits
  <2> QED
    BY <2>1, <2>2, <2>3 DEF PairsFit, InFlightFor
<1>5. CASE Req(r) # q
  <2>1. ASSUME NEW s \in Runs PROVE (Req(s)' = q /\ pc'[s] \in InFlight) <=> (Req(s) = q /\ pc[s] \in InFlight)
    BY <1>1, <1>2, <1>5
  <2>2. ASSUME NEW s \in Runs, Req(s)' = q, pc'[s] \in InFlight PROVE PairFits(s)'
    <3>1. PairFits(s) /\ s # r
      BY <1>3, <1>5, <1>2, <2>1, <2>2 DEF PairsFit, InFlightFor
    <3> QED
      BY <1>1, <3>1, PairStays
  <2> QED
    BY <1>1, <1>3, <2>1, <2>2 DEF PairsFit, InFlightFor
<1> QED
  BY <1>4, <1>5

LEMMA CrashPairs ==
  ASSUME TypeOK, Crash, NEW q \in Requests, Uncrashed(q) => PairsFit(q), Uncrashed(q)'
  PROVE  PairsFit(q)'
<1>1. /\ args' = args /\ log' = log /\ trace' = trace
      /\ \A s \in Runs : \/ pc[s] \in InFlight /\ outcome'[s] = "crashed" /\ pc'[s] = "done"
                         \/ pc[s] \notin InFlight /\ outcome'[s] = outcome[s] /\ pc'[s] = pc[s]
  BY DEF Crash, tables
<1>2. \A s \in Runs : Req(s)' = Req(s)
  BY <1>1 DEF Req
<1>3. \A s \in Runs : Req(s) = q => pc[s] \notin InFlight /\ outcome[s] # "crashed" /\ pc'[s] = pc[s]
  BY <1>1, <1>2 DEF Uncrashed
<1>4. log[q] = trace[q]
  BY <1>3 DEF Uncrashed, PairsFit, InFlightFor
<1> QED
  BY <1>1, <1>2, <1>3, <1>4 DEF PairsFit, InFlightFor

LEMMA InitRetries == ASSUME RetriesInit PROVE RetriesInv
<1> USE DEF RetriesInit
<1>1. FaultFreeInv
  BY InitFaultFree
<1>2. \A q \in Requests : InFlightFor(q) = {} /\ log[q] = trace[q]
  BY DEF Init, InFlightFor, InFlight
<1> QED
  BY <1>1, <1>2 DEF RetriesInv, Overlapping, PairsFit

LEMMA NextRetries ==
  ASSUME RetriesInv, MaxFaults = 0, [RetriesNext]_<<vars, overlapped>>
  PROVE  RetriesInv'
<1>1. FaultFreeInv'
  BY NextFaultFree DEF RetriesInv, RetriesNext
<1>2. CASE UNCHANGED <<vars, overlapped>>
  BY <1>1, <1>2 DEF RetriesInv, Overlapping, InFlightFor, Uncrashed, PairsFit, PairFits, vars,
     tables, locals, Owner, Req
<1>3. CASE RetriesNext
  <2> TypeOK
    BY DEF RetriesInv, FaultFreeInv, OkInv, IInv
  <2>1. ASSUME NEW q \in Requests \ overlapped'
        PROVE  /\ q \in Requests \ overlapped
               /\ ~Overlapping(q)' /\ ~Overlapping(q)
               /\ Uncrashed(q) => PairsFit(q)
    BY <1>3 DEF RetriesNext, RetriesInv
  <2>2. ASSUME NEW q \in Requests \ overlapped', Uncrashed(q)' PROVE PairsFit(q)'
    BY <1>3, <2>1, <2>2, RunStepPairs, BeginPairs, CrashPairs DEF RetriesNext, Next, RetriesInv
  <2> QED
    BY <1>1, <2>1, <2>2 DEF RetriesInv
<1> QED
  BY <1>2, <1>3

\* Without failing transactions the records of a request agree: the ledger with the
\* reservation at any time, and the log with the trace once nobody works on the
\* request, unless runs of it overlapped or one of them crashed.
THEOREM AgreeCorrect == ASSUME MaxFaults = 0 PROVE RetriesSpec => []RecordsAgree
<1>1. RetriesInv => RecordsAgree
  BY DEF RetriesInv, FaultFreeInv, ChargesFit, RecordsAgree, LedgerMatchesReservation,
     LogAndTraceAgree, Uncrashed, PairsFit
<1>2. RetriesInv /\ [RetriesNext]_<<vars, overlapped>> => RetriesInv'
  BY NextRetries
<1> QED
  BY <1>1, <1>2, InitRetries, PTL DEF RetriesSpec
=============================================================================
