--------------------------- MODULE CircuitBreaker ---------------------------
(***************************************************************************)
(* The circuit breakers a query passes on its way to an agent.  QueryStream*)
(* asks the server's breaker ("a2a_backend"), the adapter asks its own     *)
(* ("a2a_orchestrator", or one per agent for a direct call).  On the way   *)
(* back each of them counts the result, the innermost first.  Every method *)
(* of a breaker holds its mutex, so it is one step; calls interleave       *)
(* between the steps, and a result may reach a breaker that has changed    *)
(* its state meanwhile.  A call may be retried before it fails, which no   *)
(* breaker sees.  The limit of the delegation depth is left out: the depth *)
(* starts at 0 with each query and no query reaches it.                    *)
(***************************************************************************)
EXTENDS Integers, Sequences

CONSTANTS
  Callers,
  Breakers,
  Paths,             \* the breakers of each kind of call, outermost first
  FailureThreshold, SuccessThreshold, MinRequests,
  MaxCount,          \* bound: counters stay there; no guard sees a difference
  MaxErrors,         \* bound: failed agent calls
  MaxTroubles        \* bound: clients that leave a stream

Counts == 0..MaxCount

\* The relations of the default configuration (5, 3 and 10, failure rate 0.5),
\* the only one in use.
ASSUME ThresholdAssumption ==
  /\ {FailureThreshold, SuccessThreshold, MinRequests} \subseteq Nat \ {0}
  /\ 2 * FailureThreshold <= MinRequests
  /\ SuccessThreshold < MinRequests
ASSUME BoundAssumption ==
  /\ MaxCount \in Nat /\ MinRequests <= MaxCount
  /\ MaxErrors \in Nat /\ MaxTroubles \in Nat
ASSUME PathAssumption == Paths \subseteq Seq(Breakers) \ {<<>>}

VARIABLES
  breaker,
  call,              \* where each caller is on its path, and what it brings back
  errors, troubles   \* failures so far
vars == <<breaker, call, errors, troubles>>

BreakerState == [state: {"CLOSED", "OPEN", "HALF_OPEN"},
                 total: Counts, successful: Counts, failed: Counts,
                 waited: BOOLEAN]  \* the timeout has passed since the last transition
NewBreaker == [state |-> "CLOSED", total |-> 0, successful |-> 0, failed |-> 0,
               waited |-> FALSE]

\* Level i on the way in: about to ask the i-th breaker of the path, or in the
\* agent's hands behind the last one.  On the way back: about to tell it.
\* A stream that ends but has carried an error, or has lost its client
\* meanwhile, is "relayed": a success for the adapter, a failure for the server.
Results == {"ok", "failed", "relayed"}
NoCall == [path |-> <<>>, level |-> 0, result |-> "none"]
CallState == {NoCall} \cup [path: Paths, level: Nat \ {0}, result: Results \cup {"none"}]
------------------------------------------------------------------------------
(* The breaker. *)

Up(n) == IF n < MaxCount THEN n + 1 ELSE n

transitionToOpen(b) ==
  IF b.state = "OPEN" THEN b ELSE [b EXCEPT !.state = "OPEN", !.waited = FALSE]

\* Mutants.
KeepsCounts(b) == [b EXCEPT !.state = "HALF_OPEN", !.waited = FALSE]
KeepsTime(b) == [b EXCEPT !.state = "HALF_OPEN", !.total = 0, !.successful = 0]

transitionToHalfOpen(b) ==
  [b EXCEPT !.state = "HALF_OPEN", !.waited = FALSE, !.total = 0, !.successful = 0]

RateTooHigh(b) == b.total >= MinRequests /\ 2 * b.failed >= b.total
updateFailureRate(b) == IF RateTooHigh(b) THEN transitionToOpen(b) ELSE b

\* Mutants: the state is not tested, or one success more is asked for.
ClosesOpen(b) ==
  LET r == updateFailureRate([b EXCEPT !.total = Up(@), !.successful = Up(@)])
  IN  IF r.successful >= SuccessThreshold THEN NewBreaker ELSE r
ClosesLate(b) ==
  LET r == updateFailureRate([b EXCEPT !.total = Up(@), !.successful = Up(@)])
  IN  IF r.state = "HALF_OPEN" /\ r.successful > SuccessThreshold THEN NewBreaker ELSE r

recordSuccess(b) ==
  LET r == updateFailureRate([b EXCEPT !.total = Up(@), !.successful = Up(@)])
  IN  IF r.state = "HALF_OPEN" /\ r.successful >= SuccessThreshold THEN NewBreaker ELSE r

\* Mutant: the failure rate alone decides.
OpensByRate(b) == updateFailureRate([b EXCEPT !.total = Up(@), !.failed = Up(@)])

recordFailure(b) ==
  LET r == updateFailureRate([b EXCEPT !.total = Up(@), !.failed = Up(@)])
  IN  IF r.failed >= FailureThreshold THEN transitionToOpen(r) ELSE r

isRequestAllowed(b) ==
  CASE b.state = "CLOSED" -> TRUE
    [] b.state = "OPEN" -> b.waited
    [] b.state = "HALF_OPEN" -> b.total < SuccessThreshold
Admitting(b) == IF b.state = "OPEN" THEN transitionToHalfOpen(b) ELSE b
------------------------------------------------------------------------------
(* The calls. *)

Inward(c) == call[c].level > 0 /\ call[c].result = "none"
Outward(c) == call[c].level > 0 /\ call[c].result # "none"
BreakerAt(c) == call[c].path[call[c].level]
AtBreaker(c) == call[c].level <= Len(call[c].path)
AtAgent(c) == call[c].level = Len(call[c].path) + 1

\* The caller returns with a result and tells the breakers from level on.
Return(c, level, result) ==
  call' = [call EXCEPT ![c] = IF level = 0 THEN NoCall
                              ELSE [@ EXCEPT !.level = level, !.result = result]]

Init ==
  /\ breaker = [b \in Breakers |-> NewBreaker]
  /\ call = [c \in Callers |-> NoCall]
  /\ errors = 0 /\ troubles = 0

Call(c) ==
  /\ call[c] = NoCall
  /\ \E path \in Paths :
       call' = [call EXCEPT ![c] = [path |-> path, level |-> 1, result |-> "none"]]
  /\ UNCHANGED <<breaker, errors, troubles>>

\* A refused call counts as a failure for the breakers outside.
Ask(c) ==
  /\ Inward(c) /\ AtBreaker(c)
  /\ LET b == breaker[BreakerAt(c)] IN
       IF isRequestAllowed(b)
       THEN /\ breaker' = [breaker EXCEPT ![BreakerAt(c)] = Admitting(b)]
            /\ call' = [call EXCEPT ![c].level = @ + 1]
       ELSE UNCHANGED breaker /\ Return(c, call[c].level - 1, "failed")
  /\ UNCHANGED <<errors, troubles>>

AgentAnswers(c) ==
  /\ Inward(c) /\ AtAgent(c)
  /\ Return(c, call[c].level - 1, "ok")
  /\ UNCHANGED <<breaker, errors, troubles>>

AgentFails(c) ==
  /\ Inward(c) /\ AtAgent(c)
  /\ \E result \in {"failed", "relayed"} : Return(c, call[c].level - 1, result)
  /\ errors < MaxErrors /\ errors' = errors + 1
  /\ UNCHANGED <<breaker, troubles>>

ClientCancels(c) ==
  /\ Inward(c) /\ AtAgent(c)
  /\ Return(c, call[c].level - 1, "relayed")
  /\ troubles < MaxTroubles /\ troubles' = troubles + 1
  /\ UNCHANGED <<breaker, errors>>

Succeeded(c) ==
  \/ call[c].result = "ok"
  \/ call[c].result = "relayed" /\ call[c].level = Len(call[c].path)
Record(c) ==
  /\ Outward(c)
  /\ breaker' = [breaker EXCEPT ![BreakerAt(c)] =
                   IF Succeeded(c) THEN recordSuccess(@) ELSE recordFailure(@)]
  /\ Return(c, call[c].level - 1, call[c].result)
  /\ UNCHANGED <<errors, troubles>>

TimeoutPasses(b) ==
  /\ breaker[b].state = "OPEN" /\ ~breaker[b].waited
  /\ breaker' = [breaker EXCEPT ![b].waited = TRUE]
  /\ UNCHANGED <<call, errors, troubles>>

CallStep(c) == Ask(c) \/ AgentAnswers(c) \/ Record(c)
Next ==
  \/ \E c \in Callers : \/ Call(c) \/ CallStep(c) \/ AgentFails(c)
                        \/ ClientCancels(c)
  \/ \E b \in Breakers : TimeoutPasses(b)

Spec == Init /\ [][Next]_vars
\* Threads run, agents answer or time out, and clocks advance.
BreakerFairness ==
  /\ \A c \in Callers : WF_vars(CallStep(c))
  /\ \A b \in Breakers : WF_vars(TimeoutPasses(b))
FairSpec == Spec /\ BreakerFairness
------------------------------------------------------------------------------
\* Types; the timeout is only measured in an open breaker, from its opening on.
TypeOK ==
  /\ breaker \in [Breakers -> BreakerState]
  /\ \A b \in Breakers : breaker[b].waited => breaker[b].state = "OPEN"
  /\ call \in [Callers -> CallState]
  /\ \A c \in Callers : AtBreaker(c) \/ (AtAgent(c) /\ call[c].result = "none")
  /\ errors \in 0..MaxErrors /\ troubles \in 0..MaxTroubles

\* A breaker is closed as long as the failures since it was last closed stay
\* under the threshold, and only so long; being half open does not make it
\* forget them, so that the next failure opens it again (circuit_breaker.cpp
\* 30-42, 93-101).
OpenedByFailures ==
  \A b \in Breakers : (breaker[b].state = "CLOSED") <=> (breaker[b].failed < FailureThreshold)

\* A half-open breaker has seen nothing but fewer successes than close it, so
\* it still lets a call through: it cannot be stuck, refusing every call while
\* waiting for a result (circuit_breaker.cpp 57-58).
ProbesAdmitted ==
  \A b \in Breakers :
    breaker[b].state = "HALF_OPEN" =>
      breaker[b].total = breaker[b].successful /\ breaker[b].total < SuccessThreshold

\* The counters of a breaker go with its state, whichever results arrive late.
BreakerInvariant == TypeOK /\ OpenedByFailures /\ ProbesAdmitted

\* Only a half-open breaker closes, and only by as many successes without a
\* failure as the threshold asks for; a late success does not close an open one
\* (circuit_breaker.cpp 15-28).
ClosesAfterProbes ==
  [][\A b \in Breakers :
       breaker[b].state # "CLOSED" /\ breaker'[b].state = "CLOSED" =>
         /\ breaker[b].state = "HALF_OPEN"
         /\ breaker[b].total = SuccessThreshold - 1
         /\ breaker[b].successful = SuccessThreshold - 1]_vars

\* When failures have ceased, a breaker that is asked again and again is closed
\* in the end and stays so, although the breaker inside it may still refuse the
\* calls it lets through.
Asked(b) == \E c \in Callers : AtBreaker(c) /\ Ask(c) /\ BreakerAt(c) = b
Recovers ==
  \A b \in Breakers : []<><<Asked(b)>>_vars => <>[](breaker[b].state = "CLOSED")

\* "The three-state breaker isolates faults per agent" (README.md:52): where no
\* agent has failed, no breaker opens.
OnlyAgentFaultsOpen ==
  errors = 0 => \A b \in Breakers : breaker[b].state = "CLOSED"
=============================================================================
