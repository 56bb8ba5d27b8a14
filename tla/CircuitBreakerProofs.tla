------------------------ MODULE CircuitBreakerProofs ------------------------
(***************************************************************************)
(* The invariant is one predicate on a single breaker, kept by each of its *)
(* methods; what the calls do matters only in that they use nothing else.  *)
(***************************************************************************)
EXTENDS CircuitBreaker, TLAPS

\* What TypeOK, OpenedByFailures and ProbesAdmitted say of one breaker.
Sound(b) ==
  /\ b \in BreakerState
  /\ b.waited => b.state = "OPEN"
  /\ (b.state = "CLOSED") <=> (b.failed < FailureThreshold)
  /\ b.state = "HALF_OPEN" => b.total = b.successful /\ b.total < SuccessThreshold

LEMMA Bounds ==
  /\ FailureThreshold \in Nat /\ SuccessThreshold \in Nat /\ MinRequests \in Nat
  /\ MaxCount \in Nat /\ 1 <= FailureThreshold /\ 1 <= SuccessThreshold
  /\ 2 * FailureThreshold <= MinRequests /\ SuccessThreshold < MinRequests
  /\ MinRequests <= MaxCount
BY ThresholdAssumption, BoundAssumption

LEMMA Fields ==
  ASSUME NEW b \in BreakerState
  PROVE  /\ b.total \in Nat /\ b.successful \in Nat /\ b.failed \in Nat
         /\ b.total <= MaxCount /\ b.successful <= MaxCount /\ b.failed <= MaxCount
         /\ b.state \in {"CLOSED", "OPEN", "HALF_OPEN"}
BY Bounds DEF BreakerState, Counts

LEMMA UpType == \A n \in Counts : Up(n) \in Counts /\ (n < MaxCount => Up(n) = n + 1)
                                  /\ Up(n) >= n
BY Bounds DEF Up, Counts

\* A new breaker is sound, for the threshold is not 0.
LEMMA NewSound == Sound(NewBreaker)
BY Bounds DEF Sound, NewBreaker, BreakerState, Counts

\* A closed breaker never has too high a rate, since that takes as many
\* failures as the threshold; a half-open one never has seen calls enough.
LEMMA SuccessSound == \A b : Sound(b) => Sound(recordSuccess(b))
<1> SUFFICES ASSUME NEW b, Sound(b) PROVE Sound(recordSuccess(b))
  OBVIOUS
<1> DEFINE n == [b EXCEPT !.total = Up(@), !.successful = Up(@)]
<1>1. n \in BreakerState /\ n.state = b.state /\ n.failed = b.failed /\ n.waited = b.waited
  BY UpType DEF Sound, BreakerState
<1> HIDE DEF n
<1>2. CASE b.state = "CLOSED"
  <2>1. ~RateTooHigh(n)
    BY <1>1, <1>2, Bounds, Fields DEF Sound, RateTooHigh
  <2>2. recordSuccess(b) = n
    BY <1>1, <1>2, <2>1 DEF recordSuccess, updateFailureRate, n
  <2> QED BY <1>1, <1>2, <2>2 DEF Sound
<1>3. CASE b.state = "OPEN"
  <2>1. recordSuccess(b) = n
    BY <1>1, <1>3 DEF recordSuccess, updateFailureRate, transitionToOpen, n
  <2> QED BY <1>1, <1>3, <2>1 DEF Sound
<1>4. CASE b.state = "HALF_OPEN"
  <2>1. n.total = b.total + 1 /\ n.successful = b.total + 1
    BY <1>4, UpType, Bounds DEF Sound, BreakerState, Counts, n
  <2>2. ~RateTooHigh(n)
    BY <1>1, <1>4, <2>1, Bounds, Fields DEF Sound, RateTooHigh
  <2>3. recordSuccess(b) = IF n.successful >= SuccessThreshold THEN NewBreaker ELSE n
    BY <1>1, <1>4, <2>2 DEF recordSuccess, updateFailureRate, n
  <2>4. CASE n.successful >= SuccessThreshold
    BY <2>3, <2>4, NewSound
  <2>5. CASE ~(n.successful >= SuccessThreshold)
    BY <1>1, <1>4, <2>1, <2>3, <2>5, Bounds, Fields DEF Sound
  <2> QED BY <2>4, <2>5
<1> QED BY <1>2, <1>3, <1>4 DEF Sound, BreakerState

\* A failure leaves a breaker closed under the threshold and opens any other.
LEMMA FailureSound == \A b : Sound(b) => Sound(recordFailure(b))
<1> SUFFICES ASSUME NEW b, Sound(b) PROVE Sound(recordFailure(b))
  OBVIOUS
<1> DEFINE n == [b EXCEPT !.total = Up(@), !.failed = Up(@)]
<1>1. /\ n \in BreakerState /\ n.state = b.state /\ n.waited = b.waited
      /\ n.failed >= b.failed
  BY UpType DEF Sound, BreakerState
<1> HIDE DEF n
<1>2. RateTooHigh(n) => n.failed >= FailureThreshold
  BY <1>1, Bounds, Fields DEF RateTooHigh
<1>3. CASE n.failed < FailureThreshold
  <2>0. ~RateTooHigh(n) /\ ~(n.failed >= FailureThreshold)
    BY <1>1, <1>2, <1>3, Bounds, Fields
  <2>1. recordFailure(b) = n
    BY <2>0 DEF recordFailure, updateFailureRate, n
  <2>2. b.state = "CLOSED"
    BY <1>1, <1>3, Bounds, Fields DEF Sound
  <2> QED BY <1>1, <1>3, <2>1, <2>2 DEF Sound
<1>4. CASE n.failed >= FailureThreshold
  <2>1. recordFailure(b) = transitionToOpen(n)
    BY <1>1, <1>4 DEF recordFailure, updateFailureRate, transitionToOpen, BreakerState, n
  <2>2. /\ transitionToOpen(n) \in BreakerState /\ transitionToOpen(n).state = "OPEN"
        /\ transitionToOpen(n).failed = n.failed
    BY <1>1 DEF transitionToOpen, BreakerState
  <2> QED BY <1>1, <1>4, <2>1, <2>2, Bounds, Fields DEF Sound
<1> QED BY <1>1, <1>3, <1>4, Bounds, Fields

\* Being asked turns an open breaker half open, with nothing counted.
LEMMA AdmittingSound == \A b : Sound(b) => Sound(Admitting(b))
<1> SUFFICES ASSUME NEW b, Sound(b), b.state = "OPEN" PROVE Sound(transitionToHalfOpen(b))
  BY DEF Admitting
<1> DEFINE h == transitionToHalfOpen(b)
<1>0. 0 \in Counts /\ b \in BreakerState
  BY Bounds DEF Counts, Sound
<1>1. /\ h \in BreakerState /\ h.state = "HALF_OPEN" /\ h.total = 0 /\ h.successful = 0
      /\ h.failed = b.failed /\ h.waited = FALSE
  BY <1>0 DEF transitionToHalfOpen, BreakerState
<1> HIDE DEF h
<1>2. Sound(h)
  BY <1>1, Bounds, Fields DEF Sound
<1> QED BY <1>2 DEF h
------------------------------------------------------------------------------
(* The calls. *)

\* Where a call may be: at a breaker of its path, or behind the last one.
OnPath(c) == AtBreaker(c) \/ (AtAgent(c) /\ call[c].result = "none")
CallsOK == call \in [Callers -> CallState] /\ \A c \in Callers : OnPath(c)
BreakersOK == breaker \in [Breakers -> BreakerState] /\ \A b \in Breakers : Sound(breaker[b])
IInv == TypeOK /\ OpenedByFailures /\ ProbesAdmitted

LEMMA Parts ==
  IInv <=> BreakersOK /\ CallsOK /\ errors \in 0..MaxErrors /\ troubles \in 0..MaxTroubles
BY DEF IInv, TypeOK, OpenedByFailures, ProbesAdmitted, Sound, BreakersOK, CallsOK,
       OnPath, AtBreaker, AtAgent

\* A caller under way is on a path, so that there is a breaker at its level.
LEMMA UnderWay ==
  ASSUME CallsOK, NEW c \in Callers, call[c].level > 0
  PROVE  /\ call[c] \in [path: Paths, level: Nat \ {0}, result: Results \cup {"none"}]
         /\ call[c].level \in Nat
         /\ Len(call[c].path) \in Nat
         /\ call[c].level <= Len(call[c].path) => BreakerAt(c) \in Breakers
<1>1. call[c] # NoCall
  BY DEF NoCall
<1>2. call[c] \in [path: Paths, level: Nat \ {0}, result: Results \cup {"none"}]
  BY <1>1 DEF CallsOK, CallState
<1>3. call[c].path \in Seq(Breakers) /\ call[c].level \in Nat \ {0}
  BY <1>2, PathAssumption
<1>4. Len(call[c].path) \in Nat
  BY <1>3
<1>5. ASSUME call[c].level <= Len(call[c].path) PROVE BreakerAt(c) \in Breakers
  BY <1>3, <1>5 DEF BreakerAt
<1> QED BY <1>2, <1>3, <1>4, <1>5

\* Returning leads back to a breaker of the path, or out of it.
LEMMA ReturnOK ==
  ASSUME CallsOK, NEW c \in Callers, call[c].level > 0, NEW result \in Results,
         NEW level \in Nat, level <= Len(call[c].path), Return(c, level, result)
  PROVE  CallsOK'
<1>1. "none" \notin Results
  BY DEF Results
<1>2. CASE level = 0
  <2>1. call' = [call EXCEPT ![c] = NoCall]
    BY <1>2 DEF Return
  <2>2. NoCall \in CallState /\ NoCall.level = 0 /\ Len(NoCall.path) = 0 /\ NoCall.result = "none"
    BY DEF CallState, NoCall
  <2>3. call' \in [Callers -> CallState]
    BY <2>1, <2>2 DEF CallsOK
  <2>4. OnPath(c)'
    <3>1. call'[c] = NoCall
      BY <2>1 DEF CallsOK
    <3> QED BY <2>2, <3>1 DEF OnPath, AtBreaker, AtAgent
  <2>5. ASSUME NEW d \in Callers \ {c} PROVE OnPath(d)'
    BY <2>1, <2>5 DEF CallsOK, OnPath, AtBreaker, AtAgent
  <2> QED BY <2>3, <2>4, <2>5 DEF CallsOK
<1>3. CASE level # 0
  <2> DEFINE new == [call[c] EXCEPT !.level = level, !.result = result]
  <2>1. call' = [call EXCEPT ![c] = new]
    BY <1>3 DEF Return
  <2>2. new \in CallState /\ new.level = level /\ new.path = call[c].path /\ new.result = result
    BY <1>3, UnderWay DEF CallState
  <2> HIDE DEF new
  <2>3. call' \in [Callers -> CallState]
    BY <2>1, <2>2 DEF CallsOK
  <2>4. OnPath(c)'
    <3>1. call'[c] = new
      BY <2>1 DEF CallsOK
    <3>2. Len(call[c].path) \in Nat
      BY UnderWay
    <3> QED BY <1>1, <2>2, <3>1, <3>2 DEF OnPath, AtBreaker, AtAgent
  <2>5. ASSUME NEW d \in Callers \ {c} PROVE OnPath(d)'
    BY <2>1, <2>5 DEF CallsOK, OnPath, AtBreaker, AtAgent
  <2> QED BY <2>3, <2>4, <2>5 DEF CallsOK
<1> QED BY <1>2, <1>3
------------------------------------------------------------------------------
(* The invariant. *)

\* To change one breaker to a sound one keeps all of them sound.
LEMMA MethodOK ==
  ASSUME BreakersOK, NEW b \in Breakers, NEW new, Sound(new),
         breaker' = [breaker EXCEPT ![b] = new]
  PROVE  BreakersOK'
BY DEF BreakersOK, Sound

LEMMA WaitedSound ==
  ASSUME NEW b, Sound(b), b.state = "OPEN"
  PROVE  Sound([b EXCEPT !.waited = TRUE])
<1> DEFINE n == [b EXCEPT !.waited = TRUE]
<1>1. n \in BreakerState /\ n.state = "OPEN" /\ n.failed = b.failed
  BY DEF Sound, BreakerState
<1>2. Sound(n)
  <2> HIDE DEF n
  <2> QED BY <1>1 DEF Sound
<1> QED BY <1>2

LEMMA InitIInv == Init => IInv
<1> SUFFICES ASSUME Init PROVE BreakersOK /\ CallsOK /\ errors \in 0..MaxErrors
                                /\ troubles \in 0..MaxTroubles
  BY Parts
<1>1. BreakersOK
  BY NewSound DEF Init, BreakersOK, Sound
<1>2. CallsOK
  <2>1. NoCall \in CallState /\ NoCall.level = 0 /\ Len(NoCall.path) = 0
    BY DEF CallState, NoCall
  <2> QED BY <2>1 DEF Init, CallsOK, OnPath, AtBreaker
<1> QED BY <1>1, <1>2, BoundAssumption DEF Init

LEMMA NextIInv == IInv /\ [Next]_vars => IInv'
<1> SUFFICES ASSUME IInv, [Next]_vars
             PROVE  BreakersOK' /\ CallsOK' /\ errors' \in 0..MaxErrors
                    /\ troubles' \in 0..MaxTroubles
  BY DEF IInv, TypeOK, OpenedByFailures, ProbesAdmitted, Sound, BreakersOK, CallsOK,
       OnPath, AtBreaker, AtAgent
<1>0. BreakersOK /\ CallsOK /\ errors \in 0..MaxErrors /\ troubles \in 0..MaxTroubles
  BY Parts
<1>s. UNCHANGED breaker => BreakersOK'
  BY <1>0 DEF BreakersOK, Sound
<1>1. ASSUME NEW c \in Callers, Call(c) PROVE CallsOK'
  <2> PICK path \in Paths :
        call' = [call EXCEPT ![c] = [path |-> path, level |-> 1, result |-> "none"]]
    BY <1>1 DEF Call
  <2>1. Len(path) \in Nat
    BY PathAssumption
  <2> DEFINE new == [path |-> path, level |-> 1, result |-> "none"]
  <2>2. new \in CallState /\ new.path = path /\ new.level = 1 /\ new.result = "none"
    BY DEF CallState
  <2> HIDE DEF new
  <2>3. call' \in [Callers -> CallState]
    BY <1>0, <2>2 DEF CallsOK, new
  <2>4. OnPath(c)'
    <3>1. call'[c] = new
      BY <1>0 DEF CallsOK, new
    <3>2. path # <<>> /\ path \in Seq(Breakers)
      BY PathAssumption
    <3>3. Len(path) >= 1
      BY <3>2
    <3> QED BY <2>2, <3>1, <3>3 DEF OnPath, AtBreaker
  <2>5. ASSUME NEW d \in Callers \ {c} PROVE OnPath(d)'
    BY <1>0, <2>5 DEF CallsOK, OnPath, AtBreaker, AtAgent
  <2> QED BY <2>3, <2>4, <2>5 DEF CallsOK
<1>2. ASSUME NEW c \in Callers, Ask(c) PROVE BreakersOK' /\ CallsOK'
  <2>1. /\ call[c].level > 0 /\ call[c].result = "none"
        /\ call[c].level <= Len(call[c].path) /\ BreakerAt(c) \in Breakers
        /\ call[c].level \in Nat
    BY <1>0, <1>2, UnderWay DEF Ask, Inward, AtBreaker
  <2>2. CASE isRequestAllowed(breaker[BreakerAt(c)])
    <3>1. BreakersOK'
      <4>1. Sound(Admitting(breaker[BreakerAt(c)]))
        BY <1>0, <2>1, AdmittingSound DEF BreakersOK
      <4> QED BY <1>0, <1>2, <2>1, <2>2, <4>1, MethodOK DEF Ask
    <3> DEFINE new == [call[c] EXCEPT !.level = @ + 1]
    <3>2. call' = [call EXCEPT ![c] = new]
      BY <1>2, <2>2 DEF Ask
    <3>3. /\ new \in CallState /\ new.level = call[c].level + 1
          /\ new.path = call[c].path /\ new.result = "none"
      BY <1>0, <2>1, UnderWay DEF CallState
    <3> HIDE DEF new
    <3>4. call' \in [Callers -> CallState]
      BY <1>0, <3>2, <3>3 DEF CallsOK
    <3>5. OnPath(c)'
      <4>1. call'[c] = new
        BY <1>0, <3>2 DEF CallsOK
      <4>2. Len(call[c].path) \in Nat
        BY <1>0, <2>1, UnderWay
      <4> QED BY <2>1, <3>3, <4>1, <4>2 DEF OnPath, AtBreaker, AtAgent
    <3>6. ASSUME NEW d \in Callers \ {c} PROVE OnPath(d)'
      BY <1>0, <3>2, <3>6 DEF CallsOK, OnPath, AtBreaker, AtAgent
    <3> QED BY <3>1, <3>4, <3>5, <3>6 DEF CallsOK
  <2>3. CASE ~isRequestAllowed(breaker[BreakerAt(c)])
    <3>1. UNCHANGED breaker /\ Return(c, call[c].level - 1, "failed")
      BY <1>2, <2>3 DEF Ask
    <3>2. call[c].level - 1 \in Nat /\ call[c].level - 1 <= Len(call[c].path)
      BY <1>0, <2>1, UnderWay
    <3> QED BY <1>0, <1>s, <2>1, <3>1, <3>2, ReturnOK DEF Results
  <2> QED BY <2>2, <2>3
<1>3. ASSUME NEW c \in Callers, AgentAnswers(c) \/ AgentFails(c) \/ ClientCancels(c)
      PROVE  CallsOK'
  <2>1. /\ call[c].level > 0 /\ call[c].level = Len(call[c].path) + 1
        /\ Len(call[c].path) \in Nat
    BY <1>0, <1>3, UnderWay DEF AgentAnswers, AgentFails, ClientCancels, Inward, AtAgent
  <2>2. \E result \in Results : Return(c, call[c].level - 1, result)
    BY <1>3 DEF AgentAnswers, AgentFails, ClientCancels, Results
  <2>3. call[c].level - 1 \in Nat /\ call[c].level - 1 <= Len(call[c].path)
    BY <2>1
  <2> QED BY <1>0, <2>1, <2>2, <2>3, ReturnOK
<1>4. ASSUME NEW c \in Callers, Record(c) PROVE BreakersOK' /\ CallsOK'
  <2>1. /\ call[c].level > 0 /\ call[c].level \in Nat /\ Len(call[c].path) \in Nat
        /\ call[c].result \in Results
        /\ call[c].level <= Len(call[c].path) /\ BreakerAt(c) \in Breakers
    <3>1. call[c].level > 0 /\ call[c].result # "none"
      BY <1>4 DEF Record, Outward
    <3>2. /\ call[c].level \in Nat /\ Len(call[c].path) \in Nat
          /\ call[c].result \in Results
      BY <1>0, <3>1, UnderWay
    <3>3. call[c].level <= Len(call[c].path)
      BY <1>0, <3>1, <3>2 DEF CallsOK, OnPath, AtBreaker, AtAgent
    <3> QED BY <1>0, <3>1, <3>2, <3>3, UnderWay
  <2>2. CallsOK'
    <3>1. call[c].level - 1 \in Nat /\ call[c].level - 1 <= Len(call[c].path)
      BY <2>1
    <3> QED BY <1>0, <1>4, <2>1, <3>1, ReturnOK DEF Record
  <2>3. BreakersOK'
    <3>1. \/ breaker' = [breaker EXCEPT ![BreakerAt(c)] = recordSuccess(breaker[BreakerAt(c)])]
          \/ breaker' = [breaker EXCEPT ![BreakerAt(c)] = recordFailure(breaker[BreakerAt(c)])]
      BY <1>4 DEF Record
    <3>2. Sound(breaker[BreakerAt(c)])
      BY <1>0, <2>1 DEF BreakersOK
    <3> QED BY <1>0, <2>1, <3>1, <3>2, SuccessSound, FailureSound, MethodOK
  <2> QED BY <2>2, <2>3
<1>5. ASSUME NEW b \in Breakers, TimeoutPasses(b) PROVE BreakersOK'
  BY <1>0, <1>5, MethodOK, WaitedSound DEF TimeoutPasses, BreakersOK
<1>6. errors' \in 0..MaxErrors /\ troubles' \in 0..MaxTroubles
  BY <1>0, BoundAssumption DEF Next, vars, Call, CallStep, Ask, AgentAnswers, AgentFails,
     ClientCancels, Record, TimeoutPasses
<1>7. CASE UNCHANGED vars
  BY <1>0, <1>6, <1>7, <1>s DEF vars, CallsOK, OnPath, AtBreaker, AtAgent
<1> QED
  BY <1>0, <1>1, <1>2, <1>3, <1>4, <1>5, <1>6, <1>7, <1>s
  DEF Next, CallStep, Call, AgentAnswers, AgentFails, ClientCancels, TimeoutPasses, CallsOK,
      OnPath, AtBreaker, AtAgent
------------------------------------------------------------------------------
\* The calls are well formed, and the timeout is measured in open breakers only.
THEOREM TypeCorrect == Spec => []TypeOK
<1>1. IInv => TypeOK
  BY DEF IInv
<1> QED BY <1>1, InitIInv, NextIInv, PTL DEF Spec

\* A breaker is closed exactly as long as it has seen fewer failures than the
\* threshold, however late results arrive (recordFailure).
THEOREM OpeningCorrect == Spec => []OpenedByFailures
<1>1. IInv => OpenedByFailures
  BY DEF IInv
<1> QED BY <1>1, InitIInv, NextIInv, PTL DEF Spec

\* A half-open breaker always lets a call through (isRequestAllowed).
THEOREM ProbesCorrect == Spec => []ProbesAdmitted
<1>1. IInv => ProbesAdmitted
  BY DEF IInv
<1> QED BY <1>1, InitIInv, NextIInv, PTL DEF Spec

\* State and counters of every breaker go together.
THEOREM BreakersCorrect == Spec => []BreakerInvariant
<1>1. TypeOK /\ OpenedByFailures /\ ProbesAdmitted => BreakerInvariant
  BY DEF BreakerInvariant
<1> QED BY <1>1, TypeCorrect, OpeningCorrect, ProbesCorrect, PTL

\* Only enough successes of a half-open breaker close one (recordSuccess).
THEOREM ClosingCorrect == Spec => ClosesAfterProbes
<1> DEFINE Closes(b) ==
      breaker[b].state # "CLOSED" /\ breaker'[b].state = "CLOSED" =>
        /\ breaker[b].state = "HALF_OPEN"
        /\ breaker[b].total = SuccessThreshold - 1
        /\ breaker[b].successful = SuccessThreshold - 1
<1>1. ASSUME IInv, [Next]_vars, NEW b \in Breakers,
             breaker[b].state # "CLOSED", breaker'[b].state = "CLOSED"
      PROVE  Closes(b)
  <2>0. BreakersOK /\ CallsOK /\ Sound(breaker[b])
    BY <1>1, Parts DEF BreakersOK
  <2>1. PICK c \in Callers : Record(c)
    <3>1. ASSUME NEW c \in Callers, Ask(c) PROVE FALSE
      <4>1. breaker' = breaker \/ breaker' = [breaker EXCEPT ![BreakerAt(c)] = Admitting(@)]
        BY <3>1 DEF Ask
      <4>2. breaker'[b] = breaker[b] \/ breaker'[b] = Admitting(breaker[b])
        BY <2>0, <4>1 DEF BreakersOK
      <4>3. breaker[b] \in BreakerState
        BY <2>0 DEF BreakersOK
      <4> QED BY <1>1, <4>2, <4>3 DEF Admitting, transitionToHalfOpen, BreakerState
    <3>2. ASSUME NEW d \in Breakers, TimeoutPasses(d) PROVE FALSE
      BY <1>1, <2>0, <3>2 DEF TimeoutPasses, BreakersOK, BreakerState
    <3> QED BY <1>1, <3>1, <3>2 DEF Next, vars, CallStep, Call, AgentAnswers, AgentFails, ClientCancels
  <2>2. \/ breaker'[b] = recordSuccess(breaker[b])
        \/ breaker'[b] = recordFailure(breaker[b])
    BY <1>1, <2>0, <2>1 DEF Record, BreakersOK
  <2>3. ~(breaker[b].failed < FailureThreshold)
    BY <1>1, <2>0 DEF Sound
  <2> DEFINE n == [breaker[b] EXCEPT !.total = Up(@), !.successful = Up(@)]
             f == [breaker[b] EXCEPT !.total = Up(@), !.failed = Up(@)]
  <2>4. /\ n \in BreakerState /\ n.state = breaker[b].state
        /\ f \in BreakerState /\ f.state = breaker[b].state
    BY <2>0, UpType DEF Sound, BreakerState
  <2>5. breaker'[b] # recordFailure(breaker[b])
    BY <1>1, <2>4 DEF recordFailure, updateFailureRate, transitionToOpen, BreakerState
  <2>6. /\ breaker[b].state = "HALF_OPEN" /\ n.successful >= SuccessThreshold
    BY <1>1, <2>2, <2>4, <2>5 DEF recordSuccess, updateFailureRate, transitionToOpen, BreakerState
  <2>7. n.successful = breaker[b].successful + 1
    BY <2>0, <2>6, UpType, Bounds DEF Sound, BreakerState, Counts
  <2> HIDE DEF n
  <2> QED BY <2>0, <2>6, <2>7, Bounds, Fields DEF Sound
<1>2. IInv /\ [Next]_vars => [\A b \in Breakers : Closes(b)]_vars
  BY <1>1
<1> QED BY <1>2, InitIInv, NextIInv, PTL DEF Spec, ClosesAfterProbes
=============================================================================
