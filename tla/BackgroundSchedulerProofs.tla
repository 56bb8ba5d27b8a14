--------------------- MODULE BackgroundSchedulerProofs ---------------------
(***************************************************************************)
(* The threads that run beside the requests.  The scheduler: no dangling   *)
(* pointers, no lost wake-ups and no second run of a job, for any number   *)
(* of jobs, workers and starts.  Its inductive invariant adds to the       *)
(* checked ones what queue_mutex_ protects (a worker that is about to wait *)
(* is the only one, and the queue is empty until it waits) and that a job  *)
(* which is not late is in one place at a time.  The MCP client: what is   *)
(* sent, answered and waiting is one pipeline, in the order of the         *)
(* numbers.  The agent registry: what a call has written to memory is what *)
(* it will tell the router, and messages are handed on in their order.     *)
(***************************************************************************)
EXTENDS BackgroundScheduler, McpSession, AgentRegistry, FiniteSetTheorems, SequenceTheorems, TLAPS

CoordinatorEnds == coordinator.at = "ended" => coordinator.left = {}

QueueMutex ==
  /\ \A w, v \in Workers : WorkerAt(w, "deciding") /\ WorkerAt(v, "deciding") => w = v
  /\ QueueLocked => ready = <<>>

IInv == SchedulerTypeOK /\ NoDanglingTask /\ CoordinatorEnds /\ QueueMutex /\ NoSleepOnWork

WorkerStates ==
  [at: {"ended", "loop", "deciding", "waiting", "took", "checked", "runs"}, job: Jobs \cup {NoJob}]

LEMMA NoJobIsNone == NoJob \notin Jobs
BY SchedulerJobs DEF NoJob

\* The workers in a state can be counted.
LEMMA Countable ==
  ASSUME NEW at
  PROVE  IsFiniteSet(InState(at)) /\ Cardinality(InState(at)) \in Nat
<1>1. InState(at) \subseteq Workers
  BY DEF InState
<1> QED BY <1>1, SchedulerWorkers, FS_Subset, FS_CardinalityType

LEMMA CountableNext ==
  ASSUME NEW at
  PROVE  IsFiniteSet(InState(at)') /\ Cardinality(InState(at)') \in Nat
<1>1. InState(at)' \subseteq Workers
  BY DEF InState
<1> QED BY <1>1, SchedulerWorkers, FS_Subset, FS_CardinalityType

-----------------------------------------------------------------------------
LEMMA Starts == SchedulerInit => IInv
<1> SUFFICES ASSUME SchedulerInit PROVE IInv
  OBVIOUS
<1>1. SchedulerTypeOK
  <2>1. running \in BOOLEAN
    BY Zenon DEF SchedulerInit
  <2>2. worker \in [Workers -> WorkerStates]
        /\ \A w \in Workers : worker[w].job # NoJob <=> worker[w].at \in {"took", "checked", "runs"}
    BY DEF SchedulerInit, WorkerStates, Ended
  <2>3. ready \in Seq(Jobs)
    BY DEF SchedulerInit
  <2> QED BY <2>1, <2>2, <2>3, SchedulerBounds DEF SchedulerInit, SchedulerTypeOK, WorkerStates
<1>2. NoDanglingTask /\ CoordinatorEnds
  BY DEF SchedulerInit, NoDanglingTask, CoordinatorEnds, Ended
<1>3. QueueMutex
  BY DEF SchedulerInit, QueueMutex, WorkerAt, QueueLocked, InState, Ended
<1>4. NoSleepOnWork
  BY DEF SchedulerInit, NoSleepOnWork
<1> QED BY <1>1, <1>2, <1>3, <1>4 DEF IInv

\* The queue after a job was put at its end or taken from its front.
LEMMA QueueChanges ==
  ASSUME IInv
  PROVE  /\ Len(ready) \in Nat
         /\ \A j \in Jobs : j \in tasks =>
              LET new == Append(ready, j) IN
                /\ new \in Seq(Jobs) /\ Len(new) = Len(ready) + 1
                /\ \A i \in DOMAIN new : new[i] \in tasks
         /\ ready # <<>> =>
              /\ Head(ready) \in tasks
              /\ Tail(ready) \in Seq(Jobs) /\ Len(Tail(ready)) = Len(ready) - 1
              /\ \A i \in DOMAIN Tail(ready) : Tail(ready)[i] \in tasks
<1> USE DEF IInv, SchedulerTypeOK, NoDanglingTask
<1>1. Len(ready) \in Nat /\ ready \in Seq(Jobs) /\ DOMAIN ready = 1..Len(ready)
  OBVIOUS
<1>2. ASSUME NEW j \in Jobs, j \in tasks
      PROVE  LET new == Append(ready, j) IN
               /\ new \in Seq(Jobs) /\ Len(new) = Len(ready) + 1
               /\ \A i \in DOMAIN new : new[i] \in tasks
  BY <1>1, <1>2, AppendProperties
<1>3. ASSUME ready # <<>>
      PROVE  /\ Head(ready) \in tasks
             /\ Tail(ready) \in Seq(Jobs) /\ Len(Tail(ready)) = Len(ready) - 1
             /\ \A i \in DOMAIN Tail(ready) : Tail(ready)[i] \in tasks
  <2>1. Len(ready) > 0 /\ Head(ready) = ready[1]
    BY <1>1, <1>3, HeadTailProperties, EmptySeq
  <2>2. Tail(ready) \in Seq(Jobs) /\ Len(Tail(ready)) = Len(ready) - 1
        /\ \A i \in 1..Len(Tail(ready)) : Tail(ready)[i] = ready[i + 1]
    BY <1>1, <1>3, HeadTailProperties
  <2> QED BY <1>1, <2>1, <2>2
<1> QED BY <1>1, <1>2, <1>3

\* What a step may do to keep NoSleepOnWork: not more jobs, not fewer that look
\* for one or will notify, and nobody who starts to wait.
LEMMA NobodySleeps ==
  ASSUME IInv, running' = running, InState("waiting")' \subseteq InState("waiting"),
         Len(ready)' \in Nat, Len(ready)' <= Len(ready), InState("loop") \subseteq InState("loop")',
         coordinator.at = "notify" => coordinator'.at = "notify"
  PROVE  NoSleepOnWork'
<1>1. Len(ready) \in Nat
  BY QueueChanges
<1>2. Cardinality(InState("loop")) <= Cardinality(InState("loop")')
  BY Countable, CountableNext, FS_Subset
<1>3. CASE InState("waiting")' = {}
  BY <1>3 DEF NoSleepOnWork
<1>4. CASE InState("waiting")' # {}
  <2>1. InState("waiting") # {}
    BY <1>4
  <2> SUFFICES ASSUME running PROVE NoSleepOnWork'
    BY DEF NoSleepOnWork
  <2> QED BY <1>1, <1>2, <2>1, Countable, CountableNext DEF IInv, NoSleepOnWork
<1> QED BY <1>3, <1>4

LEMMA WorkerMoves ==
  ASSUME IInv, NEW w \in Workers, NEW r \in WorkerStates, worker' = [worker EXCEPT ![w] = r],
         r.job # NoJob <=> r.at \in {"took", "checked", "runs"}
  PROVE  /\ worker' \in [Workers -> WorkerStates]
         /\ \A v \in Workers : worker'[v].job # NoJob <=> worker'[v].at \in {"took", "checked", "runs"}
         /\ \A v \in Workers : worker'[v] = IF v = w THEN r ELSE worker[v]
         /\ \A at : InState(at)' = IF at = r.at THEN InState(at) \cup {w} ELSE InState(at) \ {w}
<1>1. worker \in [Workers -> WorkerStates]
  BY DEF IInv, SchedulerTypeOK, WorkerStates
<1>2. \A v \in Workers : worker'[v] = IF v = w THEN r ELSE worker[v]
  BY <1>1
<1>3. worker' \in [Workers -> WorkerStates]
  BY <1>1
<1>4. \A v \in Workers : worker'[v].job # NoJob <=> worker'[v].at \in {"took", "checked", "runs"}
  BY <1>2 DEF IInv, SchedulerTypeOK
<1>5. \A at : InState(at)' = IF at = r.at THEN InState(at) \cup {w} ELSE InState(at) \ {w}
  BY <1>2 DEF InState
<1> QED BY <1>2, <1>3, <1>4, <1>5

\* Nothing of what the other invariants speak of changes.
LEMMA SameWorkers ==
  ASSUME IInv, UNCHANGED <<running, ready, worker, coordinator>>, tasks \subseteq tasks',
         tasks' \subseteq Jobs, due' \subseteq Jobs, cancelled' \subseteq Jobs, flag' \subseteq Jobs,
         late' \subseteq Jobs, stopper' \in {"idle", "notify", "join"},
         rounds' \in 0..MaxRounds, starts' \in 0..MaxStarts
  PROVE  IInv'
<1>1. \A at : InState(at)' = InState(at)
  BY DEF InState
<1>2. SchedulerTypeOK'
  BY DEF IInv, SchedulerTypeOK
<1>3. NoDanglingTask' /\ CoordinatorEnds'
  BY DEF IInv, NoDanglingTask, CoordinatorEnds
<1>4. QueueMutex'
  BY <1>1 DEF IInv, QueueMutex, QueueLocked, WorkerAt
<1>5. NoSleepOnWork'
  BY <1>1 DEF IInv, NoSleepOnWork
<1> QED BY <1>2, <1>3, <1>4, <1>5 DEF IInv

LEMMA Schedules ==
  ASSUME IInv, NEW j \in Jobs, scheduleAtFixedRate(j) \/ cancel(j) \/ ComesDue(j)
  PROVE  IInv'
<1>1. CASE scheduleAtFixedRate(j)
  BY <1>1, SameWorkers DEF scheduleAtFixedRate, IInv, SchedulerTypeOK
<1>2. CASE cancel(j)
  BY <1>2, SameWorkers DEF cancel, IInv, SchedulerTypeOK
<1>3. CASE ComesDue(j)
  <2>1. rounds' \in 0..MaxRounds
    BY <1>3, SchedulerBounds DEF ComesDue, IInv, SchedulerTypeOK
  <2> QED BY <1>3, <2>1, SameWorkers DEF ComesDue, IInv, SchedulerTypeOK
<1> QED BY <1>1, <1>2, <1>3

LEMMA Starting == IInv /\ start => IInv'
<1> SUFFICES ASSUME IInv, start PROVE IInv'
  OBVIOUS
<1> USE DEF start, jobState
<1>1. \A w \in Workers : worker'[w] = Looking
  OBVIOUS
<1>2. worker' \in [Workers -> WorkerStates]
      /\ \A w \in Workers : worker'[w].job # NoJob <=> worker'[w].at \in {"took", "checked", "runs"}
  BY DEF Looking, WorkerStates
<1>3. running' \in BOOLEAN
  BY Zenon
<1>4. SchedulerTypeOK'
  BY <1>2, <1>3, SchedulerBounds DEF IInv, SchedulerTypeOK, WorkerStates
<1>5. NoDanglingTask' /\ CoordinatorEnds'
  BY <1>1 DEF IInv, NoDanglingTask, CoordinatorEnds, Looking
<1>6. QueueMutex'
  BY <1>1 DEF QueueMutex, QueueLocked, WorkerAt, InState, Looking
<1>7. NoSleepOnWork'
  BY <1>1 DEF NoSleepOnWork, InState, Looking
<1> QED BY <1>4, <1>5, <1>6, <1>7 DEF IInv

LEMMA Stopping == IInv /\ (StopStores \/ StopNotifies) => IInv'
<1> SUFFICES ASSUME IInv, StopStores \/ StopNotifies PROVE IInv'
  OBVIOUS
<1>1. CASE StopStores
  <2> USE DEF StopStores, jobState
  <2>1. running' \in BOOLEAN
    BY <1>1, Zenon
  <2>2. SchedulerTypeOK'
    BY <1>1, <2>1 DEF IInv, SchedulerTypeOK
  <2>3. NoDanglingTask' /\ CoordinatorEnds' /\ QueueMutex'
    BY <1>1 DEF IInv, NoDanglingTask, CoordinatorEnds, QueueMutex, QueueLocked, InState, WorkerAt
  <2>4. NoSleepOnWork'
    BY <1>1 DEF NoSleepOnWork
  <2> QED BY <2>2, <2>3, <2>4 DEF IInv
<1>2. CASE StopNotifies
  <2> USE DEF StopNotifies, jobState
  <2>1. \A w \in Workers :
          worker'[w] = IF worker[w].at = "waiting" THEN Looking ELSE worker[w]
    BY <1>2
  <2>2. worker' \in [Workers -> WorkerStates]
        /\ \A w \in Workers : worker'[w].job # NoJob <=> worker'[w].at \in {"took", "checked", "runs"}
    BY <1>2 DEF IInv, SchedulerTypeOK, Looking, WorkerStates
  <2>3. SchedulerTypeOK'
    BY <1>2, <2>2 DEF IInv, SchedulerTypeOK, WorkerStates
  <2>4. NoDanglingTask' /\ CoordinatorEnds'
    BY <1>2, <2>1 DEF IInv, NoDanglingTask, CoordinatorEnds, Looking
  <2>5. QueueMutex'
    BY <1>2, <2>1 DEF IInv, QueueMutex, QueueLocked, WorkerAt, InState, Looking
  <2>6. NoSleepOnWork'
    BY <2>1 DEF NoSleepOnWork, InState, Looking
  <2> QED BY <2>3, <2>4, <2>5, <2>6 DEF IInv
<1> QED BY <1>1, <1>2

\* All threads have ended, so nobody points to what is cleared.
LEMMA Clears == IInv /\ StopClears => IInv'
<1> SUFFICES ASSUME IInv, StopClears PROVE IInv'
  OBVIOUS
<1> USE DEF StopClears, AllEnded
<1>1. \A w \in Workers : worker[w].at = "ended"
  BY DEF InState
<1>2. SchedulerTypeOK'
  BY DEF IInv, SchedulerTypeOK
<1>3. \A w \in Workers : worker[w].job = NoJob
  BY <1>1 DEF IInv, SchedulerTypeOK
<1>4. NoDanglingTask' /\ CoordinatorEnds'
  BY <1>3 DEF IInv, NoDanglingTask, CoordinatorEnds
<1>5. QueueMutex' /\ NoSleepOnWork'
  BY <1>1 DEF QueueMutex, QueueLocked, WorkerAt, NoSleepOnWork, InState
<1> QED BY <1>2, <1>4, <1>5 DEF IInv

-----------------------------------------------------------------------------
(* The coordinator. *)

LEMMA Coordinates ==
  ASSUME IInv, CoordinatorLooks \/ Rests \/ (\E j \in Jobs : Skip(j))
  PROVE  IInv'
<1> USE DEF CoordinatorLooks, Rests, Skip, jobState
<1>1. \A at : InState(at)' = InState(at)
  BY DEF InState
<1>2. SchedulerTypeOK' /\ coordinator'.left \subseteq tasks /\ CoordinatorEnds'
  <2>1. CASE CoordinatorLooks
    BY <2>1 DEF IInv, SchedulerTypeOK, CoordinatorEnds
  <2>2. CASE Rests
    BY <2>2 DEF IInv, SchedulerTypeOK, CoordinatorEnds
  <2>3. CASE \E j \in Jobs : Skip(j)
    BY <2>3 DEF IInv, SchedulerTypeOK, CoordinatorEnds, NoDanglingTask
  <2> QED BY <2>1, <2>2, <2>3
<1>3. NoDanglingTask'
  BY <1>2 DEF IInv, NoDanglingTask
<1>4. QueueMutex'
  BY <1>1 DEF IInv, QueueMutex, QueueLocked, WorkerAt
<1>5. coordinator.at # "notify" /\ UNCHANGED <<running, ready>>
  OBVIOUS
<1>6. NoSleepOnWork'
  BY <1>1, <1>5, QueueChanges, NobodySleeps
<1> QED BY <1>2, <1>3, <1>4, <1>6 DEF IInv

\* One job more, and one notification to come.
LEMMA Enqueues ==
  ASSUME IInv, NEW j \in Jobs, Enqueue(j)
  PROVE  IInv'
<1> USE DEF Enqueue
<1>1. \A at : InState(at)' = InState(at)
  BY DEF InState
<1>2. j \in tasks
  BY DEF IInv, NoDanglingTask
<1>3. ready' \in Seq(Jobs) /\ Len(ready') = Len(ready) + 1 /\ Len(ready) \in Nat
      /\ \A i \in DOMAIN ready' : ready'[i] \in tasks
  BY <1>2, QueueChanges
<1>4. SchedulerTypeOK' /\ coordinator'.left \subseteq tasks /\ CoordinatorEnds'
  BY <1>3 DEF IInv, SchedulerTypeOK, CoordinatorEnds, NoDanglingTask
<1>5. NoDanglingTask'
  BY <1>3, <1>4 DEF IInv, NoDanglingTask
<1>6. QueueMutex'
  BY <1>1 DEF IInv, QueueMutex, QueueLocked, WorkerAt
<1>7. NoSleepOnWork'
  BY <1>1, <1>3, Countable DEF IInv, NoSleepOnWork
<1> QED BY <1>4, <1>5, <1>6, <1>7 DEF IInv

\* The notification wakes a worker that sleeps, which looks for a job then.
LEMMA Notifies ==
  ASSUME IInv, NotifyOne
  PROVE  IInv'
<1> USE DEF NotifyOne, jobState
<1>0. /\ coordinator' \in [at: {"ended", "loop", "scan", "notify"}, left: SUBSET Jobs]
      /\ coordinator'.left \subseteq tasks /\ coordinator'.at = "scan"
  BY DEF IInv, SchedulerTypeOK, NoDanglingTask
<1>1. CASE InState("waiting") = {} /\ UNCHANGED worker
  <2>1. \A at : InState(at)' = InState(at)
    BY <1>1 DEF InState
  <2>2. SchedulerTypeOK' /\ NoDanglingTask' /\ CoordinatorEnds'
    BY <1>0, <1>1 DEF IInv, SchedulerTypeOK, NoDanglingTask, CoordinatorEnds
  <2>3. QueueMutex'
    BY <1>1, <2>1 DEF IInv, QueueMutex, QueueLocked, WorkerAt
  <2>4. NoSleepOnWork'
    BY <1>1, <2>1 DEF NoSleepOnWork
  <2> QED BY <2>2, <2>3, <2>4 DEF IInv
<1>2. ASSUME NEW w \in InState("waiting"), worker' = [worker EXCEPT ![w] = Looking]
      PROVE  IInv'
  <2>0. w \in Workers /\ worker[w].at = "waiting" /\ Looking \in WorkerStates
        /\ Looking.job = NoJob /\ Looking.at = "loop"
    BY <1>2 DEF InState, Looking, WorkerStates
  <2>1. /\ worker' \in [Workers -> WorkerStates]
        /\ \A v \in Workers : worker'[v].job # NoJob <=> worker'[v].at \in {"took", "checked", "runs"}
        /\ \A v \in Workers : worker'[v] = IF v = w THEN Looking ELSE worker[v]
        /\ \A at : InState(at)' = IF at = Looking.at THEN InState(at) \cup {w} ELSE InState(at) \ {w}
    <3>1. worker \in [Workers -> WorkerStates]
      BY DEF IInv, SchedulerTypeOK, WorkerStates
    <3>2. \A v \in Workers : worker'[v] = IF v = w THEN Looking ELSE worker[v]
      BY <1>2, <2>0, <3>1
    <3>3. worker' \in [Workers -> WorkerStates]
      BY <1>2, <2>0, <3>1
    <3>4. \A v \in Workers : worker'[v].job # NoJob <=> worker'[v].at \in {"took", "checked", "runs"}
      BY <2>0, <3>2 DEF IInv, SchedulerTypeOK
    <3>5. \A at : InState(at)' = IF at = Looking.at THEN InState(at) \cup {w} ELSE InState(at) \ {w}
      BY <2>0, <3>2 DEF InState
    <3> QED BY <3>2, <3>3, <3>4, <3>5
  <2>2. SchedulerTypeOK' /\ NoDanglingTask' /\ CoordinatorEnds'
    <3>1. SchedulerTypeOK'
      BY <1>0, <2>1 DEF IInv, SchedulerTypeOK, WorkerStates
    <3>2. NoDanglingTask' /\ CoordinatorEnds'
      BY <1>0, <2>1 DEF IInv, NoDanglingTask, CoordinatorEnds, Looking
    <3> QED BY <3>1, <3>2
  <2>3. QueueMutex'
    <3>1. \A v \in Workers : WorkerAt(v, "deciding")' => WorkerAt(v, "deciding")
      BY <2>1 DEF WorkerAt, Looking
    <3> QED BY <3>1 DEF IInv, QueueMutex, QueueLocked, InState, WorkerAt
  <2>4. InState("loop")' = InState("loop") \cup {w} /\ w \notin InState("loop")
    BY <2>0, <2>1 DEF InState, Looking
  <2>5. Cardinality(InState("loop")') = Cardinality(InState("loop")) + 1
    BY <2>4, Countable, FS_AddElement
  <2>6. NoSleepOnWork'
    BY <1>0, <1>2, <2>5, Countable, QueueChanges DEF IInv, NoSleepOnWork
  <2> QED BY <2>2, <2>3, <2>6 DEF IInv
<1> QED BY <1>1, <1>2

-----------------------------------------------------------------------------
(* Workers. *)

\* A worker whose step leaves the queue alone and does not make it wait.
LEMMA WorkerGoesOn ==
  ASSUME IInv, NEW w \in Workers, NEW r \in WorkerStates, worker' = [worker EXCEPT ![w] = r],
         r.job # NoJob <=> r.at \in {"took", "checked", "runs"},
         r.job # NoJob => r.job \in tasks,
         worker[w].at \notin {"loop", "deciding"}, r.at \notin {"deciding", "waiting"},
         flag' \subseteq Jobs, UNCHANGED ready, WorkerOnly
  PROVE  IInv'
<1> USE DEF WorkerOnly
<1>1. /\ worker' \in [Workers -> WorkerStates]
      /\ \A v \in Workers : worker'[v].job # NoJob <=> worker'[v].at \in {"took", "checked", "runs"}
      /\ \A v \in Workers : worker'[v] = IF v = w THEN r ELSE worker[v]
      /\ \A at : InState(at)' = IF at = r.at THEN InState(at) \cup {w} ELSE InState(at) \ {w}
  BY WorkerMoves
<1>2. SchedulerTypeOK'
  BY <1>1 DEF IInv, SchedulerTypeOK, WorkerStates
<1>3. NoDanglingTask' /\ CoordinatorEnds'
  BY <1>1 DEF IInv, NoDanglingTask, CoordinatorEnds
<1>4. QueueMutex'
  <2>1. \A v \in Workers : WorkerAt(v, "deciding")' => WorkerAt(v, "deciding")
    BY <1>1 DEF WorkerAt
  <2> QED BY <2>1 DEF IInv, QueueMutex, QueueLocked, InState, WorkerAt
<1>5. NoSleepOnWork'
  <2>1. InState("waiting")' \subseteq InState("waiting") /\ InState("loop") \subseteq InState("loop")'
    BY <1>1 DEF InState
  <2> QED BY <2>1, QueueChanges, NobodySleeps
<1> QED BY <1>2, <1>3, <1>4, <1>5 DEF IInv

LEMMA WorkersRun ==
  ASSUME IInv, NEW w \in Workers,
         WorkerChecks(w) \/ WorkerRuns(w) \/ WorkerDone(w) \/ WakesUp(w)
  PROVE  IInv'
<1> USE DEF WorkerAt
<1>0. /\ worker[w] \in WorkerStates /\ Looking \in WorkerStates /\ Looking.job = NoJob
      /\ Looking.at = "loop"
      /\ worker[w].job # NoJob => worker[w].job \in tasks /\ worker[w].job \in Jobs
      /\ worker[w].job # NoJob <=> worker[w].at \in {"took", "checked", "runs"}
      /\ flag \subseteq Jobs
  BY DEF IInv, SchedulerTypeOK, NoDanglingTask, WorkerStates, Looking
<1>1. CASE WorkerChecks(w)
  <2>1. CASE worker[w].job \in cancelled
    <3>1. worker' = [worker EXCEPT ![w] = Looking]
      BY <1>1, <2>1 DEF WorkerChecks, IInv, SchedulerTypeOK
    <3> QED BY <1>0, <1>1, <3>1, WorkerGoesOn DEF WorkerChecks
  <2>2. CASE worker[w].job \notin cancelled
    <3> DEFINE r == [worker[w] EXCEPT !.at = "checked"]
    <3>1. worker' = [worker EXCEPT ![w] = r]
      BY <1>1, <2>2 DEF WorkerChecks, IInv, SchedulerTypeOK
    <3>2. r \in WorkerStates /\ r.job = worker[w].job /\ r.at = "checked"
      BY <1>0 DEF WorkerStates
    <3> HIDE DEF r
    <3> QED BY <1>0, <1>1, <3>1, <3>2, WorkerGoesOn DEF WorkerChecks
  <2> QED BY <2>1, <2>2
<1>2. CASE WorkerRuns(w)
  <2> DEFINE r == [worker[w] EXCEPT !.at = "runs"]
  <2>1. worker' = [worker EXCEPT ![w] = r]
    BY <1>2 DEF WorkerRuns, IInv, SchedulerTypeOK
  <2>2. r \in WorkerStates /\ r.job = worker[w].job /\ r.at = "runs"
    BY <1>0 DEF WorkerStates
  <2> HIDE DEF r
  <2> QED BY <1>0, <1>2, <2>1, <2>2, WorkerGoesOn DEF WorkerRuns
<1>3. CASE WorkerDone(w)
  BY <1>0, <1>3, WorkerGoesOn DEF WorkerDone
<1>4. CASE WakesUp(w)
  BY <1>0, <1>4, WorkerGoesOn DEF WakesUp
<1> QED BY <1>1, <1>2, <1>3, <1>4

\* A worker that waits has seen an empty queue, and has held the lock since.
LEMMA StartsToWait ==
  ASSUME IInv, NEW w \in Workers, WorkerWaits(w)
  PROVE  IInv'
<1> DEFINE r == [worker[w] EXCEPT !.at = "waiting"]
<1> USE DEF WorkerWaits, WorkerAt, WorkerOnly
<1>0. /\ worker' = [worker EXCEPT ![w] = r]
      /\ r \in WorkerStates /\ r.at = "waiting" /\ r.job = NoJob
      /\ ready = <<>> /\ w \in InState("deciding")
  BY DEF IInv, SchedulerTypeOK, WorkerStates, QueueMutex, QueueLocked, InState
<1> HIDE DEF r
<1>1. /\ worker' \in [Workers -> WorkerStates]
      /\ \A v \in Workers : worker'[v].job # NoJob <=> worker'[v].at \in {"took", "checked", "runs"}
      /\ \A v \in Workers : worker'[v] = IF v = w THEN r ELSE worker[v]
  BY <1>0, WorkerMoves
<1>2. SchedulerTypeOK'
  BY <1>1 DEF IInv, SchedulerTypeOK, WorkerStates
<1>3. NoDanglingTask' /\ CoordinatorEnds'
  BY <1>0, <1>1 DEF IInv, NoDanglingTask, CoordinatorEnds
<1>4. QueueMutex'
  <2>1. \A v \in Workers : WorkerAt(v, "deciding")' => WorkerAt(v, "deciding")
    BY <1>0, <1>1 DEF WorkerAt
  <2> QED BY <1>0, <2>1 DEF IInv, QueueMutex, WorkerAt
<1>5. NoSleepOnWork'
  <2>1. Len(ready') = 0
    BY <1>0
  <2> QED BY <2>1, CountableNext DEF NoSleepOnWork
<1> QED BY <1>2, <1>3, <1>4, <1>5 DEF IInv

\* A worker that takes a job leaves one job fewer to those that look.
LEMMA Looks ==
  ASSUME IInv, NEW w \in Workers, WorkerLooks(w)
  PROVE  IInv'
<1> USE DEF WorkerLooks, WorkerAt, WorkerOnly
<1>0. worker[w].at = "loop" /\ worker[w].job = NoJob /\ InState("deciding") = {}
      /\ w \in InState("loop")
  BY DEF IInv, SchedulerTypeOK, QueueLocked, InState
<1>a. ASSUME NEW r \in WorkerStates, worker' = [worker EXCEPT ![w] = r],
             r.job # NoJob <=> r.at \in {"took", "checked", "runs"},
             r.job # NoJob => r.job \in tasks, r.at \notin {"loop", "waiting"},
             ready' \in Seq(Jobs), \A i \in DOMAIN ready' : ready'[i] \in tasks,
             r.at = "deciding" => ready' = <<>>,
             running => Len(ready') = 0 \/ Len(ready') = Len(ready) - 1
      PROVE  IInv'
  <2>1. /\ worker' \in [Workers -> WorkerStates]
        /\ \A v \in Workers : worker'[v].job # NoJob <=> worker'[v].at \in {"took", "checked", "runs"}
        /\ \A v \in Workers : worker'[v] = IF v = w THEN r ELSE worker[v]
        /\ \A at : InState(at)' = IF at = r.at THEN InState(at) \cup {w} ELSE InState(at) \ {w}
    BY <1>a, WorkerMoves
  <2>2. SchedulerTypeOK'
    BY <1>a, <2>1 DEF IInv, SchedulerTypeOK, WorkerStates
  <2>3. NoDanglingTask' /\ CoordinatorEnds'
    BY <1>a, <2>1 DEF IInv, NoDanglingTask, CoordinatorEnds
  <2>4. QueueMutex'
    <3>1. \A v \in Workers : WorkerAt(v, "deciding")' => v = w /\ r.at = "deciding"
      BY <1>0, <2>1 DEF InState
    <3> QED BY <1>a, <3>1 DEF QueueMutex, QueueLocked, InState
  <2>5. NoSleepOnWork'
    <3> SUFFICES ASSUME running, InState("waiting")' # {} PROVE NoSleepOnWork'
      BY DEF NoSleepOnWork
    <3>1. InState("waiting") # {} /\ InState("loop")' = InState("loop") \ {w}
      BY <1>a, <2>1
    <3>2. Cardinality(InState("loop")') = Cardinality(InState("loop")) - 1
      BY <1>0, <3>1, Countable, FS_RemoveElement
    <3> QED BY <1>a, <3>1, <3>2, Countable, CountableNext, QueueChanges DEF IInv, NoSleepOnWork
  <2> QED BY <2>2, <2>3, <2>4, <2>5 DEF IInv
<1>1. CASE ~running
  BY <1>1, <1>a DEF Ended, WorkerStates, IInv, SchedulerTypeOK, NoDanglingTask
<1>2. CASE running /\ ready # <<>>
  <2> DEFINE r == [at |-> "took", job |-> Head(ready)]
  <2>1. Head(ready) \in tasks /\ Head(ready) \in Jobs /\ Head(ready) # NoJob
    BY <1>2, QueueChanges, NoJobIsNone DEF IInv, SchedulerTypeOK
  <2>2. r \in WorkerStates /\ r.job = Head(ready) /\ r.at = "took"
    BY <2>1 DEF WorkerStates
  <2>3. worker' = [worker EXCEPT ![w] = r] /\ ready' = Tail(ready)
    BY <1>2
  <2> HIDE DEF r
  <2> QED BY <1>2, <1>a, <2>1, <2>2, <2>3, QueueChanges
<1>3. CASE running /\ ready = <<>>
  <2> DEFINE r == [worker[w] EXCEPT !.at = "deciding"]
  <2>1. r \in WorkerStates /\ r.job = NoJob /\ r.at = "deciding"
    BY <1>0 DEF IInv, SchedulerTypeOK, WorkerStates
  <2>2. worker' = [worker EXCEPT ![w] = r] /\ ready' = <<>>
    BY <1>3
  <2>3. ready' \in Seq(Jobs) /\ Len(ready') = 0 /\ DOMAIN ready' = {}
    BY <2>2, EmptySeq
  <2> HIDE DEF r
  <2> QED BY <1>a, <2>1, <2>2, <2>3
<1> QED BY <1>1, <1>2, <1>3

-----------------------------------------------------------------------------
LEMMA EachStep == IInv /\ [SchedulerNext]_schedulerVars => IInv'
<1> SUFFICES ASSUME IInv, [SchedulerNext]_schedulerVars PROVE IInv'
  OBVIOUS
<1>1. CASE start \/ StopStores \/ StopStep
  BY <1>1, Starting, Stopping, Clears DEF StopStep
<1>2. CASE CoordinatorStep
  BY <1>2, Coordinates, Enqueues, Notifies DEF CoordinatorStep
<1>3. ASSUME NEW j \in Jobs, scheduleAtFixedRate(j) \/ cancel(j) \/ ComesDue(j) PROVE IInv'
  BY <1>3, Schedules
<1>4. ASSUME NEW w \in Workers, WorkerStep(w) \/ WakesUp(w) PROVE IInv'
  BY <1>4, Looks, StartsToWait, WorkersRun DEF WorkerStep
<1>5. CASE UNCHANGED schedulerVars
  BY <1>5, SameWorkers DEF schedulerVars, IInv, SchedulerTypeOK
<1> QED BY <1>1, <1>2, <1>3, <1>4, <1>5 DEF SchedulerNext

LEMMA Always == SchedulerSpec => []IInv
<1>1. SchedulerInit => IInv
  BY Starts
<1>2. IInv /\ [SchedulerNext]_schedulerVars => IInv'
  BY EachStep
<1> QED BY <1>1, <1>2, PTL DEF SchedulerSpec

\* Queue, threads and tasks have their types, and a worker has a job in hand exactly
\* from taking it to the end of its run.
THEOREM TypesCorrect == SchedulerSpec => []SchedulerTypeOK
<1>1. IInv => SchedulerTypeOK
  BY DEF IInv
<1> QED BY <1>1, Always, PTL

\* stop() removes no task that a thread or the queue still points to.
THEOREM PointersCorrect == SchedulerSpec => []NoDanglingTask
<1>1. IInv => NoDanglingTask
  BY DEF IInv
<1> QED BY <1>1, Always, PTL

\* While workers sleep on queue_cv_, each queued job has a worker that looks for one,
\* or the notification for it is still to come.
THEOREM WakeupsCorrect == SchedulerSpec => []NoSleepOnWork
<1>1. IInv => NoSleepOnWork
  BY DEF IInv
<1> QED BY <1>1, Always, PTL

-----------------------------------------------------------------------------
(* Runs of a job.  A job that never came due while it waited for a worker is *)
(* in one place at a time: due, in the queue, or in the hands of one worker, *)
(* and its flag is set while it runs.                                        *)

InOnePlace ==
  \A j \in Jobs \ late :
    /\ j \in due => ~AwaitsWorker(j)
    /\ \A i, k \in DOMAIN ready : ready[i] = j /\ ready[k] = j => i = k
    /\ \A w, v \in Workers : worker[w].job = j /\ worker[v].job = j => w = v
    /\ \A i \in DOMAIN ready, w \in Workers : ~(ready[i] = j /\ worker[w].job = j)
    /\ \A w \in Workers : worker[w].at = "runs" /\ worker[w].job = j => j \in flag

\* The same, with the places spelled out.
NotDueAndWaiting(j) ==
  j \in due =>
    /\ \A i \in DOMAIN ready : ready[i] # j
    /\ \A w \in Workers : worker[w].at \in {"took", "checked"} => worker[w].job # j

LEMMA InOnePlaceMeansOneRun == InOnePlace => OneRunUnlessLate
<1> SUFFICES ASSUME InOnePlace, NEW j \in Jobs \ late PROVE Cardinality(Running(j)) <= 1
  BY DEF OneRunUnlessLate
<1>1. \A w, v \in Running(j) : w = v
  BY DEF InOnePlace, Running, InState
<1>2. CASE Running(j) = {}
  BY <1>2, FS_EmptySet
<1>3. CASE Running(j) # {}
  <2>1. PICK w \in Running(j) : Running(j) = {w}
    BY <1>1, <1>3
  <2> QED BY <2>1, FS_Singleton
<1> QED BY <1>2, <1>3

\* The steps that put no job in a further place.
LEMMA PlacesStay ==
  ASSUME IInv, InOnePlace, late \subseteq late', due' \subseteq due, UNCHANGED ready,
         \A w \in Workers : worker'[w].job # NoJob =>
           /\ worker'[w].job = worker[w].job
           /\ worker'[w].at \in {"took", "checked"} => worker[w].at \in {"took", "checked"}
           /\ worker'[w].at = "runs" => worker[w].at = "runs" \/ worker'[w].job \in flag',
         \A j \in flag \ flag', w \in Workers :
           worker'[w].job = j /\ worker'[w].at = "runs" => j \in late'
  PROVE  InOnePlace'
<1> SUFFICES ASSUME NEW j \in Jobs \ late'
             PROVE  /\ NotDueAndWaiting(j)'
                    /\ \A i, k \in DOMAIN ready' : ready'[i] = j /\ ready'[k] = j => i = k
                    /\ \A w, v \in Workers : worker'[w].job = j /\ worker'[v].job = j => w = v
                    /\ \A i \in DOMAIN ready', w \in Workers : ~(ready'[i] = j /\ worker'[w].job = j)
                    /\ \A w \in Workers : worker'[w].at = "runs" /\ worker'[w].job = j => j \in flag'
  BY DEF InOnePlace, NotDueAndWaiting, AwaitsWorker
<1>1. j \in Jobs \ late /\ j # NoJob
  BY NoJobIsNone
<1>2. NotDueAndWaiting(j)
  BY <1>1 DEF InOnePlace, NotDueAndWaiting, AwaitsWorker
<1>3. NotDueAndWaiting(j)'
  BY <1>1, <1>2 DEF NotDueAndWaiting
<1>4. /\ \A i, k \in DOMAIN ready : ready[i] = j /\ ready[k] = j => i = k
      /\ \A w, v \in Workers : worker[w].job = j /\ worker[v].job = j => w = v
      /\ \A i \in DOMAIN ready, w \in Workers : ~(ready[i] = j /\ worker[w].job = j)
      /\ \A w \in Workers : worker[w].at = "runs" /\ worker[w].job = j => j \in flag
  BY <1>1 DEF InOnePlace
<1>5. \A w \in Workers : worker'[w].job = j => worker[w].job = j
  BY <1>1
<1>6. ASSUME NEW w \in Workers, worker'[w].at = "runs", worker'[w].job = j PROVE j \in flag'
  BY <1>1, <1>4, <1>6
<1> QED BY <1>3, <1>4, <1>5, <1>6

LEMMA OnePlaceFirst == SchedulerInit => InOnePlace
<1> SUFFICES ASSUME SchedulerInit PROVE InOnePlace
  OBVIOUS
<1>1. \A w \in Workers : worker[w].job = NoJob
  BY DEF SchedulerInit, Ended
<1>2. due = {} /\ DOMAIN ready = {}
  BY EmptySeq DEF SchedulerInit
<1> QED BY <1>1, <1>2, NoJobIsNone DEF InOnePlace

LEMMA OnePlaceMain ==
  ASSUME IInv, InOnePlace, start \/ StopStores \/ StopStep
  PROVE  InOnePlace'
<1>1. CASE start
  <2>1. \A w \in Workers : worker'[w].job = NoJob
    BY <1>1 DEF start, Looking
  <2>2. UNCHANGED <<late, due, ready, flag>>
    BY <1>1 DEF start, jobState
  <2> QED BY <2>1, <2>2, PlacesStay
<1>2. CASE StopStores
  BY <1>2, PlacesStay DEF StopStores, jobState
<1>3. CASE StopNotifies
  <2>1. \A w \in Workers : worker'[w].job # NoJob => worker'[w] = worker[w]
    BY <1>3 DEF StopNotifies, Looking
  <2>2. UNCHANGED <<late, due, ready, flag>>
    BY <1>3 DEF StopNotifies, jobState
  <2> QED BY <2>1, <2>2, PlacesStay
<1>4. CASE StopClears
  <2>1. \A w \in Workers : worker'[w].job = NoJob
    BY <1>4 DEF StopClears, AllEnded, InState, IInv, SchedulerTypeOK
  <2>2. ready' = <<>> /\ due' = {}
    BY <1>4 DEF StopClears
  <2> QED BY <2>1, <2>2, NoJobIsNone DEF InOnePlace, AwaitsWorker
<1> QED BY <1>1, <1>2, <1>3, <1>4 DEF StopStep

\* A job that comes due while it waits is late from then on.
LEMMA OnePlaceTime ==
  ASSUME IInv, InOnePlace, NEW j \in Jobs, scheduleAtFixedRate(j) \/ cancel(j) \/ ComesDue(j)
  PROVE  InOnePlace'
<1>1. CASE scheduleAtFixedRate(j) \/ cancel(j)
  BY <1>1, PlacesStay DEF scheduleAtFixedRate, cancel
<1>2. CASE ComesDue(j)
  <2>1. UNCHANGED <<ready, worker, flag>> /\ due' = due \cup {j}
        /\ late' = IF AwaitsWorker(j) THEN late \cup {j} ELSE late
    BY <1>2 DEF ComesDue
  <2>2. \A k : AwaitsWorker(k)' <=> AwaitsWorker(k)
    BY <2>1 DEF AwaitsWorker
  <2> QED BY <2>1, <2>2 DEF InOnePlace
<1> QED BY <1>1, <1>2

\* A job that is queued was due, and its flag was not set: it was nowhere else.
LEMMA OnePlaceEnqueue ==
  ASSUME IInv, InOnePlace, NEW j \in Jobs, Enqueue(j)
  PROVE  InOnePlace'
<1>0. /\ UNCHANGED <<late, worker, flag>> /\ ready' = Append(ready, j) /\ due' = due \ {j}
      /\ j \in due /\ j \notin flag
  BY DEF Enqueue, Due
<1>1. /\ Len(ready) \in Nat /\ DOMAIN ready = 1..Len(ready) /\ DOMAIN ready' = 1..(Len(ready) + 1)
      /\ \A i \in DOMAIN ready : ready'[i] = ready[i]
      /\ ready'[Len(ready) + 1] = j
  BY <1>0, AppendProperties DEF IInv, SchedulerTypeOK
<1>2. \A i \in DOMAIN ready' :
        \/ i \in DOMAIN ready /\ ready'[i] = ready[i]
        \/ i = Len(ready) + 1 /\ ready'[i] = j
  BY <1>1
<1>3. \A k \in Jobs \ {j} : AwaitsWorker(k)' => AwaitsWorker(k)
  BY <1>0, <1>2 DEF AwaitsWorker
<1>4. ASSUME j \notin late
      PROVE  /\ \A i \in DOMAIN ready : ready[i] # j
             /\ \A w \in Workers : worker[w].job # j
  <2>1. ~AwaitsWorker(j)
    BY <1>0, <1>4 DEF InOnePlace
  <2>2. ASSUME NEW w \in Workers, worker[w].job = j PROVE FALSE
    <3>1. worker[w].at \in {"took", "checked", "runs"}
      BY <2>2, NoJobIsNone DEF IInv, SchedulerTypeOK
    <3>2. worker[w].at # "runs"
      BY <1>0, <1>4, <2>2 DEF InOnePlace
    <3> QED BY <2>1, <2>2, <3>1, <3>2 DEF AwaitsWorker
  <2> QED BY <2>1, <2>2 DEF AwaitsWorker
<1> QED BY <1>0, <1>2, <1>3, <1>4 DEF InOnePlace

LEMMA OnePlaceCoordinator ==
  ASSUME IInv, InOnePlace, CoordinatorStep
  PROVE  InOnePlace'
<1>1. CASE CoordinatorLooks \/ Rests \/ \E j \in Jobs : Skip(j)
  BY <1>1, PlacesStay DEF CoordinatorLooks, Rests, Skip, jobState
<1>2. CASE NotifyOne
  <2>1. \A w \in Workers : worker'[w].job # NoJob => worker'[w] = worker[w]
    BY <1>2 DEF NotifyOne, Looking, IInv, SchedulerTypeOK
  <2>2. UNCHANGED <<late, due, ready, flag>>
    BY <1>2 DEF NotifyOne, jobState
  <2> QED BY <2>1, <2>2, PlacesStay
<1> QED BY <1>1, <1>2, OnePlaceEnqueue DEF CoordinatorStep

\* The job at the head of the queue goes to the hands of the worker.
LEMMA OnePlaceTaken ==
  ASSUME IInv, InOnePlace, NEW w \in Workers, WorkerLooks(w)
  PROVE  InOnePlace'
<1> USE DEF WorkerLooks, WorkerOnly, WorkerAt
<1>0. UNCHANGED <<late, due, flag>>
  OBVIOUS
<1>1. CASE ready' = ready
  <2>1. \A v \in Workers : worker'[v].job # NoJob => worker'[v] = worker[v]
    <3>1. CASE worker' = [worker EXCEPT ![w] = Ended]
      BY <3>1 DEF Ended, IInv, SchedulerTypeOK
    <3>2. CASE worker' = [worker EXCEPT ![w].at = "deciding"]
      BY <3>2 DEF IInv, SchedulerTypeOK
    <3>3. CASE ready # <<>> /\ ready' = Tail(ready)
      BY <1>1, <3>3, QueueChanges
    <3> QED BY <3>1, <3>2, <3>3
  <2> QED BY <1>0, <1>1, <2>1, PlacesStay
<1>2. CASE /\ running /\ ready # <<>> /\ ready' = Tail(ready)
           /\ worker' = [worker EXCEPT ![w] = [at |-> "took", job |-> Head(ready)]]
  <2>1. /\ Len(ready) \in Nat /\ DOMAIN ready = 1..Len(ready) /\ Len(ready) > 0
        /\ Head(ready) = ready[1] /\ DOMAIN ready' = 1..(Len(ready) - 1)
        /\ \A i \in DOMAIN ready' : ready'[i] = ready[i + 1]
    BY <1>2, HeadTailProperties, EmptySeq DEF IInv, SchedulerTypeOK
  <2>2. \A i \in DOMAIN ready' : i + 1 \in DOMAIN ready /\ i + 1 # 1 /\ i \in Int
    BY <2>1
  <2>3. 1 \in DOMAIN ready
    BY <2>1
  <2>4. \A v \in Workers : worker'[v] = IF v = w THEN [at |-> "took", job |-> ready[1]] ELSE worker[v]
    BY <1>2, <2>1 DEF IInv, SchedulerTypeOK
  <2>5. ASSUME NEW j \in Jobs \ late
        PROVE  /\ NotDueAndWaiting(j)'
               /\ \A i, k \in DOMAIN ready' : ready'[i] = j /\ ready'[k] = j => i = k
               /\ \A u, v \in Workers : worker'[u].job = j /\ worker'[v].job = j => u = v
               /\ \A i \in DOMAIN ready', v \in Workers : ~(ready'[i] = j /\ worker'[v].job = j)
               /\ \A v \in Workers : worker'[v].at = "runs" /\ worker'[v].job = j => j \in flag'
    <3>1. /\ NotDueAndWaiting(j)
          /\ \A i, k \in DOMAIN ready : ready[i] = j /\ ready[k] = j => i = k
          /\ \A u, v \in Workers : worker[u].job = j /\ worker[v].job = j => u = v
          /\ \A i \in DOMAIN ready, v \in Workers : ~(ready[i] = j /\ worker[v].job = j)
          /\ \A v \in Workers : worker[v].at = "runs" /\ worker[v].job = j => j \in flag
      BY DEF InOnePlace, NotDueAndWaiting, AwaitsWorker
    <3>2. NotDueAndWaiting(j)'
      BY <1>0, <2>1, <2>2, <2>3, <2>4, <3>1 DEF NotDueAndWaiting
    <3>3. ASSUME NEW i \in DOMAIN ready', NEW k \in DOMAIN ready', ready'[i] = j, ready'[k] = j
          PROVE  i = k
      <4>1. i + 1 = k + 1
        BY <2>1, <2>2, <3>1, <3>3
      <4> QED BY <2>2, <4>1
    <3>4. \A u, v \in Workers : worker'[u].job = j /\ worker'[v].job = j => u = v
      BY <2>3, <2>4, <3>1
    <3>5. ASSUME NEW i \in DOMAIN ready', NEW v \in Workers, ready'[i] = j, worker'[v].job = j
          PROVE  FALSE
      <4>1. ready[i + 1] = j /\ i + 1 \in DOMAIN ready /\ i + 1 # 1
        BY <2>1, <2>2, <3>5
      <4> QED BY <2>3, <2>4, <3>1, <3>5, <4>1
    <3>6. \A v \in Workers : worker'[v].at = "runs" /\ worker'[v].job = j => j \in flag'
      BY <1>0, <2>4, <3>1
    <3> QED BY <3>2, <3>3, <3>4, <3>5, <3>6
  <2> QED BY <1>0, <2>5 DEF InOnePlace, NotDueAndWaiting, AwaitsWorker
<1> QED BY <1>1, <1>2

\* A job whose run ends is run by nobody else, unless it was late.
LEMMA OnePlaceWorkers ==
  ASSUME IInv, InOnePlace, NEW w \in Workers,
         WorkerWaits(w) \/ WorkerChecks(w) \/ WorkerRuns(w) \/ WorkerDone(w) \/ WakesUp(w)
  PROVE  InOnePlace'
<1> USE DEF WorkerAt, WorkerOnly
<1>0. UNCHANGED <<late, due, ready>>
  BY DEF WorkerWaits, WorkerChecks, WorkerRuns, WorkerDone, WakesUp
<1>1. /\ worker \in [Workers -> WorkerStates]
      /\ \A v \in Workers : worker[v].job # NoJob <=> worker[v].at \in {"took", "checked", "runs"}
      /\ worker[w] \in WorkerStates
  BY DEF IInv, SchedulerTypeOK, WorkerStates
<1>2. CASE WakesUp(w)
  BY <1>0, <1>1, <1>2, PlacesStay DEF WakesUp, Looking
<1>3. CASE WorkerWaits(w)
  <2>1. \A v \in Workers : worker'[v].job # NoJob => worker'[v] = worker[v]
    BY <1>1, <1>3 DEF WorkerWaits, WorkerStates
  <2> QED BY <1>0, <1>3, <2>1, PlacesStay DEF WorkerWaits
<1>4. CASE WorkerChecks(w)
  <2>1. \A v \in Workers :
          /\ v # w => worker'[v] = worker[v]
          /\ worker'[w].job # NoJob => worker'[w].job = worker[w].job /\ worker'[w].at = "checked"
    BY <1>1, <1>4 DEF WorkerChecks, Looking, WorkerStates
  <2> QED BY <1>0, <1>4, <2>1, PlacesStay DEF WorkerChecks
<1>5. CASE WorkerRuns(w)
  <2>1. \A v \in Workers :
          /\ v # w => worker'[v] = worker[v]
          /\ worker'[w].job = worker[w].job /\ worker'[w].at = "runs"
    BY <1>1, <1>5 DEF WorkerRuns, WorkerStates
  <2>2. flag' = flag \cup {worker[w].job}
    BY <1>5 DEF WorkerRuns
  <2> QED BY <1>0, <2>1, <2>2, PlacesStay
<1>6. CASE WorkerDone(w)
  <2>1. /\ \A v \in Workers \ {w} : worker'[v] = worker[v]
        /\ worker'[w].job = NoJob
        /\ flag' = flag \ {worker[w].job} /\ worker[w].job \in Jobs
    BY <1>1, <1>6 DEF WorkerDone, Looking, WorkerStates
  <2>2. ASSUME NEW j \in flag \ flag', NEW v \in Workers, worker'[v].job = j, worker'[v].at = "runs"
        PROVE  j \in late'
    <3>1. j = worker[w].job /\ j \in Jobs /\ v # w /\ worker[v].job = j
      BY <2>1, <2>2, NoJobIsNone
    <3> QED BY <1>0, <3>1 DEF InOnePlace
  <2> QED BY <1>0, <2>1, <2>2, PlacesStay
<1> QED BY <1>2, <1>3, <1>4, <1>5, <1>6

LEMMA AlwaysInOnePlace == SchedulerSpec => []InOnePlace
<1>1. SchedulerInit => InOnePlace
  BY OnePlaceFirst
<1>2. IInv /\ InOnePlace /\ [SchedulerNext]_schedulerVars => InOnePlace'
  <2> SUFFICES ASSUME IInv, InOnePlace, [SchedulerNext]_schedulerVars PROVE InOnePlace'
    OBVIOUS
  <2>1. CASE UNCHANGED schedulerVars
    BY <2>1, PlacesStay DEF schedulerVars
  <2> QED BY <2>1, OnePlaceMain, OnePlaceTime, OnePlaceCoordinator, OnePlaceTaken,
             OnePlaceWorkers DEF SchedulerNext, WorkerStep
<1> QED BY <1>1, <1>2, Always, PTL DEF SchedulerSpec

\* A job is not run by two workers at once, unless it came due again while it waited
\* for one: running is set when it is run, not when it is queued.
THEOREM RunsCorrect == SchedulerSpec => []OneRunUnlessLate
<1> QED BY InOnePlaceMeansOneRun, AlwaysInOnePlace, PTL

\* All that the runs check of a state: threads, queue and flags fit together through
\* starts and stops.
THEOREM SchedulerCorrect == SchedulerSpec => []SchedulerInvariant
<1>1. IInv /\ InOnePlace => SchedulerInvariant
  BY InOnePlaceMeansOneRun DEF IInv, SchedulerInvariant
<1> QED BY <1>1, Always, AlwaysInOnePlace, PTL

\* The check before a run keeps cancelled jobs from being taken in hand, from
\* wherever they are in the queue.
THEOREM CancellationCorrect == SchedulerSpec => CancelledStaysQuiet
<1>1. ASSUME IInv, [SchedulerNext]_schedulerVars, NEW j \in cancelled \cap cancelled', InHand(j) = {}
      PROVE  InHand(j)' = {}
  <2>1. \A w \in Workers : ~(worker[w].at \in {"checked", "runs"} /\ worker[w].job = j)
    BY <1>1 DEF InHand, InState
  <2>2. SUFFICES ASSUME NEW w \in Workers, worker'[w].at \in {"checked", "runs"}, worker'[w].job = j
                 PROVE  FALSE
    BY DEF InHand, InState
  <2>3. worker \in [Workers -> WorkerStates]
    BY <1>1 DEF IInv, SchedulerTypeOK, WorkerStates
  <2>4. worker'[w] # worker[w]
    BY <2>1, <2>2
  <2>5. CASE start \/ StopNotifies \/ NotifyOne
    BY <2>2, <2>3, <2>4, <2>5 DEF start, StopNotifies, NotifyOne, Looking
  <2>6. CASE \E v \in Workers : WorkerLooks(v) \/ WorkerWaits(v) \/ WakesUp(v) \/ WorkerDone(v)
    <3>1. PICK v \in Workers : WorkerLooks(v) \/ WorkerWaits(v) \/ WakesUp(v) \/ WorkerDone(v)
      BY <2>6
    <3>2. CASE WorkerLooks(v) \/ WorkerWaits(v)
      <4>1. \E r \in {Ended, [at |-> "took", job |-> Head(ready)], [worker[v] EXCEPT !.at = "deciding"],
                       [worker[v] EXCEPT !.at = "waiting"]} : worker' = [worker EXCEPT ![v] = r]
        BY <3>2 DEF WorkerLooks, WorkerWaits
      <4>2. worker[v] \in WorkerStates
        BY <2>3
      <4>3. worker'[v].at \notin {"checked", "runs"}
        BY <2>3, <4>1, <4>2 DEF Ended, WorkerStates
      <4> QED BY <2>2, <2>3, <2>4, <4>1, <4>3
    <3>3. CASE WakesUp(v) \/ WorkerDone(v)
      BY <2>2, <2>3, <2>4, <3>3 DEF WakesUp, WorkerDone, Looking
    <3> QED BY <3>1, <3>2, <3>3
  <2>7. CASE \E v \in Workers : WorkerChecks(v)
    <3>1. PICK v \in Workers : WorkerChecks(v)
      BY <2>7
    <3>2. v = w
      BY <2>3, <2>4, <3>1 DEF WorkerChecks
    <3>3. CASE worker[w].job \in cancelled
      BY <2>2, <2>3, <3>1, <3>2, <3>3 DEF WorkerChecks, Looking
    <3>4. CASE worker[w].job \notin cancelled
      BY <2>2, <2>3, <3>1, <3>2, <3>4, <1>1 DEF WorkerChecks, WorkerStates
    <3> QED BY <3>3, <3>4
  <2>8. CASE \E v \in Workers : WorkerRuns(v)
    <3>1. PICK v \in Workers : WorkerRuns(v)
      BY <2>8
    <3>2. v = w
      BY <2>3, <2>4, <3>1 DEF WorkerRuns
    <3> QED BY <2>1, <2>2, <2>3, <3>1, <3>2 DEF WorkerRuns, WorkerAt, WorkerStates
  <2>9. CASE UNCHANGED worker
    BY <2>4, <2>9
  <2> QED BY <1>1, <2>5, <2>6, <2>7, <2>8, <2>9
       DEF SchedulerNext, CoordinatorStep, StopStep, WorkerStep, StopStores, StopClears,
           CoordinatorLooks, Rests, Enqueue, Skip, scheduleAtFixedRate, cancel, ComesDue,
           schedulerVars
<1>2. IInv /\ [SchedulerNext]_schedulerVars =>
        [\A j \in cancelled \cap cancelled' : InHand(j) = {} => InHand(j)' = {}]_schedulerVars
  BY <1>1
<1> QED BY <1>2, Always, PTL DEF SchedulerSpec, CancelledStaysQuiet

-----------------------------------------------------------------------------
(* McpSession: pipes that keep the order of requests. *)

ClientRecords ==
  [at: {"rests", "waits", "stores"}, request: Requests \cup {0}, tools: BOOLEAN]

\* The answers in s are those of the requests after lo, up to hi, in their order;
\* notifications may be among them.
InOrder(s, lo, hi) ==
  /\ \A i, j \in DOMAIN s : i < j /\ s[i] # Changed /\ s[j] # Changed => s[i] < s[j]
  /\ \A n \in Nat \ {Changed} : (\E i \in DOMAIN s : s[i] = n) <=> lo < n /\ n <= hi

LEMMA NothingInOrder ==
  ASSUME NEW lo \in Nat
  PROVE  InOrder(<<>>, lo, lo)
BY DEF InOrder

LEMMA InOrderAppend ==
  ASSUME NEW s \in Seq(Nat), NEW lo \in Nat, NEW hi \in Nat, lo <= hi, InOrder(s, lo, hi)
  PROVE  InOrder(Append(s, hi + 1), lo, hi + 1)
<1>1. PICK q : q = Append(s, hi + 1)
  OBVIOUS
<1>2. /\ Len(s) \in Nat /\ DOMAIN s = 1..Len(s) /\ DOMAIN q = 1..(Len(s) + 1)
      /\ \A i \in 1..Len(s) : q[i] = s[i] /\ s[i] \in Nat
      /\ q[Len(s) + 1] = hi + 1
  BY <1>1
<1>3. \A i \in 1..Len(s) : s[i] # Changed => s[i] <= hi
  BY <1>2 DEF InOrder
<1>4. \A i, j \in DOMAIN q : i < j /\ q[i] # Changed /\ q[j] # Changed => q[i] < q[j]
  <2> SUFFICES ASSUME NEW i \in 1..(Len(s) + 1), NEW j \in 1..(Len(s) + 1),
                      i < j, q[i] # Changed, q[j] # Changed
               PROVE  q[i] < q[j]
    BY <1>2
  <2>1. i \in 1..Len(s)
    BY <1>2
  <2>2. CASE j = Len(s) + 1
    BY <1>2, <1>3, <2>1, <2>2
  <2>3. CASE j # Len(s) + 1
    <3>1. j \in 1..Len(s)
      BY <1>2, <2>3
    <3> QED
      BY <1>2, <2>1, <3>1 DEF InOrder
  <2> QED
    BY <2>2, <2>3
<1>5. ASSUME NEW n \in Nat \ {Changed}
      PROVE  (\E i \in DOMAIN q : q[i] = n) <=> lo < n /\ n <= hi + 1
  <2>1. (\E i \in DOMAIN q : q[i] = n) <=> (\E i \in DOMAIN s : s[i] = n) \/ n = hi + 1
    <3>1. ASSUME NEW i \in DOMAIN q, q[i] = n
          PROVE  (\E j \in DOMAIN s : s[j] = n) \/ n = hi + 1
      <4>1. CASE i = Len(s) + 1
        BY <1>2, <3>1, <4>1
      <4>2. CASE i \in DOMAIN s
        BY <1>2, <3>1, <4>2
      <4> QED
        BY <1>2, <4>1, <4>2
    <3>2. ASSUME NEW i \in DOMAIN s, s[i] = n
          PROVE  i \in DOMAIN q /\ q[i] = n
      BY <1>2, <3>2
    <3>3. Len(s) + 1 \in DOMAIN q
      BY <1>2
    <3> QED
      BY <1>2, <3>1, <3>2, <3>3
  <2>2. (\E i \in DOMAIN s : s[i] = n) <=> lo < n /\ n <= hi
    BY DEF InOrder
  <2> QED
    BY <2>1, <2>2
<1> QED
  BY <1>1, <1>4, <1>5 DEF InOrder

LEMMA InOrderNotice ==
  ASSUME NEW s \in Seq(Nat), NEW lo \in Nat, NEW hi \in Nat, InOrder(s, lo, hi)
  PROVE  InOrder(Append(s, Changed), lo, hi)
<1>1. PICK q : q = Append(s, Changed)
  OBVIOUS
<1>2. /\ Len(s) \in Nat /\ DOMAIN s = 1..Len(s) /\ DOMAIN q = 1..(Len(s) + 1)
      /\ \A i \in 1..Len(s) : q[i] = s[i]
      /\ q[Len(s) + 1] = Changed
  BY <1>1 DEF Changed
<1>3. ASSUME NEW n \in Nat \ {Changed}
      PROVE  (\E i \in DOMAIN q : q[i] = n) <=> (\E i \in DOMAIN s : s[i] = n)
  BY <1>2
<1>4. \A i \in DOMAIN q : q[i] # Changed => i \in DOMAIN s /\ q[i] = s[i]
  BY <1>2
<1> QED
  BY <1>1, <1>3, <1>4 DEF InOrder

\* Whoever takes the front gets the next answer, if it is not a notification.
LEMMA InOrderTail ==
  ASSUME NEW s \in Seq(Nat), NEW lo \in Nat, NEW hi \in Nat, InOrder(s, lo, hi), s # <<>>
  PROVE  /\ Head(s) = Changed => InOrder(Tail(s), lo, hi)
         /\ Head(s) # Changed =>
              Head(s) = lo + 1 /\ lo + 1 <= hi /\ InOrder(Tail(s), lo + 1, hi)
<1>1. PICK q : q = Tail(s)
  OBVIOUS
<1>2. PICK h : h = Head(s)
  OBVIOUS
<1>3. /\ Len(s) \in Nat \ {0} /\ DOMAIN s = 1..Len(s) /\ DOMAIN q = 1..(Len(s) - 1)
      /\ \A i \in 1..(Len(s) - 1) : q[i] = s[i + 1]
      /\ \A i \in 1..Len(s) : s[i] \in Nat
      /\ h = s[1] /\ h \in Nat
  BY <1>1, <1>2
<1>4. \A i, j \in DOMAIN q : i < j /\ q[i] # Changed /\ q[j] # Changed => q[i] < q[j]
  <2> SUFFICES ASSUME NEW i \in 1..(Len(s) - 1), NEW j \in 1..(Len(s) - 1),
                      i < j, q[i] # Changed, q[j] # Changed
               PROVE  q[i] < q[j]
    BY <1>3
  <2>1. i + 1 \in DOMAIN s /\ j + 1 \in DOMAIN s /\ i + 1 < j + 1
    BY <1>3
  <2>2. q[i] = s[i + 1] /\ q[j] = s[j + 1]
    BY <1>3
  <2> QED
    BY <2>1, <2>2 DEF InOrder
<1>5. ASSUME NEW n \in Nat
      PROVE  (\E i \in DOMAIN s : s[i] = n) <=> h = n \/ (\E i \in DOMAIN q : q[i] = n)
  <2>1. ASSUME NEW i \in DOMAIN s, s[i] = n, i # 1
        PROVE  \E j \in DOMAIN q : q[j] = n
    <3>1. i - 1 \in 1..(Len(s) - 1) /\ q[i - 1] = n
      BY <1>3, <2>1
    <3> QED
      BY <1>3, <3>1
  <2>2. ASSUME NEW i \in DOMAIN q, q[i] = n
        PROVE  \E j \in DOMAIN s : s[j] = n
    <3>1. i + 1 \in 1..Len(s) /\ s[i + 1] = n
      BY <1>3, <2>2
    <3> QED
      BY <1>3, <3>1
  <2>3. 1 \in DOMAIN s
    BY <1>3
  <2> QED
    BY <1>3, <2>1, <2>2, <2>3
<1>6. ASSUME NEW n \in Nat \ {Changed}
      PROVE  h = n \/ (\E i \in DOMAIN q : q[i] = n) <=> lo < n /\ n <= hi
  BY <1>5 DEF InOrder
<1>7. CASE h = Changed
  <2>1. \A n \in Nat \ {Changed} : (\E i \in DOMAIN q : q[i] = n) <=> lo < n /\ n <= hi
    BY <1>6, <1>7
  <2> QED
    BY <1>1, <1>2, <1>4, <1>7, <2>1 DEF InOrder
<1>8. CASE h # Changed
  <2>1. lo < h /\ h <= hi
    BY <1>3, <1>6, <1>8
  <2>2. \A i \in DOMAIN q : q[i] # Changed => h < q[i]
    <3> SUFFICES ASSUME NEW i \in 1..(Len(s) - 1), q[i] # Changed PROVE h < q[i]
      BY <1>3
    <3>1. 1 \in DOMAIN s /\ i + 1 \in DOMAIN s /\ 1 < i + 1 /\ q[i] = s[i + 1]
      BY <1>3
    <3> QED
      BY <1>3, <1>8, <3>1 DEF InOrder
  <2>3. h = lo + 1
    <3>1. lo + 1 \in Nat \ {Changed}
      BY DEF Changed
    <3>2. h = lo + 1 \/ \E i \in DOMAIN q : q[i] = lo + 1
      BY <1>6, <2>1, <3>1, <1>3
    <3> QED
      BY <1>3, <2>1, <2>2, <3>1, <3>2
  <2>4. ASSUME NEW n \in Nat \ {Changed}
        PROVE  (\E i \in DOMAIN q : q[i] = n) <=> lo + 1 < n /\ n <= hi
    <3>1. CASE n = h
      <4>1. ~(\E i \in DOMAIN q : q[i] = n)
        BY <1>3, <2>2, <2>4, <3>1
      <4> QED
        BY <2>3, <3>1, <4>1
    <3>2. CASE n # h
      BY <1>6, <2>3, <2>4, <3>2
    <3> QED
      BY <3>1, <3>2
  <2> QED
    BY <1>1, <1>2, <1>4, <1>8, <2>1, <2>3, <2>4 DEF InOrder
<1> QED
  BY <1>7, <1>8
-----------------------------------------------------------------------------
(* McpSession: requests, their answers, and the lists that came of them.     *)

McpTyped ==
  /\ phase \in {"down", "init", "connected", "lists", "ready"}
  /\ asked \in Seq({"init", "tools", "call"}) /\ Len(asked) <= MaxRequests
  /\ toServer \in Seq(Requests) /\ answers \in Seq(Requests)
  /\ fromServer \in Seq(Requests \cup {Changed})
  /\ client \in [McpThreads -> ClientRecords]
  /\ \A t \in McpThreads : client[t].at = "rests" <=> client[t].request = 0
  /\ listed \in BOOLEAN /\ overlapped \in BOOLEAN
  /\ changes \in 0..MaxChanges /\ timeouts \in Nat
  /\ taken \subseteq [request: Requests, answer: Requests]

Awaited == {client[t].request : t \in {u \in McpThreads : Waits(u)}}

\* Each request is awaited by one thread at most, and no more once it has an answer;
\* unless requests overlapped, only the last one is awaited.
RequestsFit ==
  /\ \A t \in McpThreads : client[t].request <= Len(asked)
  /\ \A t, u \in McpThreads : Waits(t) /\ Waits(u) /\ client[t].request = client[u].request => t = u
  /\ \A a \in taken : a.request \notin Awaited /\ a.request <= Len(asked)
  /\ ~overlapped => \A n \in Awaited : n = Len(asked)

\* k requests had their answers taken, those up to m are in the queue, those up to p
\* are on their way back; each request was answered, given up, or is awaited.
Pipeline(k, m, p) ==
  /\ k <= m /\ m <= p /\ p <= Len(asked)
  /\ InOrder(answers, k, m) /\ InOrder(fromServer, m, p) /\ InOrder(toServer, p, Len(asked))
  /\ \A a \in taken : a.answer <= k
  /\ k + timeouts + Cardinality(Awaited) = Len(asked)

\* If nothing was given up, each list that was asked for came.
ToolsFit ==
  timeouts = 0 /\ ~overlapped =>
    /\ \A t \in McpThreads : client[t].at = "stores" => client[t].tools
    /\ phase = "ready" => listed

McpInv ==
  /\ McpTyped /\ RequestsFit /\ ToolsFit /\ EachAnswerOnce /\ AnswersLagByTimeouts
  /\ \E k, m, p \in Nat : Pipeline(k, m, p)

\* What is awaited is part of what was asked, so that there is no end of it.
LEMMA AwaitedFits ==
  ASSUME McpTyped, RequestsFit
  PROVE  /\ Len(asked) \in Nat /\ Awaited \subseteq 1..Len(asked)
         /\ IsFiniteSet(Awaited) /\ Cardinality(Awaited) \in Nat
         /\ \A t \in McpThreads : Waits(t) => client[t].request \in 1..Len(asked)
         /\ Requests \subseteq Nat /\ Changed \notin Requests
         /\ answers \in Seq(Nat) /\ toServer \in Seq(Nat) /\ fromServer \in Seq(Nat)
<1>1. Len(asked) \in Nat
  BY DEF McpTyped
<1>2. Requests \subseteq Nat /\ Changed \notin Requests
  BY McpBounds DEF Requests, Changed
<1>3. ASSUME NEW t \in McpThreads, Waits(t)
      PROVE  client[t].request \in 1..Len(asked)
  <2>1. client[t] \in ClientRecords
    BY DEF McpTyped
  <2>2. client[t].request \in Requests \cup {0} /\ client[t].request # 0
    BY <1>3, <2>1 DEF McpTyped, Waits, ClientRecords
  <2>3. client[t].request \in Nat /\ client[t].request <= Len(asked)
    BY <2>2, <1>2 DEF RequestsFit
  <2> QED
    BY <1>1, <2>2, <2>3
<1>4. Awaited \subseteq 1..Len(asked)
  BY <1>3 DEF Awaited
<1>5. IsFiniteSet(1..Len(asked))
  BY <1>1, FS_Interval
<1>6. IsFiniteSet(Awaited)
  BY <1>4, <1>5, FS_Subset
<1>7. Cardinality(Awaited) \in Nat
  BY <1>6, FS_CardinalityType
<1>8. answers \in Seq(Nat) /\ toServer \in Seq(Nat) /\ fromServer \in Seq(Nat)
  <2>1. Requests \cup {Changed} \subseteq Nat
    BY <1>2 DEF Changed
  <2> QED
    BY <1>2, <2>1, SeqMonotonic DEF McpTyped
<1> QED
  BY <1>1, <1>2, <1>3, <1>4, <1>6, <1>7, <1>8

\* What the pipes and counts of the next state have to satisfy.
LEMMA PipelineThen ==
  ASSUME NEW k \in Nat, NEW m \in Nat, NEW p \in Nat,
         k <= m, m <= p, p <= Len(asked'),
         InOrder(answers', k, m), InOrder(fromServer', m, p), InOrder(toServer', p, Len(asked')),
         \A a \in taken' : a.answer <= k,
         k + timeouts' + Cardinality(Awaited') = Len(asked')
  PROVE  \E i, j, l \in Nat : Pipeline(i, j, l)'
<1>1. InOrder(answers, k, m)'
  BY DEF InOrder
<1>2. InOrder(fromServer, m, p)'
  BY DEF InOrder
<1>3. InOrder(toServer, p, Len(asked))'
  BY DEF InOrder
<1>4. Pipeline(k, m, p)'
  BY <1>1, <1>2, <1>3 DEF Pipeline
<1> QED
  BY <1>4

\* A thread that has its answer, gives up, or has stored its list.
LEMMA ReturnsFit ==
  ASSUME McpTyped, RequestsFit, NEW t \in McpThreads, NEW c \in ClientRecords,
         c.at # "waits", c.request \in {0, client[t].request}, c.at = "rests" <=> c.request = 0,
         client' = [client EXCEPT ![t] = c], UNCHANGED <<asked, overlapped>>,
         \A a \in taken' : a \in taken \/ (Waits(t) /\ a.request = client[t].request)
  PROVE  /\ RequestsFit'
         /\ client' \in [McpThreads -> ClientRecords]
         /\ \A u \in McpThreads : client'[u].at = "rests" <=> client'[u].request = 0
         /\ Awaited' = IF Waits(t) THEN Awaited \ {client[t].request} ELSE Awaited
<1>1. client \in [McpThreads -> ClientRecords]
  BY DEF McpTyped
<1>2. /\ client' \in [McpThreads -> ClientRecords] /\ client'[t] = c
      /\ \A u \in McpThreads : u # t => client'[u] = client[u]
  BY <1>1
<1>3. \A u \in McpThreads : client'[u].at = "rests" <=> client'[u].request = 0
  BY <1>2 DEF McpTyped
<1>4. /\ \A u \in McpThreads : client'[u].at = "waits" <=> Waits(u) /\ u # t
      /\ \A u, v \in McpThreads :
           Waits(u) /\ Waits(v) /\ client[u].request = client[v].request => u = v
  BY <1>2 DEF Waits, RequestsFit
<1>5. Awaited' = IF Waits(t) THEN Awaited \ {client[t].request} ELSE Awaited
  <2>1. \A n : n \in Awaited <=> \E u \in McpThreads : Waits(u) /\ client[u].request = n
    BY DEF Awaited
  <2>2. \A n : n \in Awaited' <=> \E u \in McpThreads : Waits(u) /\ u # t /\ client[u].request = n
    BY <1>2, <1>4 DEF Awaited, Waits
  <2>3. CASE Waits(t)
    <3>1. \A n : n \in Awaited' <=> n \in Awaited /\ n # client[t].request
      BY <1>4, <2>1, <2>2, <2>3
    <3> QED
      BY <2>3, <3>1
  <2>4. CASE ~Waits(t)
    <3>1. \A n : n \in Awaited' <=> n \in Awaited
      BY <2>1, <2>2, <2>4
    <3> QED
      BY <2>4, <3>1
  <2> QED
    BY <2>3, <2>4
<1>6. Len(asked) \in Nat /\ \A u \in McpThreads : Waits(u) => client[u].request \in 1..Len(asked)
  BY AwaitedFits
<1>7. \A u \in McpThreads : client'[u].request <= Len(asked)
  BY <1>2, <1>6 DEF RequestsFit
<1>8. \A u, v \in McpThreads :
        client'[u].at = "waits" /\ client'[v].at = "waits" /\ client'[u].request = client'[v].request => u = v
  BY <1>2, <1>4
<1>9. \A a \in taken' : a.request \notin Awaited' /\ a.request <= Len(asked)
  BY <1>5, <1>6 DEF RequestsFit
<1>10. ~overlapped => \A n \in Awaited' : n = Len(asked)
  BY <1>5 DEF RequestsFit
<1>11. RequestsFit'
  BY <1>7, <1>8, <1>9, <1>10 DEF RequestsFit, Waits
<1> QED
  BY <1>2, <1>3, <1>5, <1>11

\* Whatever a thread asks for goes behind the requests before it.
LEMMA SendsFit ==
  ASSUME McpInv, NEW t \in McpThreads, NEW kind \in {"init", "tools", "call"}, sendRequest(t, kind),
         phase' \in {"down", "init", "connected", "lists", "ready"}, phase' = "ready" => phase = "ready",
         UNCHANGED <<answers, listed, changes, timeouts, taken>>,
         \/ fromServer' = fromServer
         \/ fromServer # <<>> /\ Head(fromServer) = Changed /\ fromServer' = Tail(fromServer)
  PROVE  McpInv'
<1>1. McpTyped /\ RequestsFit /\ ToolsFit /\ EachAnswerOnce /\ AnswersLagByTimeouts
  BY DEF McpInv
<1>2. PICK k \in Nat, m \in Nat, p \in Nat : Pipeline(k, m, p)
  BY DEF McpInv
<1>3. /\ Len(asked) \in Nat /\ Awaited \subseteq 1..Len(asked)
      /\ IsFiniteSet(Awaited) /\ Cardinality(Awaited) \in Nat
      /\ Requests \subseteq Nat /\ Changed \notin Requests
  BY <1>1, AwaitedFits
<1>4. PICK n : n = Len(asked) + 1
  OBVIOUS
<1>5. /\ client[t] = Resting /\ n \in Requests
      /\ asked' = Append(asked, kind) /\ Len(asked') = n
      /\ toServer' = Append(toServer, n)
      /\ client' = [client EXCEPT ![t] = [Resting EXCEPT !.at = "waits", !.request = n]]
      /\ overlapped' = (overlapped \/ \E u \in McpThreads : Waits(u))
  <2>1. /\ client[t] = Resting /\ Len(asked) < MaxRequests
        /\ asked' = Append(asked, kind)
        /\ overlapped' = (overlapped \/ \E u \in McpThreads : Waits(u))
    BY DEF sendRequest
  <2>2. Len(asked') = n
    BY <1>1, <1>4, <2>1 DEF McpTyped
  <2>3. n \in Requests
    BY <1>3, <1>4, <2>1, McpBounds DEF Requests
  <2> QED
    BY <2>1, <2>2, <2>3 DEF sendRequest
<1>6. PICK c : c = [Resting EXCEPT !.at = "waits", !.request = n]
  OBVIOUS
<1>7. c \in ClientRecords /\ c.at = "waits" /\ c.request = n /\ n # 0
  BY <1>3, <1>5, <1>6 DEF ClientRecords, Resting, Changed
<1>8. /\ client' \in [McpThreads -> ClientRecords] /\ client'[t] = c
      /\ \A u \in McpThreads : u # t => client'[u] = client[u]
      /\ ~Waits(t) /\ client \in [McpThreads -> ClientRecords]
  BY <1>1, <1>5, <1>6, <1>7 DEF McpTyped, Waits, Resting
<1>9. fromServer' \in Seq(Requests \cup {Changed})
  <2>1. fromServer \in Seq(Requests \cup {Changed})
    BY <1>1 DEF McpTyped
  <2>2. fromServer # <<>> => Tail(fromServer) \in Seq(Requests \cup {Changed})
    BY <2>1, HeadTailProperties
  <2> QED
    BY <2>1, <2>2
<1>10. McpTyped'
  <2>1. asked' \in Seq({"init", "tools", "call"}) /\ Len(asked') <= MaxRequests
    BY <1>1, <1>5, McpBounds DEF McpTyped, Requests
  <2>2. toServer' \in Seq(Requests)
    BY <1>1, <1>5 DEF McpTyped
  <2>3. \A u \in McpThreads : client'[u].at = "rests" <=> client'[u].request = 0
    BY <1>1, <1>7, <1>8 DEF McpTyped
  <2>4. overlapped' \in BOOLEAN
    BY <1>1, <1>5 DEF McpTyped
  <2> QED
    BY <1>1, <1>8, <1>9, <2>1, <2>2, <2>3, <2>4 DEF McpTyped
<1>11. Awaited' = Awaited \cup {n}
  <2>1. \A u \in McpThreads : client'[u].at = "waits" <=> Waits(u) \/ u = t
    BY <1>7, <1>8 DEF Waits
  <2>2. \A i : i \in Awaited' <=> i \in Awaited \/ i = n
    BY <1>7, <1>8, <2>1 DEF Awaited, Waits
  <2> QED
    BY <2>2
<1>12. n \notin Awaited /\ Cardinality(Awaited') = Cardinality(Awaited) + 1
  <2>1. n \notin Awaited
    BY <1>3, <1>4
  <2> QED
    BY <1>3, <1>11, <2>1, FS_AddElement
<1>13. RequestsFit'
  <2>1. \A u \in McpThreads : client'[u].request <= n
    <3>1. ASSUME NEW u \in McpThreads
          PROVE  client[u].request \in Nat /\ client[u].request <= Len(asked)
      <4>1. client[u] \in ClientRecords
        BY <1>8
      <4>2. client[u].request \in Requests \cup {0}
        BY <4>1 DEF ClientRecords
      <4>3. client[u].request \in Nat
        BY <4>2, McpBounds DEF Requests
      <4> QED
        BY <1>1, <4>3 DEF RequestsFit
    <3> QED
      BY <1>3, <1>4, <1>7, <1>8, <3>1
  <2>2. ASSUME NEW u \in McpThreads, NEW v \in McpThreads, client'[u].at = "waits",
               client'[v].at = "waits", client'[u].request = client'[v].request
        PROVE  u = v
    <3>1. \A w \in McpThreads : w # t /\ client'[w].at = "waits" => client'[w].request # n
      BY <1>8, <1>12 DEF Awaited, Waits
    <3> QED
      BY <1>1, <1>7, <1>8, <2>2, <3>1 DEF RequestsFit, Waits
  <2>3. \A a \in taken : a.request \notin Awaited' /\ a.request <= n
    <3>1. \A a \in taken : a.request \in Nat /\ a.request \notin Awaited /\ a.request <= Len(asked)
      BY <1>1, <1>3 DEF RequestsFit, McpTyped
    <3> QED
      BY <1>3, <1>4, <1>11, <3>1
  <2>4. ~overlapped' => \A i \in Awaited' : i = n
    <3>1. ~overlapped' => Awaited = {}
      BY <1>5 DEF Awaited
    <3> QED
      BY <1>11, <3>1
  <2> QED
    BY <1>5, <2>1, <2>2, <2>3, <2>4 DEF RequestsFit, Waits
<1>14. ToolsFit'
  <2>1. ~overlapped' => ~overlapped
    BY <1>5
  <2> QED
    BY <1>1, <1>7, <1>8, <2>1 DEF ToolsFit
<1>15. \E i, j, l \in Nat : Pipeline(i, j, l)'
  <2>1. toServer \in Seq(Nat) /\ fromServer \in Seq(Nat)
    BY <1>1, AwaitedFits
  <2>2. /\ k <= m /\ m <= p /\ p <= Len(asked)
        /\ InOrder(answers, k, m) /\ InOrder(fromServer, m, p) /\ InOrder(toServer, p, Len(asked))
        /\ \A a \in taken : a.answer <= k
        /\ timeouts \in Nat /\ k + timeouts + Cardinality(Awaited) = Len(asked)
    BY <1>1, <1>2 DEF Pipeline, McpTyped
  <2>3. InOrder(toServer', p, Len(asked'))
    BY <1>3, <1>4, <1>5, <2>1, <2>2, InOrderAppend
  <2>4. InOrder(fromServer', m, p)
    <3>1. fromServer # <<>> /\ Head(fromServer) = Changed => InOrder(Tail(fromServer), m, p)
      BY <2>1, <2>2, InOrderTail
    <3> QED
      BY <2>2, <3>1
  <2>5. p <= Len(asked') /\ k + timeouts' + Cardinality(Awaited') = Len(asked')
    BY <1>3, <1>4, <1>5, <1>12, <2>2
  <2>6. InOrder(answers', k, m) /\ \A a \in taken' : a.answer <= k
    BY <2>2
  <2> QED
    BY <2>2, <2>3, <2>4, <2>5, <2>6, PipelineThen
<1>16. EachAnswerOnce' /\ AnswersLagByTimeouts'
  BY <1>1, <1>5 DEF EachAnswerOnce, AnswersLagByTimeouts
<1> QED
  BY <1>10, <1>13, <1>14, <1>15, <1>16 DEF McpInv

\* What moves through the pipes changes no thread.
LEMMA PipesFit ==
  ASSUME McpInv, QueueAnswer \/ ServerAnswers \/ ServerNotifies \/
                 (/\ fromServer # <<>> /\ Head(fromServer) = Changed /\ fromServer' = Tail(fromServer)
                  /\ UNCHANGED <<asked, toServer, client, overlapped, phase, answers, listed, changes,
                                 timeouts, taken>>)
  PROVE  McpInv'
<1>1. McpTyped /\ RequestsFit /\ ToolsFit /\ EachAnswerOnce /\ AnswersLagByTimeouts
  BY DEF McpInv
<1>2. PICK k \in Nat, m \in Nat, p \in Nat : Pipeline(k, m, p)
  BY DEF McpInv
<1>3. /\ answers \in Seq(Nat) /\ toServer \in Seq(Nat) /\ fromServer \in Seq(Nat)
      /\ Requests \subseteq Nat /\ Changed \notin Requests
  BY <1>1, AwaitedFits
<1>4. /\ k <= m /\ m <= p /\ p <= Len(asked)
      /\ InOrder(answers, k, m) /\ InOrder(fromServer, m, p) /\ InOrder(toServer, p, Len(asked))
      /\ \A a \in taken : a.answer <= k
      /\ k + timeouts + Cardinality(Awaited) = Len(asked)
      /\ Len(asked) \in Nat
  BY <1>1, <1>2 DEF Pipeline, McpTyped
<1>5. UNCHANGED <<asked, client, overlapped, phase, listed, timeouts, taken>>
  BY DEF QueueAnswer, ServerAnswers, ServerNotifies
<1>6. /\ toServer \in Seq(Requests) /\ answers \in Seq(Requests)
      /\ fromServer \in Seq(Requests \cup {Changed})
  BY <1>1 DEF McpTyped
<1>7. changes' \in 0..MaxChanges
  BY <1>1, McpBounds DEF McpTyped, QueueAnswer, ServerAnswers, ServerNotifies
<1>8. RequestsFit' /\ ToolsFit' /\ EachAnswerOnce' /\ AnswersLagByTimeouts' /\ Awaited' = Awaited
  <2>1. RequestsFit' /\ Awaited' = Awaited
    BY <1>1, <1>5 DEF RequestsFit, Awaited, Waits
  <2>2. ToolsFit' /\ EachAnswerOnce' /\ AnswersLagByTimeouts'
    BY <1>1, <1>5 DEF ToolsFit, EachAnswerOnce, AnswersLagByTimeouts
  <2> QED
    BY <2>1, <2>2
<1>9. /\ toServer' \in Seq(Requests) /\ answers' \in Seq(Requests)
      /\ fromServer' \in Seq(Requests \cup {Changed})
      /\ \E i, j, l \in Nat : Pipeline(i, j, l)'
  <2>1. CASE QueueAnswer
    <3>1. /\ fromServer # <<>> /\ Head(fromServer) # Changed
          /\ answers' = Append(answers, Head(fromServer)) /\ fromServer' = Tail(fromServer)
          /\ toServer' = toServer
      BY <2>1 DEF QueueAnswer
    <3>2. Head(fromServer) = m + 1 /\ m + 1 <= p /\ InOrder(fromServer', m + 1, p)
      BY <1>3, <1>4, <3>1, InOrderTail
    <3>3. InOrder(answers', k, m + 1)
      BY <1>3, <1>4, <3>1, <3>2, InOrderAppend
    <3>4. \E i, j, l \in Nat : Pipeline(i, j, l)'
      <4>1. m + 1 \in Nat /\ k <= m + 1
        BY <1>4
      <4> QED
        BY <1>4, <1>5, <1>8, <3>1, <3>2, <3>3, <4>1, PipelineThen
    <3>5. Head(fromServer) \in Requests /\ Tail(fromServer) \in Seq(Requests \cup {Changed})
      <4>1. /\ Head(fromServer) \in Requests \cup {Changed}
            /\ Tail(fromServer) \in Seq(Requests \cup {Changed})
        BY <1>6, <3>1, HeadTailProperties
      <4> QED
        BY <3>1, <4>1
    <3> QED
      BY <1>6, <3>1, <3>4, <3>5
  <2>2. CASE ServerAnswers
    <3>1. /\ toServer # <<>> /\ answers' = answers
          /\ fromServer' = Append(fromServer, Head(toServer)) /\ toServer' = Tail(toServer)
      BY <2>2 DEF ServerAnswers
    <3>2. Head(toServer) \in Requests /\ Tail(toServer) \in Seq(Requests)
      BY <1>6, <3>1, HeadTailProperties
    <3>3. Head(toServer) = p + 1 /\ p + 1 <= Len(asked) /\ InOrder(toServer', p + 1, Len(asked))
      BY <1>3, <1>4, <3>1, <3>2, InOrderTail
    <3>4. InOrder(fromServer', m, p + 1)
      BY <1>3, <1>4, <3>1, <3>3, InOrderAppend
    <3>5. \E i, j, l \in Nat : Pipeline(i, j, l)'
      <4>1. p + 1 \in Nat /\ m <= p + 1
        BY <1>4
      <4> QED
        BY <1>4, <1>5, <1>8, <3>1, <3>3, <3>4, <4>1, PipelineThen
    <3>6. fromServer' \in Seq(Requests \cup {Changed})
      BY <1>6, <3>1, <3>2
    <3> QED
      BY <1>6, <3>1, <3>2, <3>5, <3>6
  <2>3. CASE ServerNotifies
    <3>1. answers' = answers /\ toServer' = toServer /\ fromServer' = Append(fromServer, Changed)
      BY <2>3 DEF ServerNotifies
    <3>2. InOrder(fromServer', m, p)
      BY <1>3, <1>4, <3>1, InOrderNotice
    <3>3. \E i, j, l \in Nat : Pipeline(i, j, l)'
      BY <1>4, <1>5, <1>8, <3>1, <3>2, PipelineThen
    <3>4. fromServer' \in Seq(Requests \cup {Changed})
      BY <1>6, <3>1
    <3> QED
      BY <1>6, <3>1, <3>3, <3>4
  <2>4. CASE /\ fromServer # <<>> /\ Head(fromServer) = Changed /\ fromServer' = Tail(fromServer)
             /\ UNCHANGED <<toServer, answers>>
    <3>1. InOrder(fromServer', m, p)
      BY <1>3, <1>4, <2>4, InOrderTail
    <3>2. \E i, j, l \in Nat : Pipeline(i, j, l)'
      BY <1>4, <1>5, <1>8, <2>4, <3>1, PipelineThen
    <3>3. fromServer' \in Seq(Requests \cup {Changed})
      BY <1>6, <2>4, HeadTailProperties
    <3> QED
      BY <1>6, <2>4, <3>2, <3>3
  <2> QED
    BY <2>1, <2>2, <2>3, <2>4
<1>10. McpTyped'
  BY <1>1, <1>5, <1>7, <1>9 DEF McpTyped
<1> QED
  BY <1>8, <1>9, <1>10 DEF McpInv

\* The state of a thread after the answer m, or after a timeout.
LEMMA AfterAnswerIs ==
  ASSUME McpTyped, RequestsFit, NEW t \in McpThreads, Waits(t), NEW m, AfterAnswer(t, m)
  PROVE  \E c \in ClientRecords :
           /\ c.at # "waits" /\ c.request \in {0, client[t].request}
           /\ c.at = "rests" <=> c.request = 0
           /\ client' = [client EXCEPT ![t] = c]
           /\ c.at = "stores" =>
                asked[client[t].request] = "tools" /\ c.tools = (m # 0 /\ asked[m] = "tools")
           /\ phase' \in {phase, "connected"}
<1>1. PICK o \in ClientRecords : o = client[t]
  BY DEF McpTyped
<1>2. o.request # 0 /\ phase' \in {phase, "connected"}
  BY <1>1 DEF McpTyped, Waits, AfterAnswer
<1>3. CASE asked[o.request] # "tools"
  <2>1. client' = [client EXCEPT ![t] = Resting]
    BY <1>1, <1>3 DEF AfterAnswer
  <2>2. Resting \in ClientRecords /\ Resting.at = "rests" /\ Resting.request = 0
    BY DEF Resting, ClientRecords
  <2> QED
    BY <1>2, <2>1, <2>2
<1>4. CASE asked[o.request] = "tools"
  <2>1. PICK c : c = [o EXCEPT !.at = "stores", !.tools = (m # 0 /\ asked[m] = "tools")]
    OBVIOUS
  <2>2. client' = [client EXCEPT ![t] = c]
    BY <1>1, <1>4, <2>1 DEF AfterAnswer
  <2>3. /\ c \in ClientRecords /\ c.at = "stores" /\ c.request = o.request
        /\ c.tools = (m # 0 /\ asked[m] = "tools")
    BY <2>1 DEF ClientRecords
  <2> QED
    BY <1>1, <1>2, <1>4, <2>2, <2>3
<1> QED
  BY <1>3, <1>4

\* The front of the queue is the next answer that nobody took; unless requests
\* overlapped, the last request gets it, and those given up are what lies between.
LEMMA ReceivesFit ==
  ASSUME McpInv, NEW t \in McpThreads, receiveResponse(t)
  PROVE  McpInv'
<1>1. McpTyped /\ RequestsFit /\ ToolsFit /\ EachAnswerOnce /\ AnswersLagByTimeouts
  BY DEF McpInv
<1>2. PICK k \in Nat, m \in Nat, p \in Nat : Pipeline(k, m, p)
  BY DEF McpInv
<1>3. /\ answers \in Seq(Nat) /\ Requests \subseteq Nat /\ Changed \notin Requests
      /\ Len(asked) \in Nat /\ Awaited \subseteq 1..Len(asked)
      /\ IsFiniteSet(Awaited) /\ Cardinality(Awaited) \in Nat
      /\ Waits(t) => client[t].request \in 1..Len(asked)
  BY <1>1, AwaitedFits
<1>4. /\ k <= m /\ m <= p /\ p <= Len(asked)
      /\ InOrder(answers, k, m) /\ InOrder(fromServer, m, p) /\ InOrder(toServer, p, Len(asked))
      /\ \A a \in taken : a.answer <= k
      /\ timeouts \in Nat /\ k + timeouts + Cardinality(Awaited) = Len(asked)
  BY <1>1, <1>2 DEF Pipeline, McpTyped
<1>5. PICK h : h = Head(answers)
  OBVIOUS
<1>6. PICK q : q = client[t].request
  OBVIOUS
<1>7. PICK x : x = [request |-> q, answer |-> h]
  OBVIOUS
<1>8. /\ Waits(t) /\ answers # <<>> /\ AfterAnswer(t, h)
      /\ answers' = Tail(answers) /\ taken' = taken \cup {x}
      /\ UNCHANGED <<asked, toServer, fromServer, listed, changes, timeouts, overlapped>>
  BY <1>5, <1>6, <1>7 DEF receiveResponse, pipes
<1>9. h \in Requests /\ Tail(answers) \in Seq(Requests)
  BY <1>1, <1>5, <1>8, HeadTailProperties DEF McpTyped
<1>10. h = k + 1 /\ k + 1 <= m /\ InOrder(answers', k + 1, m)
  BY <1>3, <1>4, <1>5, <1>8, <1>9, InOrderTail
<1>11. q \in Requests /\ q \in Awaited /\ q \in 1..Len(asked)
  <2>1. q \in 1..Len(asked) /\ q \in Awaited
    BY <1>3, <1>6, <1>8 DEF Awaited
  <2>2. Len(asked) <= MaxRequests
    BY <1>1 DEF McpTyped
  <2> QED
    BY <1>3, <2>1, <2>2, McpBounds DEF Requests
<1>12. PICK c \in ClientRecords :
         /\ c.at # "waits" /\ c.request \in {0, q} /\ (c.at = "rests" <=> c.request = 0)
         /\ client' = [client EXCEPT ![t] = c]
         /\ c.at = "stores" => asked[q] = "tools" /\ c.tools = (h # 0 /\ asked[h] = "tools")
         /\ phase' \in {phase, "connected"}
  BY <1>1, <1>6, <1>8, AfterAnswerIs
<1>13. /\ RequestsFit' /\ client' \in [McpThreads -> ClientRecords]
       /\ \A u \in McpThreads : client'[u].at = "rests" <=> client'[u].request = 0
       /\ Awaited' = Awaited \ {q}
  <2>1. \A a \in taken' : a \in taken \/ (Waits(t) /\ a.request = client[t].request)
    BY <1>6, <1>7, <1>8
  <2> QED
    BY <1>1, <1>6, <1>8, <1>12, <2>1, ReturnsFit
<1>14. Cardinality(Awaited') = Cardinality(Awaited) - 1
  BY <1>3, <1>11, <1>13, FS_RemoveElement
<1>15. McpTyped'
  <2>1. x \in [request: Requests, answer: Requests]
    BY <1>7, <1>9, <1>11
  <2>2. taken' \subseteq [request: Requests, answer: Requests]
    BY <1>1, <1>8, <2>1 DEF McpTyped
  <2> QED
    BY <1>1, <1>8, <1>9, <1>12, <1>13, <2>2 DEF McpTyped
<1>16. \E i, j, l \in Nat : Pipeline(i, j, l)'
  <2>1. \A a \in taken' : a.answer <= k + 1
    <3>1. \A a \in taken : a.answer \in Nat
      BY <1>1, <1>3 DEF McpTyped
    <3> QED
      BY <1>4, <1>7, <1>8, <1>10, <3>1
  <2>2. k + 1 \in Nat /\ k + 1 + timeouts' + Cardinality(Awaited') = Len(asked')
    <3>1. PICK w \in Nat : w = Cardinality(Awaited) /\ Cardinality(Awaited') = w - 1
      BY <1>3, <1>14
    <3>2. timeouts' = timeouts /\ asked' = asked
      BY <1>8
    <3>3. timeouts \in Nat /\ Len(asked) \in Nat /\ k + timeouts + w = Len(asked)
      BY <1>3, <1>4, <3>1
    <3> QED
      BY <3>1, <3>2, <3>3
  <2>3. InOrder(fromServer', m, p) /\ InOrder(toServer', p, Len(asked')) /\ p <= Len(asked')
    BY <1>4, <1>8
  <2> QED
    BY <1>4, <1>10, <2>1, <2>2, <2>3, PipelineThen
<1>17. EachAnswerOnce'
  <2>1. \A a \in taken : a.request # x.request /\ a.answer # x.answer
    <3>1. \A a \in taken : a.answer \in Nat /\ a.answer <= k
      BY <1>1, <1>3, <1>4 DEF McpTyped
    <3>2. \A a \in taken : a.request # q
      BY <1>1, <1>11 DEF RequestsFit
    <3> QED
      BY <1>7, <1>10, <3>1, <3>2
  <2> QED
    BY <1>1, <1>8, <2>1 DEF EachAnswerOnce
<1>18. ~overlapped => h <= q /\ q <= h + timeouts /\ (timeouts = 0 => q = h)
  <2> SUFFICES ASSUME ~overlapped
               PROVE  h <= q /\ q <= h + timeouts /\ (timeouts = 0 => q = h)
    OBVIOUS
  <2>1. q = Len(asked) /\ Awaited = {q}
    BY <1>1, <1>11 DEF RequestsFit
  <2>2. Cardinality(Awaited) = 1
    BY <2>1, FS_Singleton
  <2> QED
    BY <1>3, <1>4, <1>10, <2>1, <2>2
<1>19. AnswersLagByTimeouts'
  <2>1. x.answer = h /\ x.request = q
    BY <1>7
  <2> QED
    BY <1>1, <1>8, <1>18, <2>1 DEF AnswersLagByTimeouts
<1>20. ToolsFit'
  <2>1. timeouts = 0 /\ ~overlapped /\ c.at = "stores" => c.tools
    BY <1>3, <1>9, <1>12, <1>18 DEF Changed
  <2>2. \A u \in McpThreads : client'[u] = IF u = t THEN c ELSE client[u]
    BY <1>1, <1>12 DEF McpTyped
  <2>3. phase' = "ready" => phase = "ready"
    BY <1>12
  <2> QED
    BY <1>1, <1>8, <2>1, <2>2, <2>3 DEF ToolsFit
<1> QED
  BY <1>13, <1>15, <1>16, <1>17, <1>19, <1>20 DEF McpInv

\* A request is given up.
LEMMA TimeoutsFit ==
  ASSUME McpInv, NEW t \in McpThreads, TimesOut(t)
  PROVE  McpInv'
<1>1. McpTyped /\ RequestsFit /\ ToolsFit /\ EachAnswerOnce /\ AnswersLagByTimeouts
  BY DEF McpInv
<1>2. PICK k \in Nat, m \in Nat, p \in Nat : Pipeline(k, m, p)
  BY DEF McpInv
<1>3. /\ Len(asked) \in Nat /\ IsFiniteSet(Awaited) /\ Cardinality(Awaited) \in Nat
      /\ Requests \subseteq Nat
  BY <1>1, AwaitedFits
<1>4. /\ k <= m /\ m <= p /\ p <= Len(asked)
      /\ InOrder(answers, k, m) /\ InOrder(fromServer, m, p) /\ InOrder(toServer, p, Len(asked))
      /\ \A a \in taken : a.answer <= k
      /\ timeouts \in Nat /\ k + timeouts + Cardinality(Awaited) = Len(asked)
  BY <1>1, <1>2 DEF Pipeline, McpTyped
<1>5. PICK q : q = client[t].request
  OBVIOUS
<1>6. /\ Waits(t) /\ AfterAnswer(t, 0) /\ timeouts' = timeouts + 1
      /\ UNCHANGED <<asked, toServer, fromServer, answers, listed, changes, taken, overlapped>>
  BY DEF TimesOut, pipes
<1>7. PICK c \in ClientRecords :
        /\ c.at # "waits" /\ c.request \in {0, q} /\ (c.at = "rests" <=> c.request = 0)
        /\ client' = [client EXCEPT ![t] = c] /\ phase' \in {phase, "connected"}
  BY <1>1, <1>5, <1>6, AfterAnswerIs
<1>8. /\ RequestsFit' /\ client' \in [McpThreads -> ClientRecords]
      /\ \A u \in McpThreads : client'[u].at = "rests" <=> client'[u].request = 0
      /\ Awaited' = Awaited \ {q}
  BY <1>1, <1>5, <1>6, <1>7, ReturnsFit
<1>9. Cardinality(Awaited') = Cardinality(Awaited) - 1
  <2>1. q \in Awaited
    BY <1>5, <1>6 DEF Awaited
  <2> QED
    BY <1>3, <1>8, <2>1, FS_RemoveElement
<1>10. McpTyped'
  BY <1>1, <1>4, <1>6, <1>7, <1>8 DEF McpTyped
<1>11. \E i, j, l \in Nat : Pipeline(i, j, l)'
  <2>1. k + timeouts' + Cardinality(Awaited') = Len(asked')
    BY <1>3, <1>4, <1>6, <1>9
  <2>2. /\ InOrder(answers', k, m) /\ InOrder(fromServer', m, p) /\ InOrder(toServer', p, Len(asked'))
        /\ p <= Len(asked') /\ \A a \in taken' : a.answer <= k
    BY <1>4, <1>6
  <2> QED
    BY <1>4, <2>1, <2>2, PipelineThen
<1>12. EachAnswerOnce'
  BY <1>1, <1>6 DEF EachAnswerOnce
<1>13. AnswersLagByTimeouts'
  <2>1. \A a \in taken : a.answer \in Nat /\ a.request \in Nat
    BY <1>1, <1>3 DEF McpTyped
  <2> QED
    BY <1>1, <1>4, <1>6, <2>1 DEF AnswersLagByTimeouts
<1>14. ToolsFit'
  BY <1>4, <1>6 DEF ToolsFit
<1> QED
  BY <1>8, <1>10, <1>11, <1>12, <1>13, <1>14 DEF McpInv

LEMMA StoresFit ==
  ASSUME McpInv, NEW t \in McpThreads, StoreTools(t)
  PROVE  McpInv'
<1>1. McpTyped /\ RequestsFit /\ ToolsFit /\ EachAnswerOnce /\ AnswersLagByTimeouts
  BY DEF McpInv
<1>2. PICK k \in Nat, m \in Nat, p \in Nat : Pipeline(k, m, p)
  BY DEF McpInv
<1>3. /\ client[t].at = "stores" /\ listed' = client[t].tools
      /\ client' = [client EXCEPT ![t] = Resting]
      /\ phase' = IF t = "setup" THEN "ready" ELSE phase
      /\ UNCHANGED <<asked, toServer, fromServer, answers, changes, timeouts, taken, overlapped>>
  BY DEF StoreTools, pipes
<1>4. Resting \in ClientRecords /\ Resting.at = "rests" /\ Resting.request = 0
  BY DEF Resting, ClientRecords
<1>5. /\ RequestsFit' /\ client' \in [McpThreads -> ClientRecords]
      /\ \A u \in McpThreads : client'[u].at = "rests" <=> client'[u].request = 0
      /\ Awaited' = Awaited
  <2>1. ~Waits(t)
    BY <1>3 DEF Waits
  <2> QED
    BY <1>1, <1>3, <1>4, <2>1, ReturnsFit
<1>6. McpTyped'
  <2>1. listed' \in BOOLEAN
    BY <1>1, <1>3 DEF McpTyped, ClientRecords
  <2> QED
    BY <1>1, <1>3, <1>5, <2>1 DEF McpTyped
<1>7. \E i, j, l \in Nat : Pipeline(i, j, l)'
  BY <1>2, <1>3, <1>5, PipelineThen DEF Pipeline
<1>8. EachAnswerOnce' /\ AnswersLagByTimeouts'
  BY <1>1, <1>3 DEF EachAnswerOnce, AnswersLagByTimeouts
<1>9. ToolsFit'
  <2>1. \A u \in McpThreads : client'[u] = IF u = t THEN Resting ELSE client[u]
    BY <1>1, <1>3 DEF McpTyped
  <2> QED
    BY <1>1, <1>3, <1>4, <2>1 DEF ToolsFit
<1> QED
  BY <1>5, <1>6, <1>7, <1>8, <1>9 DEF McpInv
-----------------------------------------------------------------------------
(* McpSession: what holds for any number of clients and requests.            *)

LEMMA McpStarts == McpInit => McpInv
<1> SUFFICES ASSUME McpInit PROVE McpInv
  OBVIOUS
<1>1. /\ phase = "down" /\ asked = <<>> /\ toServer = <<>> /\ fromServer = <<>> /\ answers = <<>>
      /\ client = [t \in McpThreads |-> Resting]
      /\ listed = FALSE /\ changes = 0 /\ timeouts = 0 /\ taken = {} /\ overlapped = FALSE
  BY DEF McpInit
<1>2. Resting \in ClientRecords /\ Resting.at = "rests" /\ Resting.request = 0
  BY DEF Resting, ClientRecords
<1>3. McpTyped
  <2>1. client \in [McpThreads -> ClientRecords]
    BY <1>1, <1>2
  <2>2. \A t \in McpThreads : client[t].at = "rests" <=> client[t].request = 0
    BY <1>1, <1>2
  <2>3. Len(asked) <= MaxRequests /\ changes \in 0..MaxChanges /\ timeouts \in Nat
    BY <1>1, McpBounds
  <2>4. \A S : <<>> \in Seq(S)
    BY EmptySeq
  <2> QED
    BY <1>1, <2>1, <2>2, <2>3, <2>4 DEF McpTyped
<1>4. Awaited = {} /\ Cardinality({}) = 0
  BY <1>1, <1>2, FS_EmptySet DEF Awaited, Waits
<1>5. RequestsFit /\ ToolsFit
  <2>1. Len(asked) = 0
    BY <1>1
  <2> QED
    BY <1>1, <1>2, <1>4, <2>1 DEF RequestsFit, ToolsFit, Waits
<1>6. Pipeline(0, 0, 0)
  <2>1. InOrder(<<>>, 0, 0)
    BY NothingInOrder
  <2>2. Len(asked) = 0
    BY <1>1
  <2> QED
    BY <1>1, <1>4, <2>1, <2>2 DEF Pipeline
<1>7. EachAnswerOnce /\ AnswersLagByTimeouts
  BY <1>1 DEF EachAnswerOnce, AnswersLagByTimeouts
<1> QED
  BY <1>3, <1>5, <1>6, <1>7 DEF McpInv

LEMMA McpKeeps == McpInv /\ [McpNext]_mcpVars => McpInv'
<1> SUFFICES ASSUME McpInv, [McpNext]_mcpVars PROVE McpInv'
  OBVIOUS
<1>1. CASE UNCHANGED mcpVars
  <2>1. /\ UNCHANGED <<phase, asked, toServer, fromServer, answers, client>>
        /\ UNCHANGED <<listed, changes, timeouts, taken, overlapped>>
    BY <1>1 DEF mcpVars
  <2>2. Awaited' = Awaited
    BY <2>1 DEF Awaited, Waits
  <2>3. \E k, m, p \in Nat : Pipeline(k, m, p)'
    BY <2>1, <2>2, PipelineThen DEF McpInv, Pipeline
  <2>4. McpTyped' /\ ToolsFit' /\ EachAnswerOnce' /\ AnswersLagByTimeouts'
    BY <2>1 DEF McpInv, McpTyped, ToolsFit, EachAnswerOnce, AnswersLagByTimeouts
  <2>5. RequestsFit'
    BY <2>1, <2>2 DEF McpInv, RequestsFit, Waits
  <2> QED
    BY <2>3, <2>4, <2>5 DEF McpInv
<1>2. phase \in {"down", "init", "connected", "lists", "ready"} /\ "setup" \in McpThreads
      /\ "reader" \in McpThreads /\ Clients \subseteq McpThreads
  BY DEF McpInv, McpTyped, McpThreads
<1>3. CASE connect \/ initialize \/ \E c \in Clients : refreshTools(c) \/ executeTool(c)
  BY <1>2, <1>3, SendsFit DEF connect, initialize, refreshTools, executeTool
<1>4. CASE ReaderStep
  <2>1. CASE QueueAnswer
    BY <2>1, PipesFit
  <2>2. CASE processNotification
    <3>1. /\ fromServer # <<>> /\ Head(fromServer) = Changed /\ fromServer' = Tail(fromServer)
          /\ UNCHANGED <<phase, answers, listed, changes, timeouts, taken>>
          /\ sendRequest("reader", "tools") \/ UNCHANGED <<asked, toServer, client, overlapped>>
      BY <2>2 DEF processNotification
    <3>2. CASE sendRequest("reader", "tools")
      BY <1>2, <3>1, <3>2, SendsFit
    <3>3. CASE UNCHANGED <<asked, toServer, client, overlapped>>
      BY <3>1, <3>3, PipesFit
    <3> QED
      BY <3>1, <3>2, <3>3
  <2> QED
    BY <1>4, <2>1, <2>2 DEF ReaderStep
<1>5. CASE \E t \in McpThreads : McpThreadStep(t)
  BY <1>5, ReceivesFit, TimeoutsFit, StoresFit DEF McpThreadStep
<1>6. CASE ServerAnswers \/ ServerNotifies
  BY <1>6, PipesFit
<1> QED
  BY <1>1, <1>3, <1>4, <1>5, <1>6 DEF McpNext

LEMMA McpInvSays == McpInv => McpInvariant
<1> SUFFICES ASSUME McpInv PROVE McpInvariant
  OBVIOUS
<1>1. McpTyped /\ RequestsFit /\ ToolsFit /\ EachAnswerOnce /\ AnswersLagByTimeouts
  BY DEF McpInv
<1>2. timeouts \in 0..MaxRequests
  <2>1. PICK k \in Nat, m \in Nat, p \in Nat : Pipeline(k, m, p)
    BY DEF McpInv
  <2>2. Cardinality(Awaited) \in Nat /\ Len(asked) \in Nat
    BY <1>1, AwaitedFits
  <2>3. k + timeouts + Cardinality(Awaited) = Len(asked) /\ timeouts \in Nat /\ Len(asked) <= MaxRequests
    BY <1>1, <2>1 DEF Pipeline, McpTyped
  <2> QED
    BY <2>2, <2>3, McpBounds
<1>3. McpTypeOK
  BY <1>1, <1>2 DEF McpTyped, McpTypeOK, ClientRecords
<1>4. ToolsKept
  BY <1>1 DEF ToolsFit, ToolsKept
<1> QED
  BY <1>1, <1>3, <1>4 DEF McpInvariant

\* MCPClient::sendRequest and receiveResponse, with any number of threads and
\* requests: although no answer carries an id that is looked at, each goes to one
\* request; while requests do not overlap it is too old by the requests that were
\* given up, and by no more; and the tools stay if none was given up.
THEOREM McpCorrect == McpSpec => []McpInvariant
<1>1. McpInit => McpInv
  BY McpStarts
<1>2. McpInv /\ [McpNext]_mcpVars => McpInv'
  BY McpKeeps
<1> QED
  BY <1>1, <1>2, McpInvSays, PTL DEF McpSpec
-----------------------------------------------------------------------------
(* AgentRegistry: messages, from the queue of an agent to its listeners.     *)

ListenerRecords ==
  [agent: Agents \cup {"none"}, held: {0} \cup Messages, heard: [Agents -> Seq(Messages)]]

Increasing(s) == \A i, j \in DOMAIN s : i < j => s[i] < s[j]
Elements(s) == {s[i] : i \in DOMAIN s}
Queued(s) == IF s = NoQueue THEN {} ELSE Elements(s)

\* What a listener has of an agent: it wrote it to its client, or is about to.
Got(r, a) == Elements(r.heard[a]) \cup {n \in Messages : n = r.held /\ r.agent = a}
HearsInOrder(r, a) ==
  /\ Increasing(r.heard[a])
  /\ r.agent = a /\ r.held # 0 => \A n \in Elements(r.heard[a]) : n < r.held

\* Messages are queued in the order in which they were sent; what a listener has is
\* older than what is queued, and no other has it.
MessagesFit ==
  /\ \A a \in Agents : Increasing(queue[a]) /\ \A n \in Queued(queue[a]) : n <= sent
  /\ \A a \in Agents, l \in Listeners :
       /\ HearsInOrder(listener[l], a)
       /\ \A n \in Got(listener[l], a) : n <= sent /\ \A m \in Queued(queue[a]) : n < m
       /\ \A k \in Listeners : k # l => Got(listener[k], a) \cap Got(listener[l], a) = {}
  /\ \A l \in Listeners : listener[l].held # 0 => listener[l].agent \in Agents \ {"none"}

MessagesTyped ==
  /\ queue \in [Agents -> {NoQueue} \cup Seq(Messages)]
  /\ listener \in [Listeners -> ListenerRecords]
  /\ sent \in 0..MaxMessages

LEMMA QueueKinds ==
  /\ Messages \subseteq Nat /\ 0 \notin Messages
  /\ <<>> # NoQueue /\ <<>> \in Seq(Messages)
  /\ \A q \in Seq(Messages) : q # NoQueue
<1>1. Messages \subseteq Nat /\ 0 \notin Messages
  BY RegistryBounds DEF Messages
<1>2. \A q \in Seq(Messages) : q # NoQueue
  <2> SUFFICES ASSUME NEW q \in Seq(Messages), q = NoQueue PROVE FALSE
    OBVIOUS
  <2>1. Len(q) = 1 /\ q[1] = 0
    BY DEF NoQueue
  <2>2. q[1] \in Messages
    BY <2>1, ElementOfSeq
  <2> QED
    BY <1>1, <2>1, <2>2
<1>3. <<>> \in Seq(Messages)
  BY EmptySeq
<1> QED
  BY <1>1, <1>2, <1>3

\* Queues lose messages, and listeners pass them on.
LEMMA MessagesLessen ==
  ASSUME MessagesFit, sent' = sent,
         \A a \in Agents : Increasing(queue'[a]) /\ Queued(queue'[a]) \subseteq Queued(queue[a]),
         \A a \in Agents, l \in Listeners :
           HearsInOrder(listener'[l], a) /\ Got(listener'[l], a) \subseteq Got(listener[l], a),
         \A l \in Listeners : listener'[l].held # 0 => listener'[l].agent \in Agents \ {"none"}
  PROVE  MessagesFit'
<1>1. \A a \in Agents : Increasing(queue'[a]) /\ \A n \in Queued(queue'[a]) : n <= sent
  BY DEF MessagesFit
<1>2. \A a \in Agents, l \in Listeners :
         /\ HearsInOrder(listener'[l], a)
         /\ \A n \in Got(listener'[l], a) : n <= sent /\ \A m \in Queued(queue'[a]) : n < m
         /\ \A k \in Listeners : k # l => Got(listener'[k], a) \cap Got(listener'[l], a) = {}
  BY DEF MessagesFit
<1>3. \A a \in Agents : (Increasing(queue[a]) /\ \A n \in Queued(queue[a]) : n <= sent)'
  BY <1>1 DEF Increasing, Queued, Elements
<1>4. \A a \in Agents, l \in Listeners :
        (/\ HearsInOrder(listener[l], a)
         /\ \A n \in Got(listener[l], a) : n <= sent /\ \A m \in Queued(queue[a]) : n < m
         /\ \A k \in Listeners : k # l => Got(listener[k], a) \cap Got(listener[l], a) = {})'
  BY <1>2 DEF Increasing, HearsInOrder, Got, Queued, Elements
<1> QED
  BY <1>3, <1>4 DEF MessagesFit

LEMMA IncreasingTail ==
  ASSUME NEW s \in Seq(Messages), s # <<>>, Increasing(s)
  PROVE  /\ Tail(s) \in Seq(Messages) /\ Head(s) \in Messages /\ Head(s) \in Elements(s)
         /\ Increasing(Tail(s)) /\ Elements(Tail(s)) \subseteq Elements(s)
         /\ \A n \in Elements(Tail(s)) : Head(s) < n
<1>1. /\ Tail(s) \in Seq(Messages) /\ Head(s) \in Messages
      /\ Len(Tail(s)) = Len(s) - 1 /\ \A i \in 1..Len(Tail(s)) : Tail(s)[i] = s[i + 1]
  BY HeadTailProperties
<1>2. Len(s) \in Nat \ {0} /\ DOMAIN s = 1..Len(s) /\ Head(s) = s[1]
  BY EmptySeq, LenProperties
<1>3. PICK q : q = Tail(s)
  OBVIOUS
<1>4. DOMAIN q = 1..(Len(s) - 1) /\ \A i \in 1..(Len(s) - 1) : q[i] = s[i + 1]
  BY <1>1, <1>2, <1>3, LenProperties
<1>5. \A i \in DOMAIN q : i \in Nat /\ i + 1 \in DOMAIN s /\ q[i] = s[i + 1] /\ 1 < i + 1 /\ 1 \in DOMAIN s
  BY <1>2, <1>4
<1>6. Increasing(q)
  <2> SUFFICES ASSUME NEW i \in DOMAIN q, NEW j \in DOMAIN q, i < j PROVE q[i] < q[j]
    BY DEF Increasing
  <2>1. i + 1 < j + 1
    BY <1>5
  <2> QED
    BY <1>5, <2>1 DEF Increasing
<1>7. /\ Elements(q) \subseteq Elements(s)
      /\ \A n \in Elements(q) : s[1] < n
      /\ s[1] \in Elements(s)
  BY <1>2, <1>5 DEF Elements, Increasing
<1> QED
  BY <1>1, <1>2, <1>3, <1>6, <1>7

LEMMA IncreasingAppend ==
  ASSUME NEW s \in Seq(Messages), NEW n \in Messages, Increasing(s), \A m \in Elements(s) : m < n
  PROVE  /\ Append(s, n) \in Seq(Messages)
         /\ Increasing(Append(s, n)) /\ Elements(Append(s, n)) = Elements(s) \cup {n}
<1>1. PICK q : q = Append(s, n)
  OBVIOUS
<1>2. q \in Seq(Messages)
  BY <1>1
<1>3. /\ Len(s) \in Nat /\ DOMAIN s = 1..Len(s) /\ DOMAIN q = 1..(Len(s) + 1)
      /\ \A i \in 1..Len(s) : q[i] = s[i]
      /\ q[Len(s) + 1] = n
  BY <1>1
<1>4. \A i \in DOMAIN q : i \in DOMAIN s \/ i = Len(s) + 1
  BY <1>3
<1>5. Increasing(q)
  <2> SUFFICES ASSUME NEW i \in DOMAIN q, NEW j \in DOMAIN q, i < j PROVE q[i] < q[j]
    BY DEF Increasing
  <2>1. i \in DOMAIN s
    BY <1>3
  <2>2. CASE j \in DOMAIN s
    BY <1>3, <2>1, <2>2 DEF Increasing
  <2>3. CASE j = Len(s) + 1
    BY <1>3, <2>1, <2>3 DEF Elements
  <2> QED
    BY <1>4, <2>2, <2>3
<1>6. Elements(q) = Elements(s) \cup {n}
  <2>1. \A i \in DOMAIN s : i \in DOMAIN q /\ q[i] = s[i]
    BY <1>3
  <2>2. Len(s) + 1 \in DOMAIN q
    BY <1>3
  <2> QED
    BY <1>3, <1>4, <2>1, <2>2 DEF Elements
<1> QED
  BY <1>1, <1>2, <1>5, <1>6

LEMMA IncreasingRest ==
  ASSUME NEW s \in Seq(Messages), NEW n \in 1..Len(s), Increasing(s)
  PROVE  /\ SubSeq(s, n + 1, Len(s)) \in Seq(Messages)
         /\ Increasing(SubSeq(s, n + 1, Len(s)))
         /\ Elements(SubSeq(s, n + 1, Len(s))) \subseteq Elements(s)
<1>1. PICK q : q = SubSeq(s, n + 1, Len(s))
  OBVIOUS
<1>2. Len(s) \in Nat /\ DOMAIN s = 1..Len(s)
  BY LenProperties
<1>3. \A i \in (n + 1)..Len(s) : s[i] \in Messages
  BY <1>2, ElementOfSeq
<1>4. /\ q \in Seq(Messages) /\ Len(q) = Len(s) - n
      /\ \A i \in 1..(Len(s) - n) : q[i] = s[n + i]
  <2>1. PICK z \in Nat : z = Len(s)
    BY <1>2
  <2>2. n \in Int /\ n + 1 \in Int /\ z \in Int /\ n <= z /\ 1 <= n
    BY <2>1
  <2>3. /\ q \in Seq(Messages)
        /\ Len(q) = IF n + 1 <= z THEN z - (n + 1) + 1 ELSE 0
        /\ \A i \in 1..(z - (n + 1) + 1) : q[i] = s[(n + 1) + i - 1]
    BY <1>1, <1>3, <2>1, <2>2, SubSeqProperties
  <2>4. Len(q) = z - n
    <3>1. CASE n + 1 <= z
      BY <2>2, <2>3, <3>1
    <3>2. CASE ~(n + 1 <= z)
      BY <2>2, <2>3, <3>2
    <3> QED
      BY <3>1, <3>2
  <2>5. \A i \in 1..(z - n) : q[i] = s[n + i]
    <3>1. z - (n + 1) + 1 = z - n /\ \A i \in Int : (n + 1) + i - 1 = n + i
      BY <2>2
    <3> QED
      BY <2>2, <2>3, <3>1
  <2> QED
    BY <2>1, <2>3, <2>4, <2>5
<1>5. DOMAIN q = 1..(Len(s) - n)
  BY <1>4, LenProperties
<1>6. \A i \in DOMAIN q : i \in Nat /\ n + i \in DOMAIN s /\ q[i] = s[n + i]
  BY <1>2, <1>4, <1>5
<1>7. Increasing(q)
  <2> SUFFICES ASSUME NEW i \in DOMAIN q, NEW j \in DOMAIN q, i < j PROVE q[i] < q[j]
    BY DEF Increasing
  <2>1. n + i < n + j
    BY <1>2, <1>6
  <2> QED
    BY <1>6, <2>1 DEF Increasing
<1>8. Elements(q) \subseteq Elements(s)
  BY <1>6 DEF Elements
<1> QED
  BY <1>1, <1>4, <1>7, <1>8

\* The messages of an agent wait, are emptied away, or have no queue to wait in.
LEMMA QueuesLessen ==
  ASSUME MessagesTyped, MessagesFit, UNCHANGED <<listener, sent>>, queue' \in [Agents -> {NoQueue} \cup Seq(Messages)],
         \A a \in Agents : queue'[a] \in {queue[a], NoQueue, <<>>}
  PROVE  MessagesTyped' /\ MessagesFit'
<1>1. MessagesTyped'
  BY DEF MessagesTyped
<1>2. \A a \in Agents : Increasing(queue'[a]) /\ Queued(queue'[a]) \subseteq Queued(queue[a])
  <2> SUFFICES ASSUME NEW a \in Agents
               PROVE  Increasing(queue'[a]) /\ Queued(queue'[a]) \subseteq Queued(queue[a])
    OBVIOUS
  <2>1. PICK q : q = queue'[a]
    OBVIOUS
  <2>2. q = queue[a] \/ q = NoQueue \/ q = <<>>
    BY <2>1
  <2>3. Increasing(q) /\ Queued(q) \subseteq Queued(queue[a])
    <3>1. CASE q = queue[a]
      BY <3>1 DEF MessagesFit
    <3>2. CASE q = NoQueue
      BY <3>2 DEF Queued, Increasing, NoQueue
    <3>3. CASE q = <<>>
      BY <3>3 DEF Queued, Increasing, Elements
    <3> QED
      BY <2>2, <3>1, <3>2, <3>3
  <2> QED
    BY <2>1, <2>3
<1>3. \A a \in Agents, l \in Listeners :
        HearsInOrder(listener'[l], a) /\ Got(listener'[l], a) \subseteq Got(listener[l], a)
  BY DEF MessagesFit
<1>4. \A l \in Listeners : listener'[l].held # 0 => listener'[l].agent \in Agents \ {"none"}
  BY DEF MessagesFit
<1> QED
  BY <1>1, <1>2, <1>3, <1>4, MessagesLessen

\* Listeners that stop, or start, lose what they held, and have what they wrote.
LEMMA ListenersLessen ==
  ASSUME MessagesTyped, MessagesFit, UNCHANGED sent, listener' \in [Listeners -> ListenerRecords],
         queue' \in [Agents -> {NoQueue} \cup Seq(Messages)],
         \A a \in Agents : Increasing(queue'[a]) /\ Queued(queue'[a]) \subseteq Queued(queue[a]),
         \A l \in Listeners : \/ listener'[l] = listener[l]
                              \/ listener'[l].held = 0 /\ listener'[l].heard = listener[l].heard
  PROVE  MessagesTyped' /\ MessagesFit'
<1>1. MessagesTyped'
  BY DEF MessagesTyped
<1>2. \A a \in Agents, l \in Listeners :
        HearsInOrder(listener'[l], a) /\ Got(listener'[l], a) \subseteq Got(listener[l], a)
  <2> SUFFICES ASSUME NEW a \in Agents, NEW l \in Listeners
               PROVE  HearsInOrder(listener'[l], a) /\ Got(listener'[l], a) \subseteq Got(listener[l], a)
    OBVIOUS
  <2>1. PICK r : r = listener'[l]
    OBVIOUS
  <2>2. r = listener[l] \/ (r.held = 0 /\ r.heard = listener[l].heard)
    BY <2>1
  <2>3. HearsInOrder(listener[l], a)
    BY DEF MessagesFit
  <2>4. HearsInOrder(r, a) /\ Got(r, a) \subseteq Got(listener[l], a)
    <3>1. CASE r = listener[l]
      BY <2>3, <3>1
    <3>2. CASE r.held = 0 /\ r.heard = listener[l].heard
      BY <2>3, <3>2, QueueKinds DEF HearsInOrder, Got
    <3> QED
      BY <2>2, <3>1, <3>2
  <2> QED
    BY <2>1, <2>4
<1>3. \A l \in Listeners : listener'[l].held # 0 => listener'[l].agent \in Agents \ {"none"}
  BY DEF MessagesFit
<1> QED
  BY <1>1, <1>2, <1>3, MessagesLessen

LEMMA PushFits ==
  ASSUME MessagesTyped, MessagesFit, NEW targets \in SUBSET Agents, Push(targets)
  PROVE  /\ MessagesTyped' /\ MessagesFit' /\ UNCHANGED messaging
         /\ \A a \in Agents : queue'[a] = NoQueue <=> queue[a] = NoQueue
<1>1. PICK n : n = sent + 1
  OBVIOUS
<1>2. /\ sent \in Nat /\ n \in Messages /\ n \in Nat /\ sent' = n /\ sent' \in 0..MaxMessages
      /\ UNCHANGED listener /\ UNCHANGED messaging
      /\ queue' = [a \in Agents |-> IF a \in targets /\ queue[a] # NoQueue
                                    THEN Append(queue[a], n) ELSE queue[a]]
  BY <1>1, RegistryBounds DEF Push, MessagesTyped, Messages
<1>3. ASSUME NEW a \in Agents
      PROVE  /\ queue'[a] \in {NoQueue} \cup Seq(Messages) /\ Increasing(queue'[a])
             /\ queue'[a] = NoQueue <=> queue[a] = NoQueue
             /\ Queued(queue'[a]) \subseteq Queued(queue[a]) \cup {n}
  <2>1. PICK q \in {NoQueue} \cup Seq(Messages) : q = queue[a]
    BY DEF MessagesTyped
  <2>2. Increasing(q) /\ \A m \in Queued(q) : m <= sent
    BY <2>1 DEF MessagesFit
  <2>3. CASE a \in targets /\ q # NoQueue
    <3>1. q \in Seq(Messages) /\ Elements(q) = Queued(q)
      BY <2>1, <2>3 DEF Queued
    <3>2. \A m \in Elements(q) : m \in Messages
      BY <3>1, ElementOfSeq, LenProperties DEF Elements
    <3>3. \A m \in Elements(q) : m < n
      <4>1. \A m \in Elements(q) : m \in Nat /\ m <= sent
        BY <2>2, <3>1, <3>2, QueueKinds
      <4> QED
        BY <1>1, <1>2, <4>1
    <3>4. /\ Append(q, n) \in Seq(Messages) /\ Increasing(Append(q, n))
          /\ Elements(Append(q, n)) = Elements(q) \cup {n}
      BY <1>2, <2>2, <3>1, <3>3, IncreasingAppend
    <3>5. Append(q, n) # NoQueue
      BY <3>4, QueueKinds
    <3>6. queue'[a] = Append(q, n)
      BY <1>2, <2>1, <2>3
    <3>7. Queued(Append(q, n)) = Queued(q) \cup {n}
      BY <3>1, <3>4, <3>5 DEF Queued
    <3> QED
      BY <2>1, <2>3, <3>4, <3>5, <3>6, <3>7
  <2>4. CASE ~(a \in targets /\ q # NoQueue)
    <3>1. queue'[a] = q
      BY <1>2, <2>1, <2>4
    <3> QED
      BY <2>1, <2>2, <3>1
  <2> QED
    BY <2>3, <2>4
<1>4. MessagesTyped'
  BY <1>2, <1>3 DEF MessagesTyped
<1>5. /\ \A a \in Agents : \A m \in Queued(queue[a]) : m \in Nat /\ m <= sent
      /\ \A a \in Agents, l \in Listeners : \A m \in Got(listener[l], a) : m \in Nat /\ m <= sent
  <2>1. \A a \in Agents : \A m \in Queued(queue[a]) : m \in Nat
    BY QueueKinds, ElementOfSeq, LenProperties DEF MessagesTyped, Queued, Elements
  <2>2. ASSUME NEW a \in Agents, NEW l \in Listeners, NEW m \in Got(listener[l], a) PROVE m \in Nat
    <3>1. listener[l].heard[a] \in Seq(Messages)
      BY DEF MessagesTyped, ListenerRecords
    <3>2. \A i \in DOMAIN listener[l].heard[a] : listener[l].heard[a][i] \in Messages
      BY <3>1, ElementOfSeq, LenProperties
    <3> QED
      BY <2>2, <3>2, QueueKinds DEF Got, Elements
  <2> QED
    BY <2>1, <2>2 DEF MessagesFit
<1>6. MessagesFit'
  <2>1. \A a \in Agents : Increasing(queue'[a]) /\ \A m \in Queued(queue'[a]) : m <= n
    <3> SUFFICES ASSUME NEW a \in Agents, NEW m \in Queued(queue'[a]) PROVE m <= n
      BY <1>3
    <3>1. CASE m = n
      BY <1>2, <3>1
    <3>2. CASE m \in Queued(queue[a])
      BY <1>1, <1>2, <1>5, <3>2
    <3> QED
      BY <1>3, <3>1, <3>2
  <2>2. \A a \in Agents, l \in Listeners :
          \A m \in Got(listener[l], a) : m <= n /\ \A i \in Queued(queue'[a]) : m < i
    <3> SUFFICES ASSUME NEW a \in Agents, NEW l \in Listeners, NEW m \in Got(listener[l], a)
                 PROVE  m <= n /\ \A i \in Queued(queue'[a]) : m < i
      OBVIOUS
    <3>1. m \in Nat /\ m <= sent
      BY <1>5
    <3>2. m <= n /\ m < n
      BY <1>1, <1>2, <3>1
    <3>3. \A i \in Queued(queue[a]) : m < i
      BY DEF MessagesFit
    <3> QED
      BY <1>3, <3>2, <3>3
  <2>3. \A a \in Agents : (Increasing(queue[a]) /\ \A m \in Queued(queue[a]) : m <= sent)'
    BY <1>2, <2>1 DEF Increasing, Queued, Elements
  <2>4. \A a \in Agents, l \in Listeners :
          (\A m \in Got(listener[l], a) : m <= sent /\ \A i \in Queued(queue[a]) : m < i)'
    BY <1>2, <2>2 DEF Got, Queued, Elements
  <2>5. \A a \in Agents, l \in Listeners :
          (/\ HearsInOrder(listener[l], a)
           /\ \A k \in Listeners : k # l => Got(listener[k], a) \cap Got(listener[l], a) = {})'
    <3>1. \A a \in Agents, l \in Listeners :
            /\ HearsInOrder(listener[l], a)
            /\ \A k \in Listeners : k # l => Got(listener[k], a) \cap Got(listener[l], a) = {}
      BY DEF MessagesFit
    <3> QED
      BY <1>2, <3>1 DEF Got, HearsInOrder, Increasing, Elements
  <2> QED
    BY <1>2, <2>3, <2>4, <2>5 DEF MessagesFit
<1> QED
  BY <1>2, <1>3, <1>4, <1>6

\* The message at the front is newer than what anyone has of the agent.
LEMMA TakeFits ==
  ASSUME MessagesTyped, MessagesFit, NEW l \in Listeners, Take(l)
  PROVE  /\ MessagesTyped' /\ MessagesFit' /\ UNCHANGED messaging
         /\ \A a \in Agents : queue'[a] = NoQueue <=> queue[a] = NoQueue
<1>1. PICK r \in ListenerRecords : r = listener[l]
  BY DEF MessagesTyped
<1>2. PICK b : b = r.agent
  OBVIOUS
<1>3. b # "none" /\ b \in Agents /\ r.held = 0
  BY <1>1, <1>2 DEF Take, ListenerRecords
<1>4. PICK q : q = queue[b]
  OBVIOUS
<1>5. q # <<>> /\ q # NoQueue /\ q \in Seq(Messages)
  BY <1>1, <1>2, <1>3, <1>4 DEF Take, MessagesTyped
<1>6. PICK h : h = Head(q)
  OBVIOUS
<1>7. PICK z : z = [r EXCEPT !.held = h]
  OBVIOUS
<1>8. /\ listener' = [listener EXCEPT ![l] = z] /\ queue' = [queue EXCEPT ![b] = Tail(q)]
      /\ sent' = sent /\ UNCHANGED messaging
  BY <1>1, <1>2, <1>4, <1>6, <1>7 DEF Take
<1>9. /\ Tail(q) \in Seq(Messages) /\ h \in Messages /\ h \in Elements(q)
      /\ Increasing(Tail(q)) /\ Elements(Tail(q)) \subseteq Elements(q)
      /\ \A n \in Elements(Tail(q)) : h < n
  <2>1. Increasing(q)
    BY <1>3, <1>4 DEF MessagesFit
  <2> QED
    BY <1>5, <1>6, <2>1, IncreasingTail
<1>10. Queued(q) = Elements(q) /\ Queued(Tail(q)) = Elements(Tail(q)) /\ Tail(q) # NoQueue
  BY <1>5, <1>9, QueueKinds DEF Queued
<1>11. z \in ListenerRecords /\ z.held = h /\ z.agent = b /\ z.heard = r.heard
  BY <1>2, <1>7, <1>9 DEF ListenerRecords
<1>12. /\ listener' \in [Listeners -> ListenerRecords] /\ listener'[l] = z
       /\ \A k \in Listeners : k # l => listener'[k] = listener[k]
       /\ queue' \in [Agents -> {NoQueue} \cup Seq(Messages)] /\ queue'[b] = Tail(q)
       /\ \A a \in Agents : a # b => queue'[a] = queue[a]
  BY <1>3, <1>8, <1>9, <1>11 DEF MessagesTyped
<1>13. MessagesTyped'
  BY <1>8, <1>12 DEF MessagesTyped
<1>14. \A a \in Agents : queue'[a] = NoQueue <=> queue[a] = NoQueue
  BY <1>4, <1>5, <1>10, <1>12
<1>15. /\ \A a \in Agents : a # b => Got(z, a) = Got(r, a)
       /\ Got(z, b) = Got(r, b) \cup {h} /\ Elements(r.heard[b]) \subseteq Got(r, b)
  BY <1>1, <1>2, <1>3, <1>9, <1>11, QueueKinds DEF Got
<1>16. \A k \in Listeners : \A n \in Got(listener[k], b) : n < h
  BY <1>3, <1>4, <1>9, <1>10 DEF MessagesFit
<1>17. h <= sent /\ h \in Nat
  BY <1>3, <1>4, <1>9, <1>10, QueueKinds DEF MessagesFit
<1>18. \A a \in Agents : Increasing(queue'[a]) /\ \A n \in Queued(queue'[a]) : n <= sent
  BY <1>4, <1>9, <1>10, <1>12 DEF MessagesFit
<1>19. \A a \in Agents : Queued(queue'[a]) \subseteq Queued(queue[a])
  BY <1>4, <1>9, <1>10, <1>12
<1>20. ASSUME NEW a \in Agents
       PROVE  HearsInOrder(z, a) /\ \A n \in Got(z, a) : n <= sent /\ \A m \in Queued(queue'[a]) : n < m
  <2>1. /\ HearsInOrder(r, a)
        /\ \A n \in Got(r, a) : n <= sent /\ \A m \in Queued(queue'[a]) : n < m
    BY <1>1, <1>19 DEF MessagesFit
  <2>2. HearsInOrder(z, a)
    BY <1>1, <1>11, <1>15, <1>16, <2>1 DEF HearsInOrder
  <2>3. a = b => \A m \in Queued(queue'[a]) : h < m
    BY <1>9, <1>10, <1>12
  <2> QED
    BY <1>15, <1>17, <2>1, <2>2, <2>3
<1>21. ASSUME NEW a \in Agents, NEW k \in Listeners, k # l
       PROVE  Got(listener[k], a) \cap Got(z, a) = {}
  <2>1. Got(listener[k], a) \cap Got(r, a) = {}
    BY <1>1, <1>21 DEF MessagesFit
  <2>2. h \notin Got(listener[k], b)
    BY <1>16, <1>17
  <2> QED
    BY <1>15, <2>1, <2>2
<1>22. \A a \in Agents, k \in Listeners :
         /\ HearsInOrder(listener'[k], a)
         /\ \A n \in Got(listener'[k], a) : n <= sent /\ \A m \in Queued(queue'[a]) : n < m
         /\ \A j \in Listeners : j # k => Got(listener'[j], a) \cap Got(listener'[k], a) = {}
  <2> SUFFICES ASSUME NEW a \in Agents, NEW k \in Listeners
               PROVE  /\ HearsInOrder(listener'[k], a)
                      /\ \A n \in Got(listener'[k], a) : n <= sent /\ \A m \in Queued(queue'[a]) : n < m
                      /\ \A j \in Listeners : j # k => Got(listener'[j], a) \cap Got(listener'[k], a) = {}
    OBVIOUS
  <2>1. CASE k = l
    BY <1>12, <1>20, <1>21, <2>1
  <2>2. CASE k # l
    <3>1. \A n \in Got(listener[k], a) : n <= sent /\ \A m \in Queued(queue'[a]) : n < m
      BY <1>19 DEF MessagesFit
    <3>2. \A j \in Listeners : j # k => Got(listener'[j], a) \cap Got(listener[k], a) = {}
      BY <1>12, <1>21, <2>2 DEF MessagesFit
    <3> QED
      BY <1>12, <2>2, <3>1, <3>2 DEF MessagesFit
  <2> QED
    BY <2>1, <2>2
<1>23. MessagesFit'
  <2>1. \A a \in Agents : (Increasing(queue[a]) /\ \A n \in Queued(queue[a]) : n <= sent)'
    BY <1>8, <1>18 DEF Increasing, Queued, Elements
  <2>2. \A a \in Agents, k \in Listeners :
          (/\ HearsInOrder(listener[k], a)
           /\ \A n \in Got(listener[k], a) : n <= sent /\ \A m \in Queued(queue[a]) : n < m
           /\ \A j \in Listeners : j # k => Got(listener[j], a) \cap Got(listener[k], a) = {})'
    BY <1>8, <1>22 DEF Increasing, HearsInOrder, Got, Queued, Elements
  <2>3. \A k \in Listeners : (listener[k].held # 0 => listener[k].agent \in Agents \ {"none"})'
    BY <1>3, <1>11, <1>12 DEF MessagesFit
  <2> QED
    BY <2>1, <2>2, <2>3 DEF MessagesFit
<1> QED
  BY <1>8, <1>13, <1>14, <1>23

LEMMA DeliverFits ==
  ASSUME MessagesTyped, MessagesFit, NEW l \in Listeners, Deliver(l)
  PROVE  /\ MessagesTyped' /\ MessagesFit' /\ UNCHANGED messaging /\ queue' = queue
<1>1. PICK r \in ListenerRecords : r = listener[l]
  BY DEF MessagesTyped
<1>2. PICK b : b = r.agent
  OBVIOUS
<1>3. PICK h : h = r.held
  OBVIOUS
<1>4. h # 0 /\ h \in Messages /\ b \in Agents
  BY <1>1, <1>2, <1>3 DEF Deliver, ListenerRecords, MessagesFit
<1>5. PICK s : s = r.heard[b]
  OBVIOUS
<1>6. PICK heard : heard = [r.heard EXCEPT ![b] = Append(s, h)]
  OBVIOUS
<1>7. PICK z : z = [r EXCEPT !.held = 0, !.heard = heard]
  OBVIOUS
<1>8. /\ listener' = [listener EXCEPT ![l] = z]
      /\ queue' = queue /\ sent' = sent /\ UNCHANGED messaging
  BY <1>1, <1>2, <1>3, <1>5, <1>6, <1>7 DEF Deliver
<1>9. s \in Seq(Messages) /\ r.heard \in [Agents -> Seq(Messages)]
  BY <1>4, <1>5 DEF ListenerRecords
<1>10. /\ Append(s, h) \in Seq(Messages) /\ Increasing(Append(s, h))
       /\ Elements(Append(s, h)) = Elements(s) \cup {h}
  <2>1. Increasing(s) /\ \A m \in Elements(s) : m < h
    BY <1>1, <1>2, <1>3, <1>4, <1>5 DEF MessagesFit, HearsInOrder
  <2> QED
    BY <1>4, <1>9, <2>1, IncreasingAppend
<1>11. /\ heard \in [Agents -> Seq(Messages)] /\ heard[b] = Append(s, h)
       /\ \A a \in Agents : a # b => heard[a] = r.heard[a]
  BY <1>4, <1>6, <1>9, <1>10
<1>12. z \in ListenerRecords /\ z.held = 0 /\ z.agent = b /\ z.heard = heard
  BY <1>2, <1>7, <1>11 DEF ListenerRecords
<1>13. /\ listener' \in [Listeners -> ListenerRecords] /\ listener'[l] = z
       /\ \A k \in Listeners : k # l => listener'[k] = listener[k]
  BY <1>8, <1>12 DEF MessagesTyped
<1>14. ASSUME NEW a \in Agents
       PROVE  HearsInOrder(z, a) /\ Got(z, a) \subseteq Got(r, a)
  <2>1. HearsInOrder(r, a)
    BY <1>1 DEF MessagesFit
  <2>2. CASE a = b
    BY <1>2, <1>3, <1>4, <1>5, <1>10, <1>11, <1>12, <2>2, QueueKinds DEF HearsInOrder, Got
  <2>3. CASE a # b
    BY <1>11, <1>12, <2>1, <2>3, QueueKinds DEF HearsInOrder, Got
  <2> QED
    BY <2>2, <2>3
<1>15. \A a \in Agents, k \in Listeners :
         HearsInOrder(listener'[k], a) /\ Got(listener'[k], a) \subseteq Got(listener[k], a)
  <2> SUFFICES ASSUME NEW a \in Agents, NEW k \in Listeners
               PROVE  HearsInOrder(listener'[k], a) /\ Got(listener'[k], a) \subseteq Got(listener[k], a)
    OBVIOUS
  <2>1. CASE k = l
    BY <1>1, <1>13, <1>14, <2>1
  <2>2. CASE k # l
    BY <1>13, <2>2 DEF MessagesFit
  <2> QED
    BY <2>1, <2>2
<1>16. \A k \in Listeners : listener'[k].held # 0 => listener'[k].agent \in Agents \ {"none"}
  BY <1>12, <1>13 DEF MessagesFit
<1>17. \A a \in Agents : Increasing(queue'[a]) /\ Queued(queue'[a]) \subseteq Queued(queue[a])
  BY <1>8 DEF MessagesFit
<1>18. MessagesFit'
  BY <1>8, <1>15, <1>16, <1>17, MessagesLessen
<1>19. MessagesTyped'
  BY <1>8, <1>13 DEF MessagesTyped
<1> QED
  BY <1>8, <1>18, <1>19

LEMMA ReceiveFits ==
  ASSUME MessagesTyped, MessagesFit, NEW a \in Agents, ReceiveMessage(a)
  PROVE  /\ MessagesTyped' /\ MessagesFit' /\ UNCHANGED messaging
         /\ \A b \in Agents : queue'[b] = NoQueue <=> queue[b] = NoQueue
<1>1. PICK q : q = queue[a]
  OBVIOUS
<1>2. q # NoQueue /\ q \in Seq(Messages) /\ UNCHANGED messaging /\ UNCHANGED <<listener, sent>>
  BY <1>1 DEF ReceiveMessage, MessagesTyped
<1>3. PICK n \in 1..Len(q) : queue' = [queue EXCEPT ![a] = SubSeq(q, n + 1, Len(q))]
  BY <1>1 DEF ReceiveMessage
<1>4. PICK rest : rest = SubSeq(q, n + 1, Len(q))
  OBVIOUS
<1>5. rest \in Seq(Messages) /\ Increasing(rest) /\ Elements(rest) \subseteq Elements(q)
  <2>1. Increasing(q)
    BY <1>1 DEF MessagesFit
  <2> QED
    BY <1>2, <1>3, <1>4, <2>1, IncreasingRest
<1>6. rest # NoQueue /\ Queued(rest) \subseteq Queued(q)
  BY <1>2, <1>5, QueueKinds DEF Queued
<1>7. /\ queue' \in [Agents -> {NoQueue} \cup Seq(Messages)] /\ queue'[a] = rest
      /\ \A b \in Agents : b # a => queue'[b] = queue[b]
  BY <1>3, <1>4, <1>5 DEF MessagesTyped
<1>8. \A b \in Agents : Increasing(queue'[b]) /\ Queued(queue'[b]) \subseteq Queued(queue[b])
  BY <1>1, <1>5, <1>6, <1>7 DEF MessagesFit
<1>9. listener' \in [Listeners -> ListenerRecords]
  BY <1>2 DEF MessagesTyped
<1>10. MessagesTyped' /\ MessagesFit'
  BY <1>2, <1>7, <1>8, <1>9, ListenersLessen
<1> QED
  BY <1>1, <1>2, <1>6, <1>7, <1>10

LEMMA ListenFits ==
  ASSUME MessagesTyped, MessagesFit, NEW l \in Listeners, ListenMessages(l) \/ StopListening(l)
  PROVE  MessagesTyped' /\ MessagesFit' /\ UNCHANGED messaging /\ queue' = queue
<1>1. PICK r \in ListenerRecords : r = listener[l]
  BY DEF MessagesTyped
<1>2. queue' = queue /\ sent' = sent /\ UNCHANGED messaging
  BY DEF ListenMessages, StopListening
<1>3. PICK z : /\ z \in ListenerRecords /\ listener' = [listener EXCEPT ![l] = z]
               /\ z.heard = r.heard
               /\ z.held = 0
  <2>1. CASE ListenMessages(l)
    <3>1. PICK a \in Agents : listener' = [listener EXCEPT ![l].agent = a]
      BY <2>1 DEF ListenMessages
    <3>2. r.agent = "none"
      BY <1>1, <2>1 DEF ListenMessages
    <3>3. PICK z : z = [r EXCEPT !.agent = a]
      OBVIOUS
    <3>4. z \in ListenerRecords /\ z.heard = r.heard /\ z.held = r.held /\ z.agent = a
      BY <3>3 DEF ListenerRecords
    <3>5. listener' = [listener EXCEPT ![l] = z]
      BY <1>1, <3>1, <3>3
    <3>6. r.held = 0
      BY <1>1, <3>2, <2>1 DEF MessagesFit
    <3> QED
      BY <3>4, <3>5, <3>6
  <2>2. CASE StopListening(l)
    <3>1. PICK z : z = [r EXCEPT !.agent = "none", !.held = 0]
      OBVIOUS
    <3>2. z \in ListenerRecords /\ z.heard = r.heard /\ z.held = 0
      BY <3>1 DEF ListenerRecords
    <3>3. listener' = [listener EXCEPT ![l] = z]
      BY <1>1, <2>2, <3>1 DEF StopListening
    <3> QED
      BY <3>2, <3>3
  <2> QED
    BY <2>1, <2>2
<1>4. /\ listener' \in [Listeners -> ListenerRecords]
      /\ \A k \in Listeners : \/ listener'[k] = listener[k]
                              \/ listener'[k].held = 0 /\ listener'[k].heard = listener[k].heard
  BY <1>1, <1>3 DEF MessagesTyped
<1>5. queue' \in [Agents -> {NoQueue} \cup Seq(Messages)]
  BY <1>2 DEF MessagesTyped
<1>6. \A a \in Agents : Increasing(queue'[a]) /\ Queued(queue'[a]) \subseteq Queued(queue[a])
  BY <1>2 DEF MessagesFit
<1>7. MessagesTyped' /\ MessagesFit'
  BY <1>2, <1>4, <1>5, <1>6, ListenersLessen
<1> QED
  BY <1>2, <1>7

-----------------------------------------------------------------------------
(* AgentRegistry: the copies of an agent, and the calls that change them.    *)

AgentsTyped ==
  /\ alive \in [Agents -> BOOLEAN]
  /\ agents \in [Agents -> Endpoints]
  /\ index \in [Skills -> SUBSET Agents]
  /\ health \in [Agents -> {"none", "healthy", "offline"}]
  /\ route \in [Agents -> Routes]
  /\ handling \in [Callers -> Handlings]
  /\ beat \in [Agents -> {"idle", "row"}]
  /\ torn \in [Agents -> BOOLEAN]
  /\ faults \in 0..MaxFaults /\ restarts \in 0..MaxRestarts
QueuesKept == \A a \in Agents : Known(a) <=> queue[a] # NoQueue

\* What memory holds of an agent once the first step of a call is done.
Written(e, r) ==
  IF r.op = "register" THEN e.known /\ e.skills = r.skills ELSE e = Nothing

\* Unless calls overlapped or were cleaned up halfway: one call for an agent at a time;
\* from its first step on, memory holds what the call is about to tell the router.
RouteFits(a) ==
  ~torn[a] =>
    /\ \A c, d \in CallsFor(a) : c = d
    /\ \A c \in CallsFor(a) : handling[c].step # "memory" => Written(agents[a], handling[c])
    /\ Quiet(a) => route[a] = [skills |-> agents[a].skills, known |-> agents[a].known]
RoutesFit == \A a \in Agents : RouteFits(a)

CopiesFit == AgentsTyped /\ QueuesKept /\ SearchFindsAll
RegistryInv == MessagesTyped /\ MessagesFit /\ CopiesFit

LEMMA RegistryInvTypes == MessagesTyped /\ AgentsTyped /\ QueuesKept => RegistryTypeOK
BY Zenon DEF MessagesTyped, AgentsTyped, QueuesKept, RegistryTypeOK, ListenerRecords

RegisterRecords == [op: {"register"}, agent: Agents, step: CallSteps, skills: Profiles]
UnregisterRecords == [op: {"unregister"}, agent: Agents, step: CallSteps]
CallRecords == UnregisterRecords \cup RegisterRecords

LEMMA CallKinds ==
  /\ Handlings = {NoCall} \cup CallRecords
  /\ \A r \in CallRecords : r # NoCall
  /\ Nothing \in Endpoints /\ NoRoute \in Routes
<1>1. ASSUME NEW r \in CallRecords PROVE r # NoCall
  <2>1. r.op # "none" /\ NoCall.op = "none"
    BY DEF CallRecords, RegisterRecords, UnregisterRecords, NoCall
  <2> QED
    BY <2>1
<1>2. Handlings = {NoCall} \cup CallRecords
  BY DEF Handlings, CallRecords, RegisterRecords, UnregisterRecords
<1> QED
  BY <1>1, <1>2 DEF Endpoints, Routes

\* The transaction on the table, whether it works or not.
LEMMA Writing ==
  ASSUME AgentsTyped, NEW a \in Agents, NEW status \in {"none", "healthy", "offline"}, Write(a, status)
  PROVE  health' \in [Agents -> {"none", "healthy", "offline"}] /\ faults' \in 0..MaxFaults
BY RegistryBounds DEF AgentsTyped, Write

\* A call that goes on is the same call.
LEMMA Proceeding ==
  ASSUME handling \in [Callers -> Handlings], NEW c \in Callers, handling[c] # NoCall,
         NEW step \in CallSteps, Proceeds(c, step)
  PROVE  /\ handling' \in [Callers -> Handlings]
         /\ handling[c].agent \in Agents
         /\ handling'[c] # NoCall /\ handling'[c].op = handling[c].op
         /\ handling'[c].agent = handling[c].agent /\ handling'[c].step = step
         /\ handling[c].op = "register" =>
              handling[c].skills \in Profiles /\ handling'[c].skills = handling[c].skills
         /\ \A d \in Callers : d # c => handling'[d] = handling[d]
         /\ \A a \in Agents : CallsFor(a)' = CallsFor(a)
<1>1. PICK r \in CallRecords : r = handling[c]
  BY CallKinds
<1>2. PICK z : z = [r EXCEPT !.step = step]
  OBVIOUS
<1>3. /\ z \in CallRecords /\ z.op = r.op /\ z.agent = r.agent /\ z.step = step /\ r.agent \in Agents
      /\ r.op = "register" => z.skills = r.skills /\ r.skills \in Profiles
  <2>1. CASE r \in RegisterRecords
    BY <1>2, <2>1 DEF CallRecords, RegisterRecords
  <2>2. CASE r \in UnregisterRecords
    BY <1>2, <2>2 DEF CallRecords, UnregisterRecords
  <2> QED
    BY <2>1, <2>2 DEF CallRecords
<1>4. handling' = [handling EXCEPT ![c] = z]
  BY <1>1, <1>2 DEF Proceeds
<1>5. /\ handling' \in [Callers -> Handlings] /\ handling'[c] = z
      /\ \A d \in Callers : d # c => handling'[d] = handling[d]
  BY <1>3, <1>4, CallKinds
<1>6. z # NoCall
  BY <1>3, CallKinds
<1>7. \A a \in Agents : CallsFor(a)' = CallsFor(a)
  BY <1>1, <1>3, <1>5, <1>6, CallKinds DEF CallsFor
<1> QED
  BY <1>1, <1>3, <1>5, <1>6, <1>7

LEMMA Returning ==
  ASSUME handling \in [Callers -> Handlings], NEW c \in Callers, handling[c] # NoCall, Returns(c)
  PROVE  /\ handling' \in [Callers -> Handlings]
         /\ handling[c].agent \in Agents
         /\ handling[c].op = "register" => handling[c].skills \in Profiles
         /\ \A d \in Callers : d # c => handling'[d] = handling[d]
         /\ \A a \in Agents : CallsFor(a)' = CallsFor(a) \ {c}
<1>1. PICK r \in CallRecords : r = handling[c]
  BY CallKinds
<1>2. r.agent \in Agents /\ (r.op = "register" => r.skills \in Profiles)
  BY DEF CallRecords, RegisterRecords, UnregisterRecords
<1>3. /\ handling' \in [Callers -> Handlings] /\ handling'[c] = NoCall
      /\ \A d \in Callers : d # c => handling'[d] = handling[d]
  BY CallKinds DEF Returns
<1>4. \A a \in Agents : CallsFor(a)' = CallsFor(a) \ {c}
  BY <1>3 DEF CallsFor
<1> QED
  BY <1>1, <1>2, <1>3, <1>4

\* The routes of the agents that a step does not touch.
LEMMA RouteKept ==
  ASSUME NEW a \in Agents, RouteFits(a), CallsFor(a)' = CallsFor(a),
         \A c \in CallsFor(a) : handling'[c] = handling[c], agents'[a] = agents[a], route'[a] = route[a],
         torn[a] => torn'[a]
  PROVE  RouteFits(a)'
<1> SUFFICES ASSUME ~torn'[a] PROVE RouteFits(a)'
  BY DEF RouteFits
<1>1. /\ \A c, d \in CallsFor(a) : c = d
      /\ \A c \in CallsFor(a) : handling'[c].step # "memory" => Written(agents'[a], handling'[c])
      /\ CallsFor(a) = {} => route'[a] = [skills |-> agents'[a].skills, known |-> agents'[a].known]
  BY DEF RouteFits, Quiet
<1> QED
  BY <1>1 DEF RouteFits, Quiet, Written

-----------------------------------------------------------------------------
LEMMA RequestCopies ==
  ASSUME CopiesFit, NEW c \in Callers, NEW a \in Agents, alive' \in [Agents -> BOOLEAN],
         NEW z \in CallRecords, z.agent = a, z.step = "memory", Request(c, a, z)
  PROVE  CopiesFit' /\ UNCHANGED <<queue, listener, sent>> /\ (RoutesFit => RoutesFit')
<1>1. z # NoCall
  BY CallKinds
<1>2. /\ handling[c] = NoCall /\ handling' = [handling EXCEPT ![c] = z]
      /\ torn' = [torn EXCEPT ![a] = ~Quiet(a)]
      /\ UNCHANGED <<agents, queue, index, health, route, beat, listener, sent, faults, restarts>>
  BY DEF Request, memory, clients
<1>3. /\ handling' \in [Callers -> Handlings] /\ handling'[c] = z
      /\ \A d \in Callers : d # c => handling'[d] = handling[d]
  BY <1>2, CallKinds DEF CopiesFit, AgentsTyped
<1>4. PICK v \in BOOLEAN : v = ~Quiet(a)
  OBVIOUS
<1>5. /\ torn' \in [Agents -> BOOLEAN] /\ torn'[a] = v
      /\ \A b \in Agents : b # a => torn'[b] = torn[b]
  BY <1>2, <1>4 DEF CopiesFit, AgentsTyped
<1>6. CopiesFit'
  BY <1>2, <1>3, <1>5 DEF CopiesFit, AgentsTyped, QueuesKept, SearchFindsAll, Known
<1>7. ASSUME RoutesFit, NEW b \in Agents PROVE RouteFits(b)'
  <2>1. CASE b = a
    <3> SUFFICES ASSUME ~torn'[a] PROVE RouteFits(a)'
      BY <2>1 DEF RouteFits
    <3>1. CallsFor(a) = {}
      BY <1>4, <1>5 DEF Quiet
    <3>2. CallsFor(a)' = {c}
      BY <1>1, <1>3, <3>1 DEF CallsFor
    <3>3. handling'[c].step = "memory"
      BY <1>3
    <3> QED
      BY <3>2, <3>3 DEF RouteFits, Quiet
  <2>2. CASE b # a
    <3>1. CallsFor(b)' = CallsFor(b) /\ \A d \in CallsFor(b) : handling'[d] = handling[d]
      BY <1>1, <1>2, <1>3, <2>2 DEF CallsFor
    <3> QED
      BY <1>2, <1>5, <1>7, <2>2, <3>1, RouteKept DEF RoutesFit
  <2> QED
    BY <2>1, <2>2
<1> QED
  BY <1>2, <1>6, <1>7 DEF RoutesFit

LEMMA RegisterMemoryCopies ==
  ASSUME CopiesFit, NEW c \in Callers, RegisterMemory(c), queue \in [Agents -> {NoQueue} \cup Seq(Messages)]
  PROVE  /\ CopiesFit' /\ UNCHANGED <<listener, sent>>
         /\ queue' \in [Agents -> {NoQueue} \cup Seq(Messages)]
         /\ \A b \in Agents : queue'[b] \in {queue[b], NoQueue, <<>>}
         /\ RoutesFit => RoutesFit'
<1>1. PICK a : a = handling[c].agent
  OBVIOUS
<1>2. PICK skills : skills = handling[c].skills
  OBVIOUS
<1>3. PICK e : e = [skills |-> skills, age |-> 0, known |-> TRUE]
  OBVIOUS
<1>4. PICK q : q = IF queue[a] = NoQueue THEN <<>> ELSE queue[a]
  OBVIOUS
<1>5. /\ handling[c] # NoCall /\ handling[c].op = "register" /\ Proceeds(c, "row")
      /\ agents' = [agents EXCEPT ![a] = e] /\ queue' = [queue EXCEPT ![a] = q]
      /\ index' = [s \in Skills |-> IF s \in skills THEN index[s] \cup {a} ELSE index[s]]
      /\ UNCHANGED <<alive, health, route, beat, listener, torn, sent, faults, restarts>>
  BY <1>1, <1>2, <1>3, <1>4 DEF RegisterMemory, At, clients
<1>6. handling \in [Callers -> Handlings]
  BY DEF CopiesFit, AgentsTyped
<1>7. /\ handling' \in [Callers -> Handlings] /\ a \in Agents /\ skills \in Profiles
      /\ handling'[c] # NoCall /\ handling'[c].op = "register" /\ handling'[c].agent = a
      /\ handling'[c].skills = skills /\ handling'[c].step = "row"
      /\ \A d \in Callers : d # c => handling'[d] = handling[d]
      /\ \A b \in Agents : CallsFor(b)' = CallsFor(b)
  <2>1. "row" \in CallSteps
    BY DEF CallSteps
  <2> QED
    BY <1>1, <1>2, <1>5, <1>6, <2>1, Proceeding
<1>8. e \in Endpoints /\ e.skills = skills /\ e.known
  BY <1>3, <1>7, RegistryBounds DEF Endpoints
<1>9. q # NoQueue /\ q \in Seq(Messages) /\ q \in {queue[a], NoQueue, <<>>}
  BY <1>4, <1>7, QueueKinds
<1>10. /\ agents' \in [Agents -> Endpoints] /\ agents'[a] = e
       /\ \A b \in Agents : b # a => agents'[b] = agents[b]
  BY <1>5, <1>7, <1>8 DEF CopiesFit, AgentsTyped
<1>11. /\ queue' \in [Agents -> {NoQueue} \cup Seq(Messages)] /\ queue'[a] = q
       /\ \A b \in Agents : b # a => queue'[b] = queue[b]
  BY <1>5, <1>7, <1>9
<1>12. index' \in [Skills -> SUBSET Agents]
  BY <1>5, <1>7 DEF CopiesFit, AgentsTyped
<1>13. AgentsTyped'
  BY <1>5, <1>7, <1>10, <1>12 DEF CopiesFit, AgentsTyped
<1>14. QueuesKept'
  BY <1>8, <1>9, <1>10, <1>11 DEF CopiesFit, QueuesKept, Known
<1>15. SearchFindsAll'
  <2> SUFFICES ASSUME NEW b \in Agents, NEW s \in Skills, agents'[b].known, s \in agents'[b].skills
               PROVE  b \in index'[s]
    BY DEF SearchFindsAll, Known
  <2>1. CASE b = a
    BY <1>5, <1>8, <1>10, <2>1
  <2>2. CASE b # a
    <3>1. b \in index[s]
      BY <1>10, <2>2 DEF CopiesFit, SearchFindsAll, Known
    <3> QED
      BY <1>5, <3>1
  <2> QED
    BY <2>1, <2>2
<1>16. ASSUME RoutesFit, NEW b \in Agents PROVE RouteFits(b)'
  <2> SUFFICES ASSUME ~torn[b] PROVE RouteFits(b)'
    BY <1>5 DEF RouteFits
  <2>1. CASE b = a
    <3>1. c \in CallsFor(a) /\ \A d \in CallsFor(a) : d = c
      <4>1. c \in CallsFor(a)
        BY <1>1, <1>5 DEF CallsFor
      <4> QED
        BY <1>7, <1>16, <2>1, <4>1 DEF RoutesFit, RouteFits
    <3>2. CallsFor(a)' = CallsFor(a)
      BY <1>7
    <3>3. Written(agents'[a], handling'[c])
      BY <1>7, <1>8, <1>10 DEF Written
    <3> QED
      BY <2>1, <3>1, <3>2, <3>3 DEF RouteFits, Quiet, Written
  <2>2. CASE b # a
    <3>1. \A d \in CallsFor(b) : handling'[d] = handling[d]
      BY <1>1, <1>7, <2>2 DEF CallsFor
    <3> QED
      BY <1>5, <1>7, <1>10, <1>16, <2>2, <3>1, RouteKept DEF RoutesFit
  <2> QED
    BY <2>1, <2>2
<1> QED
  BY <1>5, <1>9, <1>11, <1>13, <1>14, <1>15, <1>16 DEF CopiesFit, RoutesFit

LEMMA RowCopies ==
  ASSUME CopiesFit, NEW c \in Callers, RegisterRow(c) \/ UnregisterRow(c)
  PROVE  CopiesFit' /\ UNCHANGED <<queue, listener, sent>> /\ (RoutesFit => RoutesFit')
<1>1. PICK a : a = handling[c].agent
  OBVIOUS
<1>2. /\ handling[c] # NoCall /\ handling[c].step = "row" /\ Proceeds(c, "route")
      /\ UNCHANGED <<alive, agents, queue, index, route, beat, listener, torn, sent, restarts>>
  BY DEF RegisterRow, UnregisterRow, At, memory, clients
<1>3. handling \in [Callers -> Handlings]
  BY DEF CopiesFit, AgentsTyped
<1>4. /\ handling' \in [Callers -> Handlings] /\ a \in Agents
      /\ handling'[c].op = handling[c].op
      /\ handling[c].op = "register" => handling'[c].skills = handling[c].skills
      /\ \A d \in Callers : d # c => handling'[d] = handling[d]
      /\ \A b \in Agents : CallsFor(b)' = CallsFor(b)
  <2>1. "route" \in CallSteps
    BY DEF CallSteps
  <2> QED
    BY <1>1, <1>2, <1>3, <2>1, Proceeding
<1>5. health' \in [Agents -> {"none", "healthy", "offline"}] /\ faults' \in 0..MaxFaults
  <2>1. CASE RegisterRow(c)
    <3>1. Write(a, "healthy")
      BY <1>1, <2>1 DEF RegisterRow
    <3> QED
      BY <1>4, <3>1, Writing DEF CopiesFit
  <2>2. CASE UnregisterRow(c)
    <3>1. PICK status \in {"none", "healthy", "offline"} : Write(a, status)
      BY <1>1, <2>2 DEF UnregisterRow
    <3> QED
      BY <1>4, <3>1, Writing DEF CopiesFit
  <2> QED
    BY <2>1, <2>2
<1>6. CopiesFit'
  BY <1>2, <1>4, <1>5 DEF CopiesFit, AgentsTyped, QueuesKept, SearchFindsAll, Known
<1>7. ASSUME RoutesFit, NEW b \in Agents PROVE RouteFits(b)'
  <2> SUFFICES ASSUME ~torn[b] PROVE RouteFits(b)'
    BY <1>2 DEF RouteFits
  <2>1. /\ \A i, d \in CallsFor(b) : i = d
        /\ \A d \in CallsFor(b) : handling[d].step # "memory" => Written(agents[b], handling[d])
        /\ Quiet(b) => route[b] = [skills |-> agents[b].skills, known |-> agents[b].known]
    BY <1>7 DEF RoutesFit, RouteFits
  <2>2. \A d \in CallsFor(b) : Written(agents[b], handling'[d]) \/ handling'[d].step = "memory"
    <3> SUFFICES ASSUME NEW d \in CallsFor(b) PROVE Written(agents[b], handling'[d]) \/ handling'[d].step = "memory"
      OBVIOUS
    <3>1. CASE d = c
      BY <1>2, <1>4, <2>1, <3>1 DEF Written
    <3>2. CASE d # c
      BY <1>4, <2>1, <3>2 DEF CallsFor
    <3> QED
      BY <3>1, <3>2
  <2> QED
    BY <1>2, <1>4, <2>1, <2>2 DEF RouteFits, Quiet, Written
<1> QED
  BY <1>2, <1>6, <1>7 DEF RoutesFit

LEMMA RouteCopies ==
  ASSUME CopiesFit, NEW c \in Callers, RegisterRoute(c) \/ UnregisterRoute(c)
  PROVE  CopiesFit' /\ UNCHANGED <<queue, listener, sent>> /\ (RoutesFit => RoutesFit')
<1>1. PICK a : a = handling[c].agent
  OBVIOUS
<1>2. PICK z : z = IF handling[c].op = "register" THEN [skills |-> handling[c].skills, known |-> TRUE] ELSE NoRoute
  OBVIOUS
<1>3. /\ handling[c] # NoCall /\ handling[c].step = "route" /\ Returns(c) /\ route' = [route EXCEPT ![a] = z]
      /\ UNCHANGED <<alive, agents, queue, index, health, beat, listener, torn, sent, faults, restarts>>
  BY <1>1, <1>2 DEF RegisterRoute, UnregisterRoute, At, memory, clients
<1>4. handling \in [Callers -> Handlings]
  BY DEF CopiesFit, AgentsTyped
<1>5. /\ handling' \in [Callers -> Handlings] /\ a \in Agents
      /\ handling[c].op = "register" => handling[c].skills \in Profiles
      /\ \A d \in Callers : d # c => handling'[d] = handling[d]
      /\ \A b \in Agents : CallsFor(b)' = CallsFor(b) \ {c}
  BY <1>1, <1>3, <1>4, Returning
<1>6. z \in Routes
  BY <1>2, <1>5, CallKinds DEF Routes
<1>7. /\ route' \in [Agents -> Routes] /\ route'[a] = z
      /\ \A b \in Agents : b # a => route'[b] = route[b]
  BY <1>3, <1>5, <1>6 DEF CopiesFit, AgentsTyped
<1>8. CopiesFit'
  BY <1>3, <1>5, <1>7 DEF CopiesFit, AgentsTyped, QueuesKept, SearchFindsAll, Known
<1>9. ASSUME RoutesFit, NEW b \in Agents PROVE RouteFits(b)'
  <2> SUFFICES ASSUME ~torn[b] PROVE RouteFits(b)'
    BY <1>3 DEF RouteFits
  <2>1. CASE b = a
    <3>1. c \in CallsFor(a) /\ CallsFor(a) = {c}
      <4>1. c \in CallsFor(a)
        BY <1>1, <1>3 DEF CallsFor
      <4>2. \A d \in CallsFor(a) : d = c
        BY <1>5, <1>9, <2>1, <4>1 DEF RoutesFit, RouteFits
      <4> QED
        BY <4>1, <4>2
    <3>2. CallsFor(a)' = {}
      BY <1>5, <3>1
    <3>3. Written(agents[a], handling[c])
      BY <1>3, <1>5, <1>9, <2>1, <3>1 DEF RoutesFit, RouteFits
    <3>4. z = [skills |-> agents[a].skills, known |-> agents[a].known]
      <4>1. CASE handling[c].op = "register"
        <5>1. z = [skills |-> handling[c].skills, known |-> TRUE]
          BY <1>2, <4>1
        <5>2. agents[a].skills = handling[c].skills /\ agents[a].known
          BY <3>3, <4>1 DEF Written
        <5>3. agents[a].known = TRUE
          BY <1>5, <5>2 DEF CopiesFit, AgentsTyped, Endpoints, Nothing
        <5> QED
          BY <5>1, <5>2, <5>3
      <4>2. CASE handling[c].op # "register"
        <5>1. agents[a] = Nothing /\ z = NoRoute
          BY <1>2, <3>3, <4>2 DEF Written
        <5> QED
          BY <5>1 DEF Nothing, NoRoute
      <4> QED
        BY <4>1, <4>2
    <3> QED
      BY <1>3, <1>7, <2>1, <3>2, <3>4 DEF RouteFits, Quiet
  <2>2. CASE b # a
    <3>1. CallsFor(b)' = CallsFor(b) /\ \A d \in CallsFor(b) : handling'[d] = handling[d]
      <4>1. c \notin CallsFor(b)
        BY <1>1, <2>2 DEF CallsFor
      <4> QED
        BY <1>5, <4>1 DEF CallsFor
    <3> QED
      BY <1>3, <1>7, <1>9, <2>2, <3>1, RouteKept DEF RoutesFit
  <2> QED
    BY <2>1, <2>2
<1> QED
  BY <1>3, <1>8, <1>9 DEF RoutesFit

\* What is forgotten is gone from the index, and without a queue.
LEMMA Forgetting ==
  ASSUME AgentsTyped, QueuesKept, SearchFindsAll, NEW gone \in SUBSET Agents, Forget(gone),
         queue \in [Agents -> {NoQueue} \cup Seq(Messages)]
  PROVE  /\ agents' \in [Agents -> Endpoints] /\ index' \in [Skills -> SUBSET Agents]
         /\ queue' \in [Agents -> {NoQueue} \cup Seq(Messages)]
         /\ \A a \in Agents : agents'[a] = IF a \in gone THEN Nothing ELSE agents[a]
         /\ \A a \in Agents : queue'[a] \in {queue[a], NoQueue, <<>>}
         /\ QueuesKept' /\ SearchFindsAll'
<1>1. /\ index' = [s \in Skills |-> index[s] \ {a \in gone : s \in agents[a].skills}]
      /\ agents' = [a \in Agents |-> IF a \in gone THEN Nothing ELSE agents[a]]
      /\ queue' = [a \in Agents |-> IF a \in gone THEN NoQueue ELSE queue[a]]
  BY DEF Forget
<1>2. agents' \in [Agents -> Endpoints] /\ index' \in [Skills -> SUBSET Agents]
  BY <1>1, CallKinds DEF AgentsTyped
<1>3. /\ queue' \in [Agents -> {NoQueue} \cup Seq(Messages)]
      /\ \A a \in Agents : queue'[a] \in {queue[a], NoQueue, <<>>}
  BY <1>1
<1>4. QueuesKept'
  BY <1>1 DEF QueuesKept, Known, Nothing
<1>5. SearchFindsAll'
  <2> SUFFICES ASSUME NEW a \in Agents, NEW s \in Skills, agents'[a].known, s \in agents'[a].skills
               PROVE  a \in index'[s]
    BY DEF SearchFindsAll, Known
  <2>1. a \notin gone
    BY <1>1 DEF Nothing
  <2>2. a \in index[s]
    BY <1>1, <2>1 DEF SearchFindsAll, Known
  <2> QED
    BY <1>1, <2>1, <2>2
<1> QED
  BY <1>1, <1>2, <1>3, <1>4, <1>5

LEMMA UnregisterMemoryCopies ==
  ASSUME CopiesFit, NEW c \in Callers, UnregisterMemory(c), queue \in [Agents -> {NoQueue} \cup Seq(Messages)]
  PROVE  /\ CopiesFit' /\ UNCHANGED <<listener, sent>>
         /\ queue' \in [Agents -> {NoQueue} \cup Seq(Messages)]
         /\ \A b \in Agents : queue'[b] \in {queue[b], NoQueue, <<>>}
         /\ RoutesFit => RoutesFit'
<1>1. PICK a : a = handling[c].agent
  OBVIOUS
<1>2. /\ handling[c] # NoCall /\ handling[c].op = "unregister" /\ Proceeds(c, "row") /\ Forget({a})
      /\ UNCHANGED <<alive, health, route, beat, listener, torn, sent, faults, restarts>>
  BY <1>1 DEF UnregisterMemory, At, clients
<1>3. handling \in [Callers -> Handlings]
  BY DEF CopiesFit, AgentsTyped
<1>4. /\ handling' \in [Callers -> Handlings] /\ a \in Agents /\ handling'[c].op = "unregister"
      /\ \A d \in Callers : d # c => handling'[d] = handling[d]
      /\ \A b \in Agents : CallsFor(b)' = CallsFor(b)
  <2>1. "row" \in CallSteps
    BY DEF CallSteps
  <2> QED
    BY <1>1, <1>2, <1>3, <2>1, Proceeding
<1>5. /\ agents' \in [Agents -> Endpoints] /\ index' \in [Skills -> SUBSET Agents]
      /\ queue' \in [Agents -> {NoQueue} \cup Seq(Messages)]
      /\ \A b \in Agents : agents'[b] = IF b \in {a} THEN Nothing ELSE agents[b]
      /\ \A b \in Agents : queue'[b] \in {queue[b], NoQueue, <<>>}
      /\ QueuesKept' /\ SearchFindsAll'
  <2>1. {a} \in SUBSET Agents
    BY <1>4
  <2> QED
    BY <1>2, <2>1, Forgetting DEF CopiesFit
<1>6. CopiesFit'
  BY <1>2, <1>4, <1>5 DEF CopiesFit, AgentsTyped
<1>7. ASSUME RoutesFit, NEW b \in Agents PROVE RouteFits(b)'
  <2> SUFFICES ASSUME ~torn[b] PROVE RouteFits(b)'
    BY <1>2 DEF RouteFits
  <2>1. CASE b = a
    <3>1. CallsFor(a) = {c}
      <4>1. c \in CallsFor(a)
        BY <1>1, <1>2 DEF CallsFor
      <4>2. \A d \in CallsFor(a) : d = c
        BY <1>4, <1>7, <2>1, <4>1 DEF RoutesFit, RouteFits
      <4> QED
        BY <4>1, <4>2
    <3>2. Written(agents'[a], handling'[c])
      BY <1>4, <1>5 DEF Written
    <3>3. CallsFor(a)' = {c}
      BY <1>4, <3>1
    <3> QED
      BY <2>1, <3>2, <3>3 DEF RouteFits, Quiet, Written
  <2>2. CASE b # a
    <3>1. \A d \in CallsFor(b) : handling'[d] = handling[d]
      BY <1>1, <1>4, <2>2 DEF CallsFor
    <3>2. agents'[b] = agents[b] /\ route'[b] = route[b]
      BY <1>2, <1>5, <2>2
    <3> QED
      BY <1>4, <1>7, <3>1, <3>2, RouteKept DEF RoutesFit
  <2> QED
    BY <2>1, <2>2
<1> QED
  BY <1>2, <1>5, <1>6, <1>7 DEF RoutesFit

\* Time passes and heartbeats arrive.
LEMMA AgesCopies ==
  ASSUME CopiesFit, UNCHANGED <<index, health, route, handling, queue, listener, torn, sent, restarts>>,
         alive' \in [Agents -> BOOLEAN], beat' \in [Agents -> {"idle", "row"}],
         faults' \in 0..MaxFaults, agents' \in [Agents -> Endpoints],
         \A a \in Agents : /\ agents'[a].skills = agents[a].skills /\ agents'[a].known = agents[a].known
                           /\ agents[a] = Nothing => agents'[a] = Nothing
  PROVE  CopiesFit' /\ (RoutesFit => RoutesFit')
<1>1. CopiesFit'
  BY DEF CopiesFit, AgentsTyped, QueuesKept, SearchFindsAll, Known
<1>2. ASSUME RoutesFit, NEW a \in Agents PROVE RouteFits(a)'
  <2> SUFFICES ASSUME ~torn[a] PROVE RouteFits(a)'
    BY DEF RouteFits
  <2>1. CallsFor(a)' = CallsFor(a)
    BY DEF CallsFor
  <2>2. /\ \A c, d \in CallsFor(a) : c = d
        /\ \A c \in CallsFor(a) : handling[c].step # "memory" => Written(agents[a], handling[c])
        /\ Quiet(a) => route[a] = [skills |-> agents[a].skills, known |-> agents[a].known]
    BY <1>2 DEF RoutesFit, RouteFits
  <2>3. \A c \in CallsFor(a) : handling[c].step # "memory" => Written(agents'[a], handling[c])
    BY <2>2 DEF Written, Quiet
  <2>4. Quiet(a) => route[a] = [skills |-> agents'[a].skills, known |-> agents'[a].known]
    BY <2>2
  <2> QED
    BY <2>1, <2>2, <2>3, <2>4 DEF RouteFits, Quiet, Written
<1> QED
  BY <1>1, <1>2 DEF RoutesFit

LEMMA HeartbeatCopies ==
  ASSUME CopiesFit, NEW a \in Agents, HeartbeatMemory(a)
  PROVE  CopiesFit' /\ UNCHANGED <<queue, listener, sent>> /\ (RoutesFit => RoutesFit')
<1>1. PICK e \in Endpoints : e = agents[a]
  BY DEF CopiesFit, AgentsTyped
<1>2. PICK z : z = IF e.known THEN [e EXCEPT !.age = 0] ELSE e
  OBVIOUS
<1>3. /\ agents' = [agents EXCEPT ![a] = z] /\ beat' = [beat EXCEPT ![a] = "row"]
      /\ UNCHANGED <<alive, queue, index, health, route, handling, clients, torn, faults, restarts>>
  BY <1>1, <1>2 DEF HeartbeatMemory
<1>4. UNCHANGED <<alive, queue, index, health, route, handling, listener, torn, sent, faults, restarts>>
  BY <1>3 DEF clients
<1>5. z \in Endpoints /\ z.skills = e.skills /\ z.known = e.known
      /\ (e = Nothing => z = Nothing)
  <2>1. CASE e = Nothing
    BY <1>2, <2>1, RegistryBounds DEF Nothing, Endpoints
  <2>2. CASE e # Nothing
    <3>1. e \in [skills: Profiles, age: 0..Grace + 1, known: {TRUE}]
      BY <2>2 DEF Endpoints
    <3>2. z = [e EXCEPT !.age = 0]
      BY <1>2, <3>1
    <3>3. 0 \in 0..Grace + 1
      BY RegistryBounds
    <3>4. /\ z \in [skills: Profiles, age: 0..Grace + 1, known: {TRUE}]
          /\ z.skills = e.skills /\ z.known = e.known
      BY <3>1, <3>2, <3>3
    <3> QED
      BY <2>2, <3>4 DEF Endpoints
  <2> QED
    BY <2>1, <2>2
<1>6. /\ agents' \in [Agents -> Endpoints] /\ agents'[a] = z
      /\ \A b \in Agents : b # a => agents'[b] = agents[b]
  BY <1>3, <1>5 DEF CopiesFit, AgentsTyped
<1>7. \A b \in Agents : /\ agents'[b].skills = agents[b].skills /\ agents'[b].known = agents[b].known
                        /\ agents[b] = Nothing => agents'[b] = Nothing
  BY <1>1, <1>5, <1>6
<1>8. alive' \in [Agents -> BOOLEAN] /\ beat' \in [Agents -> {"idle", "row"}] /\ faults' \in 0..MaxFaults
  BY <1>3, <1>4 DEF CopiesFit, AgentsTyped
<1> QED
  BY <1>4, <1>6, <1>7, <1>8, AgesCopies

LEMMA TickCopies ==
  ASSUME CopiesFit, Tick
  PROVE  CopiesFit' /\ UNCHANGED <<queue, listener, sent>> /\ (RoutesFit => RoutesFit')
<1>1. UNCHANGED <<alive, queue, index, health, route, handling, beat, listener, torn, sent, faults, restarts>>
  BY DEF Tick, clients
<1>2. ASSUME NEW a \in Agents
      PROVE  /\ agents'[a] \in Endpoints
             /\ agents'[a].skills = agents[a].skills /\ agents'[a].known = agents[a].known
             /\ agents[a] = Nothing => agents'[a] = Nothing
  <2>1. PICK e \in Endpoints : e = agents[a]
    BY DEF CopiesFit, AgentsTyped
  <2>2. PICK z : z = agents'[a]
    OBVIOUS
  <2>3. z = IF e.known /\ e.age <= Grace THEN [e EXCEPT !.age = e.age + 1] ELSE e
    BY <2>1, <2>2 DEF Tick, Known
  <2>4. CASE e.known /\ e.age <= Grace
    <3>1. e \in [skills: Profiles, age: 0..Grace + 1, known: {TRUE}] /\ e # Nothing
      <4>1. e # Nothing
        BY <2>4 DEF Nothing
      <4> QED
        BY <2>1, <4>1 DEF Endpoints
    <3>2. z = [e EXCEPT !.age = e.age + 1]
      BY <2>3, <2>4
    <3>3. e.age + 1 \in 0..Grace + 1
      BY <2>4, <3>1, RegistryBounds
    <3>4. /\ z \in [skills: Profiles, age: 0..Grace + 1, known: {TRUE}]
          /\ z.skills = e.skills /\ z.known = e.known
      BY <3>1, <3>2, <3>3
    <3> QED
      BY <2>1, <2>2, <2>4, <3>1, <3>4 DEF Endpoints
  <2>5. CASE ~(e.known /\ e.age <= Grace)
    BY <2>1, <2>2, <2>3, <2>5
  <2> QED
    BY <2>4, <2>5
<1>3. agents' \in [Agents -> Endpoints]
  <2>1. agents' = [a \in Agents |-> agents'[a]]
    BY DEF Tick
  <2> QED
    BY <1>2, <2>1
<1>4. alive' \in [Agents -> BOOLEAN] /\ beat' \in [Agents -> {"idle", "row"}] /\ faults' \in 0..MaxFaults
  BY <1>1 DEF CopiesFit, AgentsTyped
<1> QED
  BY <1>1, <1>2, <1>3, <1>4, AgesCopies

\* The row of a heartbeat, and an agent that dies.
LEMMA AsideCopies ==
  ASSUME CopiesFit, NEW a \in Agents, HeartbeatRow(a) \/ Die(a)
  PROVE  CopiesFit' /\ UNCHANGED <<queue, listener, sent>> /\ (RoutesFit => RoutesFit')
<1>1. UNCHANGED <<agents, queue, index, route, handling, listener, torn, sent, restarts>>
  BY DEF HeartbeatRow, Die, memory, clients
<1>2. /\ alive' \in [Agents -> BOOLEAN] /\ beat' \in [Agents -> {"idle", "row"}]
      /\ health' \in [Agents -> {"none", "healthy", "offline"}] /\ faults' \in 0..MaxFaults
  <2>1. CASE HeartbeatRow(a)
    <3>1. health' \in [Agents -> {"none", "healthy", "offline"}] /\ faults' \in 0..MaxFaults
      BY <2>1, Writing DEF HeartbeatRow, CopiesFit
    <3> QED
      BY <2>1, <3>1 DEF HeartbeatRow, CopiesFit, AgentsTyped
  <2>2. CASE Die(a)
    BY <2>2 DEF Die, CopiesFit, AgentsTyped
  <2> QED
    BY <2>1, <2>2
<1>3. CopiesFit'
  BY <1>1, <1>2 DEF CopiesFit, AgentsTyped, QueuesKept, SearchFindsAll, Known
<1>4. ASSUME RoutesFit, NEW b \in Agents PROVE RouteFits(b)'
  BY <1>1, <1>4, RouteKept DEF RoutesFit, CallsFor
<1> QED
  BY <1>1, <1>3, <1>4 DEF RoutesFit

\* A silent agent that is not torn by the clean-up has no call past its first step,
\* so nobody tells the router of it afterwards.
LEMMA CleanupCopies ==
  ASSUME CopiesFit, cleanupOfflineAgents, queue \in [Agents -> {NoQueue} \cup Seq(Messages)]
  PROVE  /\ CopiesFit' /\ UNCHANGED <<listener, sent>>
         /\ queue' \in [Agents -> {NoQueue} \cup Seq(Messages)]
         /\ \A b \in Agents : queue'[b] \in {queue[b], NoQueue, <<>>}
         /\ RoutesFit => RoutesFit'
<1>1. PICK gone \in SUBSET Agents : gone = Silent
  BY DEF Silent
<1>2. /\ Forget(gone) /\ route' = [a \in Agents |-> IF a \in gone THEN NoRoute ELSE route[a]]
      /\ torn' = [a \in Agents |-> torn[a] \/ (a \in gone /\ Halfway(a))]
      /\ UNCHANGED <<alive, health, handling, beat, listener, sent, faults, restarts>>
  BY <1>1 DEF cleanupOfflineAgents, clients, Tears
<1>3. /\ agents' \in [Agents -> Endpoints] /\ index' \in [Skills -> SUBSET Agents]
      /\ queue' \in [Agents -> {NoQueue} \cup Seq(Messages)]
      /\ \A a \in Agents : agents'[a] = IF a \in gone THEN Nothing ELSE agents[a]
      /\ \A a \in Agents : queue'[a] \in {queue[a], NoQueue, <<>>}
      /\ QueuesKept' /\ SearchFindsAll'
  BY <1>2, Forgetting DEF CopiesFit
<1>4. route' \in [Agents -> Routes] /\ torn' \in [Agents -> BOOLEAN]
  <2>1. \A a \in Agents : (torn[a] \/ (a \in gone /\ Halfway(a))) \in BOOLEAN
    OBVIOUS
  <2>2. torn' \in [Agents -> BOOLEAN]
    BY <1>2, <2>1, Zenon
  <2> QED
    BY <1>2, <2>2, CallKinds DEF CopiesFit, AgentsTyped
<1>5. CopiesFit'
  BY <1>2, <1>3, <1>4 DEF CopiesFit, AgentsTyped
<1>6. ASSUME RoutesFit, NEW a \in Agents PROVE RouteFits(a)'
  <2> SUFFICES ASSUME ~torn'[a] PROVE RouteFits(a)'
    BY DEF RouteFits
  <2>1. CallsFor(a)' = CallsFor(a)
    BY <1>2 DEF CallsFor
  <2>2. ~torn[a] /\ ~(a \in gone /\ Halfway(a))
    BY <1>2
  <2>3. CASE a \in gone
    <3>1. (\A c, d \in CallsFor(a) : c = d) /\ \A c \in CallsFor(a) : handling[c].step = "memory"
      BY <1>6, <2>2, <2>3 DEF RoutesFit, RouteFits, Halfway
    <3>2. agents'[a] = Nothing /\ route'[a] = NoRoute
      BY <1>2, <1>3, <2>3
    <3>3. NoRoute = [skills |-> Nothing.skills, known |-> Nothing.known]
      BY DEF NoRoute, Nothing
    <3> QED
      BY <1>2, <2>1, <3>1, <3>2, <3>3 DEF RouteFits, Quiet
  <2>4. CASE a \notin gone
    <3>1. agents'[a] = agents[a] /\ route'[a] = route[a]
      BY <1>2, <1>3, <2>4
    <3>2. \A c \in CallsFor(a) : handling'[c] = handling[c]
      BY <1>2
    <3> QED
      BY <1>6, <2>1, <2>2, <3>1, <3>2, RouteKept DEF RoutesFit
  <2> QED
    BY <2>3, <2>4
<1> QED
  BY <1>2, <1>3, <1>5, <1>6 DEF RoutesFit

LEMMA RestartCopies ==
  ASSUME RegistryInv, ServerRestarts
  PROVE  RegistryInv' /\ RoutesFit'
<1>1. /\ restarts < MaxRestarts /\ restarts' = restarts + 1
      /\ agents' = [a \in Agents |-> Nothing] /\ queue' = [a \in Agents |-> NoQueue]
      /\ index' = [s \in Skills |-> {}] /\ route' = [a \in Agents |-> NoRoute]
      /\ handling' = [c \in Callers |-> NoCall] /\ beat' = [a \in Agents |-> "idle"]
      /\ torn' = [a \in Agents |-> FALSE]
      /\ UNCHANGED <<alive, health, sent, faults>>
  BY DEF ServerRestarts
<1>2. AgentsTyped'
  <2>1. restarts' \in 0..MaxRestarts
    BY <1>1, RegistryBounds DEF RegistryInv, CopiesFit, AgentsTyped
  <2> QED
    BY <1>1, <2>1, CallKinds DEF RegistryInv, CopiesFit, AgentsTyped
<1>3. QueuesKept' /\ SearchFindsAll'
  BY <1>1 DEF QueuesKept, SearchFindsAll, Known, Nothing
<1>4. RoutesFit'
  <2> SUFFICES ASSUME NEW a \in Agents PROVE RouteFits(a)'
    BY DEF RoutesFit
  <2>1. CallsFor(a)' = {}
    BY <1>1 DEF CallsFor
  <2>2. NoRoute = [skills |-> Nothing.skills, known |-> Nothing.known]
    BY DEF NoRoute, Nothing
  <2>3. agents'[a] = Nothing /\ route'[a] = NoRoute
    BY <1>1
  <2> QED
    BY <2>1, <2>2, <2>3 DEF RouteFits, Quiet
<1>5. /\ listener' \in [Listeners -> ListenerRecords]
      /\ \A l \in Listeners : listener'[l].held = 0 /\ listener'[l].heard = listener[l].heard
  <2>1. listener' = [l \in Listeners |-> [listener[l] EXCEPT !.agent = "none", !.held = 0]]
    BY DEF ServerRestarts
  <2>2. ASSUME NEW l \in Listeners
        PROVE  /\ listener'[l] \in ListenerRecords
               /\ listener'[l].held = 0 /\ listener'[l].heard = listener[l].heard
    <3>1. PICK r \in ListenerRecords : r = listener[l]
      BY DEF RegistryInv, MessagesTyped
    <3>2. PICK z : z = [r EXCEPT !.agent = "none", !.held = 0]
      OBVIOUS
    <3>3. z \in ListenerRecords /\ z.held = 0 /\ z.heard = r.heard
      BY <3>2 DEF ListenerRecords
    <3>4. listener'[l] = z
      BY <2>1, <3>1, <3>2
    <3> QED
      BY <3>1, <3>3, <3>4
  <2> QED
    BY <2>1, <2>2
<1>6. /\ queue' \in [Agents -> {NoQueue} \cup Seq(Messages)]
      /\ \A a \in Agents : Increasing(queue'[a]) /\ Queued(queue'[a]) \subseteq Queued(queue[a])
  <2>1. Queued(NoQueue) = {} /\ Increasing(NoQueue)
    BY DEF Queued, Increasing, NoQueue
  <2>2. \A a \in Agents : queue'[a] = NoQueue
    BY <1>1
  <2> QED
    BY <1>1, <2>1, <2>2
<1>7. MessagesTyped' /\ MessagesFit'
  BY <1>1, <1>5, <1>6, ListenersLessen DEF RegistryInv
<1> QED
  BY <1>2, <1>3, <1>4, <1>7 DEF RegistryInv, CopiesFit

\* Messages change no copy of an agent, and keep its queue.
LEMMA MessagingCopies ==
  ASSUME CopiesFit, UNCHANGED messaging, \A a \in Agents : queue'[a] = NoQueue <=> queue[a] = NoQueue
  PROVE  CopiesFit' /\ (RoutesFit => RoutesFit')
<1>1. UNCHANGED <<alive, agents, index, health, route, handling, beat, torn, faults, restarts>>
  BY DEF messaging
<1>2. CopiesFit'
  BY <1>1 DEF CopiesFit, AgentsTyped, QueuesKept, SearchFindsAll, Known
<1>3. ASSUME RoutesFit, NEW b \in Agents PROVE RouteFits(b)'
  BY <1>1, <1>3, RouteKept DEF RoutesFit, CallsFor
<1> QED
  BY <1>2, <1>3 DEF RoutesFit

-----------------------------------------------------------------------------
LEMMA RegistryStarts == RegistryInit => RegistryInv /\ RoutesFit
<1> SUFFICES ASSUME RegistryInit PROVE RegistryInv /\ RoutesFit
  OBVIOUS
<1>1. AgentsTyped
  BY RegistryBounds, CallKinds DEF RegistryInit, AgentsTyped
<1>2. QueuesKept /\ SearchFindsAll
  BY DEF RegistryInit, QueuesKept, SearchFindsAll, Known, Nothing
<1>3. RoutesFit
  BY DEF RegistryInit, RoutesFit, RouteFits, CallsFor, Quiet, NoRoute, Nothing
<1>4. ASSUME NEW l \in Listeners
      PROVE  /\ listener[l] \in ListenerRecords /\ listener[l].held = 0
             /\ \A a \in Agents : listener[l].heard[a] = <<>>
  <2>1. listener[l] = [agent |-> "none", held |-> 0, heard |-> [a \in Agents |-> <<>>]]
    BY DEF RegistryInit
  <2> QED
    BY <2>1, QueueKinds DEF ListenerRecords
<1>5. MessagesTyped
  BY <1>4, RegistryBounds DEF RegistryInit, MessagesTyped
<1>6. MessagesFit
  <2>1. \A a \in Agents : Increasing(queue[a]) /\ Queued(queue[a]) = {}
    BY DEF RegistryInit, Increasing, Queued, NoQueue
  <2>2. \A a \in Agents, l \in Listeners : HearsInOrder(listener[l], a) /\ Got(listener[l], a) = {}
    BY <1>4, QueueKinds DEF HearsInOrder, Got, Increasing, Elements
  <2> QED
    BY <1>4, <2>1, <2>2 DEF MessagesFit
<1> QED
  BY <1>1, <1>2, <1>3, <1>5, <1>6 DEF RegistryInv, CopiesFit

LEMMA CallStepsFit ==
  ASSUME RegistryInv, NEW c \in Callers, Start(c) \/ Stop(c) \/ CallStep(c)
  PROVE  RegistryInv' /\ (RoutesFit => RoutesFit')
<1>1. MessagesTyped /\ MessagesFit /\ CopiesFit /\ queue \in [Agents -> {NoQueue} \cup Seq(Messages)]
  BY DEF RegistryInv, MessagesTyped
<1>2. \/ CopiesFit' /\ UNCHANGED <<queue, listener, sent>> /\ (RoutesFit => RoutesFit')
      \/ /\ CopiesFit' /\ UNCHANGED <<listener, sent>>
         /\ queue' \in [Agents -> {NoQueue} \cup Seq(Messages)]
         /\ \A b \in Agents : queue'[b] \in {queue[b], NoQueue, <<>>}
         /\ RoutesFit => RoutesFit'
  <2>1. CASE Start(c) \/ Stop(c)
    <3>1. PICK a \in Agents, z \in CallRecords : z.agent = a /\ z.step = "memory" /\ Request(c, a, z)
      BY <2>1 DEF Start, Stop, CallRecords, RegisterRecords, UnregisterRecords, CallSteps
    <3>2. alive' \in [Agents -> BOOLEAN]
      BY <1>1, <2>1 DEF Start, Stop, CopiesFit, AgentsTyped
    <3> QED
      BY <1>1, <3>1, <3>2, RequestCopies
  <2>2. CASE RegisterMemory(c)
    BY <1>1, <2>2, RegisterMemoryCopies
  <2>3. CASE RegisterRow(c) \/ UnregisterRow(c)
    BY <1>1, <2>3, RowCopies
  <2>4. CASE RegisterRoute(c) \/ UnregisterRoute(c)
    BY <1>1, <2>4, RouteCopies
  <2>5. CASE UnregisterMemory(c)
    BY <1>1, <2>5, UnregisterMemoryCopies
  <2> QED
    BY <2>1, <2>2, <2>3, <2>4, <2>5 DEF CallStep
<1>3. /\ CopiesFit' /\ UNCHANGED <<listener, sent>>
      /\ queue' \in [Agents -> {NoQueue} \cup Seq(Messages)]
      /\ \A b \in Agents : queue'[b] \in {queue[b], NoQueue, <<>>}
  BY <1>1, <1>2
<1> QED
  BY <1>1, <1>2, <1>3, QueuesLessen DEF RegistryInv

LEMMA MessagesKept ==
  ASSUME MessagesTyped, MessagesFit, UNCHANGED <<queue, listener, sent>>
  PROVE  MessagesTyped' /\ MessagesFit'
<1>1. /\ queue' \in [Agents -> {NoQueue} \cup Seq(Messages)]
      /\ \A a \in Agents : queue'[a] \in {queue[a], NoQueue, <<>>}
  BY DEF MessagesTyped
<1> QED
  BY <1>1, QueuesLessen

LEMMA AgentStepsFit ==
  ASSUME RegistryInv, NEW a \in Agents, HeartbeatMemory(a) \/ HeartbeatRow(a) \/ Die(a) \/ ReceiveMessage(a)
  PROVE  RegistryInv' /\ (RoutesFit => RoutesFit')
<1>1. MessagesTyped /\ MessagesFit /\ CopiesFit
  BY DEF RegistryInv
<1>2. CASE HeartbeatMemory(a) \/ HeartbeatRow(a) \/ Die(a)
  <2>1. CopiesFit' /\ UNCHANGED <<queue, listener, sent>> /\ (RoutesFit => RoutesFit')
    BY <1>1, <1>2, HeartbeatCopies, AsideCopies
  <2> QED
    BY <1>1, <2>1, MessagesKept DEF RegistryInv
<1>3. CASE ReceiveMessage(a)
  BY <1>1, <1>3, ReceiveFits, MessagingCopies DEF RegistryInv
<1> QED
  BY <1>2, <1>3

LEMMA ListenerStepsFit ==
  ASSUME RegistryInv, NEW l \in Listeners,
         ListenMessages(l) \/ Take(l) \/ Deliver(l) \/ StopListening(l)
  PROVE  RegistryInv' /\ (RoutesFit => RoutesFit')
<1>1. MessagesTyped /\ MessagesFit /\ CopiesFit
  BY DEF RegistryInv
<1>2. /\ MessagesTyped' /\ MessagesFit' /\ UNCHANGED messaging
      /\ \A b \in Agents : queue'[b] = NoQueue <=> queue[b] = NoQueue
  <2>1. CASE ListenMessages(l) \/ StopListening(l)
    BY <1>1, <2>1, ListenFits
  <2>2. CASE Take(l)
    BY <1>1, <2>2, TakeFits
  <2>3. CASE Deliver(l)
    BY <1>1, <2>3, DeliverFits
  <2> QED
    BY <2>1, <2>2, <2>3
<1> QED
  BY <1>1, <1>2, MessagingCopies DEF RegistryInv

LEMMA RegistrySteps ==
  ASSUME RegistryInv, [RegistryNext]_registryVars
  PROVE  RegistryInv' /\ (RoutesFit => RoutesFit')
<1>1. MessagesTyped /\ MessagesFit /\ CopiesFit /\ queue \in [Agents -> {NoQueue} \cup Seq(Messages)]
  BY DEF RegistryInv, MessagesTyped
<1>2. CASE \E c \in Callers : Start(c) \/ Stop(c) \/ CallStep(c)
  BY <1>2, CallStepsFit
<1>3. CASE \E a \in Agents : HeartbeatMemory(a) \/ HeartbeatRow(a) \/ Die(a) \/ ReceiveMessage(a)
  BY <1>3, AgentStepsFit
<1>4. CASE \E l \in Listeners : ListenMessages(l) \/ Take(l) \/ Deliver(l) \/ StopListening(l)
  BY <1>4, ListenerStepsFit
<1>5. CASE SendMessage \/ BroadcastMessage
  <2>1. PICK targets \in SUBSET Agents : Push(targets)
    BY <1>5 DEF SendMessage, BroadcastMessage
  <2> QED
    BY <1>1, <2>1, PushFits, MessagingCopies DEF RegistryInv
<1>6. CASE cleanupOfflineAgents
  <2>1. /\ CopiesFit' /\ UNCHANGED <<listener, sent>>
        /\ queue' \in [Agents -> {NoQueue} \cup Seq(Messages)]
        /\ \A b \in Agents : queue'[b] \in {queue[b], NoQueue, <<>>}
        /\ RoutesFit => RoutesFit'
    BY <1>1, <1>6, CleanupCopies
  <2> QED
    BY <1>1, <2>1, QueuesLessen DEF RegistryInv
<1>7. CASE Tick
  BY <1>1, <1>7, TickCopies, MessagesKept DEF RegistryInv
<1>8. CASE ServerRestarts
  BY <1>8, RestartCopies
<1>9. CASE UNCHANGED registryVars
  <2>1. UNCHANGED messaging /\ UNCHANGED <<queue, listener, sent>>
    BY <1>9 DEF registryVars, messaging
  <2> QED
    BY <1>1, <2>1, MessagesKept, MessagingCopies DEF RegistryInv
<1> QED
  BY <1>2, <1>3, <1>4, <1>5, <1>6, <1>7, <1>8, <1>9 DEF RegistryNext

LEMMA RegistryInvGives ==
  ASSUME RegistryInv
  PROVE  RegistryTypeOK /\ SearchFindsAll /\ MessagesInOrder
<1>1. MessagesInOrder
  <2>1. \A a \in Agents, l \in Listeners : Heard(l, a) \subseteq Got(listener[l], a)
    BY DEF Heard, Got, Elements
  <2>2. \A a \in Agents, l \in Listeners :
          /\ Increasing(listener[l].heard[a])
          /\ \A k \in Listeners : k # l => Got(listener[k], a) \cap Got(listener[l], a) = {}
    BY DEF RegistryInv, MessagesFit, HearsInOrder
  <2>3. \A a \in Agents, l \in Listeners : \A k \in Listeners : k # l => Heard(k, a) \cap Heard(l, a) = {}
    BY <2>1, <2>2
  <2> QED
    BY <2>2, <2>3 DEF MessagesInOrder, Increasing
<1> QED
  BY <1>1, RegistryInvTypes DEF RegistryInv, CopiesFit

\* Whatever calls overlap: a search misses no agent, an agent has a queue exactly
\* while it is known, and each of its messages goes to one listener, in order
\* (agent_service.cpp, FindAgents, ListenMessages).
THEOREM MessagesCorrect == RegistrySpec => [](RegistryTypeOK /\ SearchFindsAll /\ MessagesInOrder)
<1>1. RegistryInit => RegistryInv
  BY RegistryStarts
<1>2. RegistryInv /\ [RegistryNext]_registryVars => RegistryInv'
  BY RegistrySteps
<1>3. RegistryInv => RegistryTypeOK /\ SearchFindsAll /\ MessagesInOrder
  BY RegistryInvGives
<1> QED
  BY <1>1, <1>2, <1>3, PTL DEF RegistrySpec

\* The router also routes to exactly the agents that are known, for their present
\* skills, whichever heartbeat, clean-up or restart comes between two steps of a call:
\* what calls of one agent that overlapped, or a clean-up that came halfway, left in the
\* router is put right by the agent's next call that runs alone, and by a restart
\* (agent_service.cpp:109, RegisterAgent, UnregisterAgent).
THEOREM RegistryCorrect == RegistrySpec => []RegistryInvariant
<1>1. RegistryInit => RegistryInv /\ RoutesFit
  BY RegistryStarts
<1>2. RegistryInv /\ RoutesFit /\ [RegistryNext]_registryVars => (RegistryInv /\ RoutesFit)'
  BY RegistrySteps
<1>3. RegistryInv /\ RoutesFit => RegistryInvariant
  BY RegistryInvGives DEF RegistryInvariant, RoutesMatchAgents, RoutesFit, RouteFits, Known
<1> QED
  BY <1>1, <1>2, <1>3, PTL DEF RegistrySpec
=============================================================================
