------------------------ MODULE BackgroundScheduler ------------------------
(***************************************************************************)
(* BackgroundScheduler: a coordinator thread looks every 50 ms which jobs  *)
(* are due and queues them; worker threads take jobs from the queue and    *)
(* run them.  The main thread starts it, schedules the jobs of main.cpp,   *)
(* and stops it before the server.  queue_mutex_ is modelled where a step  *)
(* keeps it over more than one action: a worker that found no work and     *)
(* goes to sleep.  running_ is read without it.                            *)
(***************************************************************************)
EXTENDS Integers, Sequences, FiniteSets

CONSTANTS
  Jobs, Workers,
  MaxRounds,     \* bound: how often jobs become due
  MaxStarts      \* bound: how often the scheduler is started

ASSUME SchedulerBounds == MaxRounds \in Nat /\ MaxStarts \in Nat
ASSUME SchedulerWorkers == IsFiniteSet(Workers)
ASSUME SchedulerJobs == "no job" \notin Jobs

VARIABLES
  running,       \* running_
  tasks,         \* tasks_
  due,           \* tasks whose next_run has passed
  cancelled,     \* ScheduledTask::cancelled
  flag,          \* ScheduledTask::running
  ready,         \* ready_queue_
  worker,        \* workerLoop of each worker
  coordinator,   \* coordinatorLoop
  stopper,       \* stop()
  late,          \* jobs that came due while they waited for a worker
  rounds, starts
schedulerVars == <<running, tasks, due, cancelled, flag, ready, worker, coordinator,
                   stopper, late, rounds, starts>>
jobState == <<tasks, due, cancelled, flag, late, rounds>>

NoJob == "no job"
Ended == [at |-> "ended", job |-> NoJob]
Looking == [at |-> "loop", job |-> NoJob]
InState(at) == {w \in Workers : worker[w].at = at}
\* A worker that is about to wait holds queue_mutex_.
QueueLocked == InState("deciding") # {}
TasksLocked == coordinator.at \in {"scan", "notify"}
AwaitsWorker(j) ==
  \/ \E i \in DOMAIN ready : ready[i] = j
  \/ \E w \in Workers : worker[w].at \in {"took", "checked"} /\ worker[w].job = j
Running(j) == {w \in InState("runs") : worker[w].job = j}

SchedulerInit ==
  /\ running = FALSE /\ tasks = {} /\ due = {} /\ cancelled = {} /\ flag = {} /\ ready = <<>>
  /\ worker = [w \in Workers |-> Ended]
  /\ coordinator = [at |-> "ended", left |-> {}]
  /\ stopper = "idle" /\ late = {} /\ rounds = 0 /\ starts = 0
-----------------------------------------------------------------------------
(* The main thread. *)

scheduleAtFixedRate(j) ==
  /\ stopper = "idle" /\ ~TasksLocked /\ j \notin tasks
  /\ tasks' = tasks \cup {j}
  /\ UNCHANGED <<running, due, cancelled, flag, ready, worker, coordinator, stopper, late, rounds, starts>>

cancel(j) ==
  /\ ~TasksLocked /\ j \in tasks \ cancelled
  /\ cancelled' = cancelled \cup {j}
  /\ UNCHANGED <<running, tasks, due, flag, ready, worker, coordinator, stopper, late, rounds, starts>>

start ==
  /\ stopper = "idle" /\ ~running /\ starts < MaxStarts
  /\ running' = TRUE /\ starts' = starts + 1
  /\ worker' = [w \in Workers |-> Looking]
  /\ coordinator' = [at |-> "loop", left |-> {}]
  /\ UNCHANGED <<jobState, ready, stopper>>

StopStores ==
  /\ stopper = "idle" /\ running
  /\ running' = FALSE /\ stopper' = "notify"
  /\ UNCHANGED <<jobState, ready, worker, coordinator, starts>>

\* notify_all wakes those that wait; it takes no lock.
StopNotifies ==
  /\ stopper = "notify" /\ stopper' = "join"
  /\ worker' = [w \in Workers |-> IF worker[w].at = "waiting" THEN Looking ELSE worker[w]]
  /\ UNCHANGED <<jobState, running, ready, coordinator, starts>>

AllEnded == coordinator.at = "ended" /\ InState("ended") = Workers

\* Mutant: the state is cleared before the threads have ended.
ClearsAtOnce ==
  /\ stopper = "join"
  /\ tasks' = {} /\ due' = {} /\ cancelled' = {} /\ flag' = {} /\ late' = {} /\ ready' = <<>>
  /\ stopper' = IF AllEnded THEN "idle" ELSE "join"
  /\ UNCHANGED <<running, worker, coordinator, rounds, starts>>

StopClears ==
  /\ stopper = "join" /\ AllEnded
  /\ tasks' = {} /\ due' = {} /\ cancelled' = {} /\ flag' = {} /\ late' = {} /\ ready' = <<>>
  /\ stopper' = "idle"
  /\ UNCHANGED <<running, worker, coordinator, rounds, starts>>
-----------------------------------------------------------------------------
(* Time and the coordinator. *)

ComesDue(j) ==
  /\ running /\ rounds < MaxRounds /\ j \in tasks \ due
  /\ due' = due \cup {j} /\ rounds' = rounds + 1
  /\ late' = IF AwaitsWorker(j) THEN late \cup {j} ELSE late
  /\ UNCHANGED <<running, tasks, cancelled, flag, ready, worker, coordinator, stopper, starts>>

CoordinatorLooks ==
  /\ coordinator.at = "loop"
  /\ coordinator' = IF ~running THEN [at |-> "ended", left |-> {}]
                    ELSE [at |-> "scan", left |-> tasks]
  /\ UNCHANGED <<jobState, running, ready, worker, stopper, starts>>

Due(j) == j \in due /\ j \notin flag /\ j \notin cancelled

\* Mutants: the running flag is not looked at; the lock of the queue is not taken.
DueAgain(j) ==
  /\ coordinator.at = "scan" /\ j \in coordinator.left /\ j \in due \ cancelled
  /\ ~QueueLocked
  /\ ready' = Append(ready, j) /\ due' = due \ {j}
  /\ coordinator' = [at |-> "notify", left |-> coordinator.left \ {j}]
  /\ UNCHANGED <<running, tasks, cancelled, flag, worker, stopper, late, rounds, starts>>
PushesUnlocked(j) ==
  /\ coordinator.at = "scan" /\ j \in coordinator.left /\ Due(j)
  /\ ready' = Append(ready, j) /\ due' = due \ {j}
  /\ coordinator' = [at |-> "notify", left |-> coordinator.left \ {j}]
  /\ UNCHANGED <<running, tasks, cancelled, flag, worker, stopper, late, rounds, starts>>

Enqueue(j) ==
  /\ coordinator.at = "scan" /\ j \in coordinator.left /\ Due(j)
  /\ ~QueueLocked
  /\ ready' = Append(ready, j) /\ due' = due \ {j}
  /\ coordinator' = [at |-> "notify", left |-> coordinator.left \ {j}]
  /\ UNCHANGED <<running, tasks, cancelled, flag, worker, stopper, late, rounds, starts>>

Skip(j) ==
  /\ coordinator.at = "scan" /\ j \in coordinator.left /\ ~Due(j)
  /\ coordinator' = [coordinator EXCEPT !.left = @ \ {j}]
  /\ UNCHANGED <<jobState, running, ready, worker, stopper, starts>>

NotifyOne ==
  /\ coordinator.at = "notify" /\ coordinator' = [coordinator EXCEPT !.at = "scan"]
  /\ IF InState("waiting") = {} THEN UNCHANGED worker
     ELSE \E w \in InState("waiting") : worker' = [worker EXCEPT ![w] = Looking]
  /\ UNCHANGED <<jobState, running, ready, stopper, starts>>

Rests ==
  /\ coordinator.at = "scan" /\ coordinator.left = {}
  /\ coordinator' = [coordinator EXCEPT !.at = "loop"]
  /\ UNCHANGED <<jobState, running, ready, worker, stopper, starts>>
-----------------------------------------------------------------------------
(* Workers. *)

WorkerAt(w, at) == worker[w].at = at
WorkerOnly == UNCHANGED <<tasks, due, cancelled, late, rounds, running, coordinator, stopper, starts>>

\* Mutant: a worker that was woken does not look whether the scheduler stops.
LooksForWork(w) ==
  /\ WorkerAt(w, "loop") /\ ~QueueLocked
  /\ \/ /\ ready # <<>>
        /\ worker' = [worker EXCEPT ![w] = [at |-> "took", job |-> Head(ready)]]
        /\ ready' = Tail(ready)
     \/ /\ ready = <<>>
        /\ worker' = [worker EXCEPT ![w].at = "deciding"] /\ UNCHANGED ready
  /\ WorkerOnly /\ UNCHANGED flag

\* With the lock held: end, take a job, or decide to wait.
WorkerLooks(w) ==
  /\ WorkerAt(w, "loop") /\ ~QueueLocked
  /\ \/ /\ ~running
        /\ worker' = [worker EXCEPT ![w] = Ended] /\ UNCHANGED ready
     \/ /\ running /\ ready # <<>>
        /\ worker' = [worker EXCEPT ![w] = [at |-> "took", job |-> Head(ready)]]
        /\ ready' = Tail(ready)
     \/ /\ running /\ ready = <<>>
        /\ worker' = [worker EXCEPT ![w].at = "deciding"] /\ UNCHANGED ready
  /\ WorkerOnly /\ UNCHANGED flag

WorkerWaits(w) ==
  /\ WorkerAt(w, "deciding")
  /\ worker' = [worker EXCEPT ![w].at = "waiting"]
  /\ WorkerOnly /\ UNCHANGED <<ready, flag>>

WakesUp(w) ==
  /\ WorkerAt(w, "waiting") /\ worker' = [worker EXCEPT ![w] = Looking]
  /\ WorkerOnly /\ UNCHANGED <<ready, flag>>

\* Mutant: the flag is looked at no more once a job was queued.
RunsCancelled(w) ==
  /\ WorkerAt(w, "took")
  /\ worker' = [worker EXCEPT ![w].at = "checked"]
  /\ WorkerOnly /\ UNCHANGED <<ready, flag>>

WorkerChecks(w) ==
  /\ WorkerAt(w, "took")
  /\ worker' = [worker EXCEPT ![w] =
       IF @.job \in cancelled THEN Looking ELSE [@ EXCEPT !.at = "checked"]]
  /\ WorkerOnly /\ UNCHANGED <<ready, flag>>

WorkerRuns(w) ==
  /\ WorkerAt(w, "checked")
  /\ worker' = [worker EXCEPT ![w].at = "runs"]
  /\ flag' = flag \cup {worker[w].job}
  /\ WorkerOnly /\ UNCHANGED ready

\* Mutants: the worker keeps its pointer; a job that throws keeps its flag.
KeepsPointer(w) ==
  /\ WorkerAt(w, "runs")
  /\ worker' = [worker EXCEPT ![w].at = "loop"]
  /\ flag' = flag \ {worker[w].job}
  /\ WorkerOnly /\ UNCHANGED ready
KeepsFlag(w) ==
  /\ WorkerAt(w, "runs")
  /\ worker' = [worker EXCEPT ![w] = Looking]
  /\ \/ flag' = flag \ {worker[w].job}
     \/ UNCHANGED flag
  /\ WorkerOnly /\ UNCHANGED ready

\* The flag of the job is cleared, also when another worker runs it as well.
WorkerDone(w) ==
  /\ WorkerAt(w, "runs")
  /\ worker' = [worker EXCEPT ![w] = Looking]
  /\ flag' = flag \ {worker[w].job}
  /\ WorkerOnly /\ UNCHANGED ready
-----------------------------------------------------------------------------
WorkerStep(w) ==
  \/ WorkerLooks(w) \/ WorkerWaits(w) \/ WorkerChecks(w) \/ WorkerRuns(w) \/ WorkerDone(w)
CoordinatorStep ==
  \/ CoordinatorLooks \/ NotifyOne \/ Rests
  \/ \E j \in Jobs : Enqueue(j) \/ Skip(j)
StopStep == StopNotifies \/ StopClears
SchedulerNext ==
  \/ start \/ StopStores \/ StopStep \/ CoordinatorStep
  \/ \E j \in Jobs : scheduleAtFixedRate(j) \/ cancel(j) \/ ComesDue(j)
  \/ \E w \in Workers : WorkerStep(w) \/ WakesUp(w)

SchedulerSpec == SchedulerInit /\ [][SchedulerNext]_schedulerVars
\* Threads run, jobs return, and a thread that asks for queue_mutex_ again and
\* again gets it some day.
SchedulerFairness ==
  /\ SF_schedulerVars(CoordinatorStep) /\ WF_schedulerVars(StopStep)
  /\ \A w \in Workers : SF_schedulerVars(WorkerStep(w))
FairSchedulerSpec == SchedulerSpec /\ SchedulerFairness
-----------------------------------------------------------------------------
SchedulerTypeOK ==
  /\ running \in BOOLEAN /\ stopper \in {"idle", "notify", "join"}
  /\ tasks \subseteq Jobs /\ due \subseteq Jobs /\ cancelled \subseteq Jobs
  /\ flag \subseteq Jobs /\ late \subseteq Jobs
  /\ ready \in Seq(Jobs)
  /\ worker \in [Workers -> [at: {"ended", "loop", "deciding", "waiting", "took", "checked", "runs"},
                             job: Jobs \cup {NoJob}]]
  /\ \A w \in Workers : worker[w].job # NoJob <=> worker[w].at \in {"took", "checked", "runs"}
  /\ coordinator \in [at: {"ended", "loop", "scan", "notify"}, left: SUBSET Jobs]
  /\ rounds \in 0..MaxRounds /\ starts \in 0..MaxStarts

\* "All threads are joined, so no one races with these clears": no thread holds
\* a pointer to a task that stop() has removed (background_scheduler.h:80).
NoDanglingTask ==
  /\ \A w \in Workers : worker[w].job # NoJob => worker[w].job \in tasks
  /\ \A i \in DOMAIN ready : ready[i] \in tasks
  /\ coordinator.left \subseteq tasks

\* No wake-up for a job is lost: while workers sleep, each queued job has a worker
\* that looks for one, or the coordinator is about to notify (queue_cv_).
NoSleepOnWork ==
  running /\ InState("waiting") # {} =>
    Len(ready) <= Cardinality(InState("loop")) + (IF coordinator.at = "notify" THEN 1 ELSE 0)

\* A job does not run twice at once, unless it came due again while it waited for
\* a worker (running is set only when it is run).
OneRunUnlessLate == \A j \in Jobs \ late : Cardinality(Running(j)) <= 1

\* Threads, queue and flags fit together through starts and stops.
SchedulerInvariant ==
  SchedulerTypeOK /\ NoDanglingTask /\ NoSleepOnWork /\ OneRunUnlessLate

\* "PreventsReentrancy" (tests/test_background_scheduler.cpp:29), for every job.
PreventsReentrancy == \A j \in Jobs : Cardinality(Running(j)) <= 1

\* A job that is due is run, unless it is cancelled or the scheduler stops.
DueJobsRun == \A j \in Jobs :
  (running /\ j \in due) ~> (~running \/ j \in cancelled \/ Running(j) # {})

\* A cancelled job that no worker has in hand is not run again, although it may
\* be in the queue, and more than once (background_scheduler.h:130).
InHand(j) == {w \in InState("checked") \cup InState("runs") : worker[w].job = j}
CancelledStaysQuiet ==
  [][\A j \in cancelled \cap cancelled' : InHand(j) = {} => InHand(j)' = {}]_schedulerVars

\* stop() returns, unless a worker had found no work and was about to wait when
\* running_ was set (it waits without being notified then).
StopReturns ==
  (stopper = "join" /\ \A w \in Workers : ~(WorkerAt(w, "deciding") \/ WorkerAt(w, "waiting"))) ~> stopper = "idle"

\* What must happen while the scheduler runs, and at its end.
SchedulerProgress == DueJobsRun /\ StopReturns

\* stop() always returns.
StopAlwaysReturns == stopper = "join" ~> stopper = "idle"
=============================================================================
