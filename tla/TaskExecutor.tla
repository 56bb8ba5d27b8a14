---------------------------- MODULE TaskExecutor ----------------------------
(***************************************************************************)
(* TaskExecutor::execute: the subtasks of a plan in topological layers, a  *)
(* layer of several in threads of std::async.  The executor's thread reads *)
(* the clock in some steps and acts in later ones; the global deadline may *)
(* pass in between.  Of a call only its outcome matters: an agent could    *)
(* not be found, failed or timed out, or has answered.                     *)
(***************************************************************************)
EXTENDS Integers, Sequences, FiniteSets

CONSTANTS
  Ids,       \* ids of subtasks, in their order as strings
  Answers    \* task lists the planner's model may return

Entries == [id: Ids, deps: SUBSET Ids]

ASSUME IdAssumption == Ids \subseteq Nat /\ IsFiniteSet(Ids)
ASSUME AnswerAssumption == Answers \subseteq Seq(Entries) \ {<<>>}

VARIABLES
  tasks,      \* plan.tasks
  degree, ready, layers,   \* topologicalLayers
  at,         \* number of the current layer
  pending,    \* futures whose result has not been collected
  worker,     \* the call for each subtask
  result, progress,
  clock,      \* before the global deadline, in the last millisecond, or past it
  pc
vars == <<tasks, degree, ready, layers, at, pending, worker, result, progress, clock, pc>>
sorting == <<tasks, degree, ready, layers>>

IdsOf(list) == {list[n].id : n \in DOMAIN list}
Planned == IdsOf(tasks)
DepsOf(i) == UNION {tasks[n].deps : n \in {m \in DOMAIN tasks : tasks[m].id = i}}

Outcomes == {"ok", "failed"}
Results == {"none", "timeout"} \cup Outcomes
Calls == {"idle", "running"} \cup Outcomes
Steps == {"sort", "layer", "single", "call", "calling", "start", "collect", "waiting", "join",
          "done", "thrown"}

Layer == layers[at]
First(S) == CHOOSE i \in S : \A j \in S : i <= j
Marked(S, value, f) == [i \in DOMAIN f |-> IF i \in S THEN value ELSE f[i]]

\* Dependencies on subtasks that are not in the plan are dropped.
parsePlanResponse(answer) ==
  [n \in DOMAIN answer |-> [answer[n] EXCEPT !.deps = @ \cap IdsOf(answer)]]

\* Mutant: a second entry of an id resets its count.
LastDegree(list, i) ==
  LET n == CHOOSE n \in DOMAIN list : list[n].id = i /\ \A m \in DOMAIN list : list[m].id = i => m <= n
  IN  Cardinality(list[n].deps)

InDegree(list, i) ==
  Cardinality({e \in (DOMAIN list) \X Ids : list[e[1]].id = i /\ e[2] \in list[e[1]].deps})

Init ==
  /\ tasks \in {parsePlanResponse(answer) : answer \in Answers}
  /\ degree = [i \in Planned |-> InDegree(tasks, i)]
  /\ ready = {i \in Planned : degree[i] = 0}
  /\ layers = <<>> /\ at = 1 /\ pending = {}
  /\ worker = [i \in Planned |-> "idle"]
  /\ result = [i \in Planned |-> "none"]
  /\ progress = [i \in Planned |-> "none"]
  /\ clock = "early"
  /\ pc = "sort"
------------------------------------------------------------------------------
(* topologicalLayers. *)

\* The edges into i that are removed with the ids of a layer.
EdgesFrom(S, i) ==
  {e \in (DOMAIN tasks) \X S : tasks[e[1]].id = i /\ e[2] \in tasks[e[1]].deps}

\* Mutant: one dependency is enough.
EmitAny ==
  /\ pc = "sort" /\ ready # {}
  /\ layers' = Append(layers, ready)
  /\ degree' = [i \in Planned |-> degree[i] - Cardinality(EdgesFrom(ready, i))]
  /\ ready' = {i \in Planned : degree'[i] # degree[i]}
  /\ UNCHANGED <<tasks, at, pending, worker, result, progress, clock, pc>>

EmitLayer ==
  /\ pc = "sort" /\ ready # {}
  /\ layers' = Append(layers, ready)
  /\ degree' = [i \in Planned |-> degree[i] - Cardinality(EdgesFrom(ready, i))]
  /\ ready' = {i \in Planned : degree[i] # 0 /\ degree'[i] = 0}
  /\ UNCHANGED <<tasks, at, pending, worker, result, progress, clock, pc>>

Emitted == {i \in Planned : \E n \in DOMAIN layers : i \in layers[n]}

\* Mutant: only a plan in which nothing can start is refused.
RefuseStuck ==
  /\ pc = "sort" /\ ready = {}
  /\ pc' = IF layers = <<>> THEN "thrown" ELSE "layer"
  /\ UNCHANGED <<sorting, at, pending, worker, result, progress, clock>>

EndSort ==
  /\ pc = "sort" /\ ready = {}
  /\ pc' = IF Cardinality(Emitted) < Len(tasks) THEN "thrown" ELSE "layer"
  /\ UNCHANGED <<sorting, at, pending, worker, result, progress, clock>>
------------------------------------------------------------------------------
(* The layers. *)

\* Before a layer the time points are compared; later it is the remaining time,
\* cut to whole milliseconds.
Late == clock = "past"
OutOfTime == clock # "early"

\* Subtasks of this layer and later ones that have no result yet.
Remaining == {i \in Planned : result[i] = "none" /\ \E n \in at..Len(layers) : i \in layers[n]}

\* Mutant: only the current layer is marked.
TimeOutLayer ==
  /\ pc = "layer" /\ at <= Len(layers) /\ Late
  /\ result' = Marked(Remaining \cap Layer, "timeout", result)
  /\ pc' = "done"
  /\ UNCHANGED <<sorting, at, pending, worker, progress, clock>>

TimeOutRest ==
  /\ pc = "layer" /\ at <= Len(layers) /\ Late
  /\ result' = Marked(Remaining, "timeout", result)
  /\ pc' = "done"
  /\ UNCHANGED <<sorting, at, pending, worker, progress, clock>>

StartSingle ==
  /\ pc = "layer" /\ at <= Len(layers) /\ ~Late /\ Cardinality(Layer) = 1
  /\ progress' = Marked(Layer, "start", progress)
  /\ pc' = "single"
  /\ UNCHANGED <<sorting, at, pending, worker, result, clock>>

\* The deadline is looked at once more, and then the call is made in this thread.
TimeOutSingle ==
  /\ pc = "single" /\ OutOfTime
  /\ result' = Marked(Remaining, "timeout", result)
  /\ pc' = "done"
  /\ UNCHANGED <<sorting, at, pending, worker, progress, clock>>
TimeLeft ==
  /\ pc = "single" /\ ~OutOfTime
  /\ pc' = "call"
  /\ UNCHANGED <<sorting, at, pending, worker, result, progress, clock>>
CallSingle ==
  /\ pc = "call"
  /\ worker' = Marked(Layer, "running", worker)
  /\ pc' = "calling"
  /\ UNCHANGED <<sorting, at, pending, result, progress, clock>>

\* What a subtask leads to is recorded and reported to the client.
Record(i, value) ==
  /\ result' = [result EXCEPT ![i] = value]
  /\ progress' = [progress EXCEPT ![i] = IF value = "ok" THEN "complete" ELSE "failed"]

EndSingle ==
  /\ pc = "calling"
  /\ \E i \in Layer : worker[i] \in Outcomes /\ Record(i, worker[i])
  /\ at' = at + 1 /\ pc' = "layer"
  /\ UNCHANGED <<sorting, pending, worker, clock>>

StartLayer ==
  /\ pc = "layer" /\ at <= Len(layers) /\ ~Late /\ Cardinality(Layer) # 1
  /\ pc' = "start"
  /\ UNCHANGED <<sorting, at, pending, worker, result, progress, clock>>

\* One after the other is reported and started in a thread of its own; the clock is
\* not looked at in between.
StartSubtask ==
  /\ pc = "start" /\ pending # Layer
  /\ LET i == First(Layer \ pending) IN
       /\ worker' = [worker EXCEPT ![i] = "running"]
       /\ progress' = [progress EXCEPT ![i] = "start"]
       /\ pending' = pending \cup {i}
  /\ UNCHANGED <<sorting, at, result, clock, pc>>
AllStarted ==
  /\ pc = "start" /\ pending = Layer
  /\ pc' = "collect"
  /\ UNCHANGED <<sorting, at, pending, worker, result, progress, clock>>

\* The futures are collected in order, each as long as time remains.
SkipFuture ==
  /\ pc = "collect" /\ pending # {} /\ OutOfTime
  /\ Record(First(pending), "timeout")
  /\ pending' = pending \ {First(pending)}
  /\ UNCHANGED <<sorting, at, worker, clock, pc>>
AwaitFuture ==
  /\ pc = "collect" /\ pending # {} /\ ~OutOfTime
  /\ pc' = "waiting"
  /\ UNCHANGED <<sorting, at, pending, worker, result, progress, clock>>

\* Mutant: the event is sent for what the future holds by then.
ReportFuture ==
  /\ pc = "waiting"
  /\ LET i == First(pending) IN
       /\ \/ worker[i] \in Outcomes /\ result' = [result EXCEPT ![i] = worker[i]]
          \/ OutOfTime /\ result' = [result EXCEPT ![i] = "timeout"]
       /\ progress' = [progress EXCEPT ![i] = IF worker[i] = "ok" THEN "complete" ELSE "failed"]
       /\ pending' = pending \ {i}
  /\ pc' = "collect"
  /\ UNCHANGED <<sorting, at, worker, clock>>

\* Mutant: a wait that ends early is taken for the end of the time.
TimesOutEarly ==
  /\ pc = "waiting"
  /\ LET i == First(pending) IN
       /\ \/ worker[i] \in Outcomes /\ Record(i, worker[i])
          \/ Record(i, "timeout")
       /\ pending' = pending \ {i}
  /\ pc' = "collect"
  /\ UNCHANGED <<sorting, at, worker, clock>>

CollectFuture ==
  /\ pc = "waiting"
  /\ LET i == First(pending) IN
       /\ \/ worker[i] \in Outcomes /\ Record(i, worker[i])
          \/ OutOfTime /\ Record(i, "timeout")
       /\ pending' = pending \ {i}
  /\ pc' = "collect"
  /\ UNCHANGED <<sorting, at, worker, clock>>

EndCollect ==
  /\ pc = "collect" /\ pending = {}
  /\ pc' = "join"
  /\ UNCHANGED <<sorting, at, pending, worker, result, progress, clock>>

Running == {i \in Planned : worker[i] = "running"}

\* Mutants: the futures that were given up are detached, or their answers kept.
DetachFutures ==
  /\ pc = "join"
  /\ at' = at + 1 /\ pc' = "layer"
  /\ UNCHANGED <<sorting, pending, worker, result, progress, clock>>
KeepLateAnswers ==
  /\ pc = "join" /\ Running = {}
  /\ result' = [i \in Planned |-> IF i \in Layer THEN worker[i] ELSE result[i]]
  /\ at' = at + 1 /\ pc' = "layer"
  /\ UNCHANGED <<sorting, pending, worker, progress, clock>>

\* The destructor of each future waits for its call to end.
JoinLayer ==
  /\ pc = "join" /\ Running = {}
  /\ at' = at + 1 /\ pc' = "layer"
  /\ UNCHANGED <<sorting, pending, worker, result, progress, clock>>

Return ==
  /\ pc = "layer" /\ at > Len(layers)
  /\ pc' = "done"
  /\ UNCHANGED <<sorting, at, pending, worker, result, progress, clock>>

executeSubtask(i) ==
  /\ worker[i] = "running"
  /\ \E outcome \in Outcomes : worker' = [worker EXCEPT ![i] = outcome]
  /\ UNCHANGED <<sorting, at, pending, result, progress, clock, pc>>

TimePasses ==
  /\ \/ clock = "early" /\ clock' = "lastMs"
     \/ clock = "lastMs" /\ clock' = "past"
  /\ UNCHANGED <<sorting, at, pending, worker, result, progress, pc>>

Executor ==
  \/ EmitLayer \/ EndSort
  \/ TimeOutRest \/ StartSingle \/ TimeOutSingle \/ TimeLeft \/ CallSingle \/ EndSingle
  \/ StartLayer \/ StartSubtask \/ AllStarted \/ SkipFuture \/ AwaitFuture \/ CollectFuture \/ EndCollect \/ JoinLayer
  \/ Return
Next == Executor \/ TimePasses \/ \E i \in Planned : executeSubtask(i)

Spec == Init /\ [][Next]_vars
------------------------------------------------------------------------------
Sorted == pc \notin {"sort", "thrown"}

TypeOK ==
  /\ tasks \in Seq(Entries)
  /\ degree \in [Planned -> Nat] /\ ready \subseteq Planned
  /\ layers \in Seq(SUBSET Planned) /\ at \in Nat \ {0} /\ pending \subseteq Planned
  /\ worker \in [Planned -> Calls]
  /\ result \in [Planned -> Results]
  /\ progress \in [Planned -> {"none", "start", "complete", "failed"}]
  /\ clock \in {"early", "lastMs", "past"} /\ pc \in Steps
  /\ pc \in {"single", "call", "calling", "start", "collect", "waiting", "join"} => at <= Len(layers)
  /\ pc = "waiting" => pending # {}

\* A plan is refused exactly when some of its subtasks wait for each other in
\* a circle or an id is given twice; what is executed else has each subtask in
\* one layer, the first one behind all its dependencies (topologicalLayers).
Circular == \E S \in SUBSET Planned : S # {} /\ \A i \in S : DepsOf(i) \cap S # {}
LayerOf(i) == {n \in DOMAIN layers : i \in layers[n]}
LayersCorrect ==
  /\ pc = "thrown" => Circular \/ Cardinality(Planned) < Len(tasks)
  /\ Sorted =>
       /\ ~Circular /\ Cardinality(Planned) = Len(tasks)
       /\ \A i \in Planned : \E n \in DOMAIN layers :
            /\ LayerOf(i) = {n}
            /\ \A d \in DepsOf(i) : \E m \in LayerOf(d) : m < n
            /\ n > 1 => \E d \in DepsOf(i) : LayerOf(d) = {n - 1}

\* No agent is called before each subtask that its own depends on has a result:
\* the prompt holds what every predecessor led to (buildSubtaskPrompt).
DependenciesFirst ==
  \A i \in Planned : worker[i] # "idle" => \A d \in DepsOf(i) : result[d] # "none"

\* A result that later subtasks may have read is never changed: an answer that
\* comes after the deadline does not replace the timeout.
ResultsFinal ==
  [][\A i \in Planned : result[i] # "none" => result'[i] = result[i]]_vars

\* The caller gets one result for each subtask, also for those that were never
\* started, wherever the deadline interrupts the execution.
EverySubtaskAnswered == pc = "done" => \A i \in Planned : result[i] # "none"

\* The client is told of a success exactly if the result is one, and by the
\* return at most one started subtask is left without an end event: one that
\* was about to be called in the executor's own thread when time ran out.
ProgressMatchesResults ==
  /\ \A i \in Planned : progress[i] = "complete" <=> result[i] = "ok"
  /\ \A i \in Planned : progress[i] = "failed" => result[i] \in {"failed", "timeout"}
  /\ \A i \in Planned :
       pc = "done" /\ progress[i] = "start" => Layer = {i} /\ result[i] = "timeout"

\* A call uses the plan, the prompt and the callback of the execution by
\* reference, so none is running outside its layer, also when it was given up.
NoCallOutlivesLayer ==
  Running # {} =>
    pc \in {"calling", "start", "collect", "waiting", "join"} /\ Running \subseteq Layer

\* A plan is executed as it was planned, and its results are complete and true,
\* wherever the deadline or a failing agent interrupts it.
ExecutorInvariant ==
  /\ TypeOK /\ LayersCorrect /\ DependenciesFirst
  /\ EverySubtaskAnswered /\ ProgressMatchesResults /\ NoCallOutlivesLayer

\* To its caller the executor is PlanExecution: the layers, the threads of a layer
\* and the order in which futures are collected do not show.
Phase ==
  CASE pc = "sort" -> "planned" [] pc = "thrown" -> "refused"
    [] pc = "done" -> "returned" [] OTHER -> "running"
Admitted ==
  {i \in Planned :
     \/ \E n \in 1..at - 1 : i \in layers[n]
     \/ pc \in {"call", "calling", "start", "collect", "waiting", "join"} /\ i \in Layer}
Plan == INSTANCE PlanExecution WITH
  Plans <- {parsePlanResponse(answer) : answer \in Answers}, call <- worker, phase <- Phase,
  admitted <- Admitted

\* A plan is refused only for a reason, and otherwise carried out in an order that
\* it allows: that an agent is called is decided before the deadline, and then it is
\* called once, although perhaps past the deadline; its result is what it answered
\* unless time was up, and at the return all is over (task_executor.cpp: execute).
ImplementsPlan == Plan!Spec

\* "DAG global timeout now actually cancels waiting on incomplete async tasks"
\* (task_executor.cpp:149-151): once the deadline has passed and every result
\* is recorded, nothing is waited for.
DeadlineEndsWaiting == clock = "past" /\ pc = "join" => Running = {}
=============================================================================
