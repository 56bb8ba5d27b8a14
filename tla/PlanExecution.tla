--------------------------- MODULE PlanExecution ---------------------------
(***************************************************************************)
(* What TaskExecutor::execute promises about a plan: it is refused or      *)
(* executed; that a subtask is called is decided before the deadline, when *)
(* each one it depends on has its result, and then it is called once; a    *)
(* result is what the call has led to, or a timeout once the deadline is   *)
(* reached; it is given once; and execute returns with all results and     *)
(* leaves no call behind.  There are no layers, futures or threads:        *)
(* subtasks may start in any order that the plan allows.                   *)
(***************************************************************************)
EXTENDS Integers

CONSTANT Plans    \* what the planner may return

VARIABLES
  tasks,          \* the plan: a list of ids and what each depends on
  admitted,       \* subtasks that will be called, whatever the clock says by then
  call, result,   \* of each subtask
  clock,          \* before the deadline, in its last millisecond, or past it
  phase
vars == <<tasks, admitted, call, result, clock, phase>>

Planned == {tasks[n].id : n \in DOMAIN tasks}
DependsOn(i) == UNION {tasks[n].deps : n \in {m \in DOMAIN tasks : tasks[m].id = i}}

\* Each id is given once, and no subtasks wait for each other in a circle.
Executable ==
  /\ \A m, n \in DOMAIN tasks : tasks[m].id = tasks[n].id => m = n
  /\ \A S \in (SUBSET Planned) \ {{}} : \E i \in S : DependsOn(i) \cap S = {}

Unanswered == {i \in Planned : result[i] = "none"}
Running == {i \in Planned : call[i] = "running"}

Init ==
  /\ tasks \in Plans /\ admitted = {}
  /\ call = [i \in Planned |-> "idle"]
  /\ result = [i \in Planned |-> "none"]
  /\ clock = "early"
  /\ phase = "planned"

Accept ==
  /\ phase = "planned" /\ Executable
  /\ phase' = "running"
  /\ UNCHANGED <<tasks, admitted, call, result, clock>>

Refuse ==
  /\ phase = "planned" /\ ~Executable
  /\ phase' = "refused"
  /\ UNCHANGED <<tasks, admitted, call, result, clock>>

\* Nothing is admitted past the deadline.
Admit(S) ==
  /\ phase = "running" /\ clock # "past"
  /\ \A i \in S : i \in Unanswered \ admitted /\ DependsOn(i) \cap Unanswered = {}
  /\ admitted' = admitted \cup S
  /\ UNCHANGED <<tasks, call, result, clock, phase>>

\* Between the two, time may pass: prompts are built and the client is told.
Start(i) ==
  /\ phase = "running" /\ i \in admitted /\ call[i] = "idle"
  /\ call' = [call EXCEPT ![i] = "running"]
  /\ UNCHANGED <<tasks, admitted, result, clock, phase>>

Answer(i) ==
  /\ call[i] = "running"
  /\ \E outcome \in {"ok", "failed"} : call' = [call EXCEPT ![i] = outcome]
  /\ UNCHANGED <<tasks, admitted, result, clock, phase>>

Record(i) ==
  /\ phase = "running"
  /\ result[i] = "none" /\ call[i] \in {"ok", "failed"}
  /\ result' = [result EXCEPT ![i] = call[i]]
  /\ UNCHANGED <<tasks, admitted, call, clock, phase>>

\* The call is not waited for any longer; what it leads to is dropped.
TimeOut(i) ==
  /\ phase = "running" /\ clock # "early"
  /\ result[i] = "none" /\ call[i] # "idle"
  /\ result' = [result EXCEPT ![i] = "timeout"]
  /\ UNCHANGED <<tasks, admitted, call, clock, phase>>

\* What has not been admitted when the deadline is reached is not called any more.
GiveUp ==
  /\ phase = "running" /\ clock # "early"
  /\ Running = {} /\ Unanswered \cap admitted = {}
  /\ result' = [i \in Planned |-> IF i \in Unanswered THEN "timeout" ELSE result[i]]
  /\ phase' = "returned"
  /\ UNCHANGED <<tasks, admitted, call, clock>>

Return ==
  /\ phase = "running" /\ Running = {} /\ Unanswered = {}
  /\ phase' = "returned"
  /\ UNCHANGED <<tasks, admitted, call, result, clock>>

TimePasses ==
  /\ \/ clock = "early" /\ clock' = "lastMs"
     \/ clock = "lastMs" /\ clock' = "past"
  /\ UNCHANGED <<tasks, admitted, call, result, phase>>

Next ==
  \/ Accept \/ Refuse \/ GiveUp \/ Return \/ TimePasses
  \/ \E S \in (SUBSET Planned) \ {{}} : Admit(S)
  \/ \E i \in Planned : Start(i) \/ Answer(i) \/ Record(i) \/ TimeOut(i)

Spec == Init /\ [][Next]_vars
=============================================================================
