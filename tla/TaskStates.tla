----------------------------- MODULE TaskStates -----------------------------
(***************************************************************************)
(* TaskManagerWrapper over a2a::TaskManager and MemoryTaskStore.  Each     *)
(* call of the store holds its mutex and is one step; a call that reads a  *)
(* task, checks it and writes it lets others in between.  One context.     *)
(***************************************************************************)
EXTENDS Integers, Sequences, FiniteSets

CONSTANTS
  Tasks, TaskCallers,
  MaxAdded       \* bound: messages added to a task

ASSUME TaskBounds == MaxAdded \in Nat

VARIABLES
  store,         \* MemoryTaskStore::tasks_
  tracked,       \* context_to_tasks_: how often each task is listed
  taskCall,      \* the calls
  added,         \* messages accepted for each task
  told,          \* state_change_callback_: the last state told of each task
  raced          \* tasks changed by two calls at once
taskVars == <<store, tracked, taskCall, added, told, raced>>

Terminal == {"Completed", "Failed", "Canceled", "Rejected"}
TaskStateNames == {"Submitted", "Running"} \cup Terminal
NoTask == [state |-> "none", history |-> 0]
Stored == {NoTask} \cup [state: TaskStateNames, history: 0..MaxAdded]
NoTaskCall == [at |-> "idle"]
TaskCallStates ==
  {NoTaskCall} \cup [at: {"store", "track"}, task: Tasks]
  \cup [at: {"read", "write", "tell"}, task: Tasks, to: TaskStateNames, seen: Stored, cancels: BOOLEAN]

isValidTransition(from, to) ==
  \/ from = "Submitted" /\ to \in {"Running", "Canceled", "Rejected"}
  \/ from = "Running" /\ to \in {"Completed", "Failed", "Canceled"}

TasksInit ==
  /\ store = [t \in Tasks |-> NoTask] /\ tracked = [t \in Tasks |-> 0]
  /\ taskCall = [c \in TaskCallers |-> NoTaskCall]
  /\ added = [t \in Tasks |-> 0] /\ told = [t \in Tasks |-> "none"] /\ raced = {}

CallAt(c, at) == taskCall[c].at = at
CallTo(c, at) == taskCall' = [taskCall EXCEPT ![c].at = at]
CallEnds(c) == taskCall' = [taskCall EXCEPT ![c] = NoTaskCall]
-----------------------------------------------------------------------------
(* createTask: the id is new, the task is stored, the callback lists it. *)

createTask(c, t) ==
  /\ taskCall[c] = NoTaskCall /\ store[t] = NoTask
  /\ \A d \in TaskCallers : taskCall[d] # NoTaskCall => taskCall[d].task # t
  /\ taskCall' = [taskCall EXCEPT ![c] = [at |-> "store", task |-> t]]
  /\ UNCHANGED <<store, tracked, added, told, raced>>

\* Mutant: the wrapper lists the task as well as the callback.
ListsToo(c) ==
  /\ CallAt(c, "store")
  /\ store' = [store EXCEPT ![taskCall[c].task] = [NoTask EXCEPT !.state = "Submitted"]]
  /\ tracked' = [tracked EXCEPT ![taskCall[c].task] = @ + 1]
  /\ CallTo(c, "track") /\ UNCHANGED <<added, told, raced>>

StoreTask(c) ==
  /\ CallAt(c, "store")
  /\ store' = [store EXCEPT ![taskCall[c].task] = [NoTask EXCEPT !.state = "Submitted"]]
  /\ CallTo(c, "track") /\ UNCHANGED <<tracked, added, told, raced>>

trackContextTask(c) ==
  /\ CallAt(c, "track")
  /\ tracked' = [tracked EXCEPT ![taskCall[c].task] = @ + 1]
  /\ CallEnds(c) /\ UNCHANGED <<store, added, told, raced>>
-----------------------------------------------------------------------------
(* updateTaskState and cancelTask. *)

Changing(t) == {c \in TaskCallers : taskCall[c].at \in {"read", "write", "tell"} /\ taskCall[c].task = t}
BeginsChange(c, t, at, to, cancels) ==
  /\ taskCall[c] = NoTaskCall /\ store[t] # NoTask
  /\ taskCall' = [taskCall EXCEPT ![c] =
       [at |-> at, task |-> t, to |-> to, seen |-> store[t], cancels |-> cancels]]
  /\ raced' = IF Changing(t) = {} THEN raced ELSE raced \cup {t}
  /\ UNCHANGED <<store, tracked, added, told>>

\* Mutant: only the state to come is looked at.
UpdatesAny(c, t, to) ==
  to # "Submitted" /\ BeginsChange(c, t, "write", to, FALSE)

\* An update that is not allowed is refused before it does anything.
updateTaskState(c, t, to) ==
  isValidTransition(store[t].state, to) /\ BeginsChange(c, t, "write", to, FALSE)

\* The wrapper reads the task for the callback; the manager reads it again.
cancelTask(c, t) == BeginsChange(c, t, "read", "Canceled", TRUE)

\* Mutant: only a task that was cancelled before is refused.
CancelsFinished(c) ==
  /\ CallAt(c, "read")
  /\ IF store[taskCall[c].task].state = "Canceled" THEN CallEnds(c) ELSE CallTo(c, "write")
  /\ UNCHANGED <<store, tracked, added, told, raced>>

CheckCancel(c) ==
  /\ CallAt(c, "read")
  /\ IF store[taskCall[c].task].state \in Terminal THEN CallEnds(c) ELSE CallTo(c, "write")
  /\ UNCHANGED <<store, tracked, added, told, raced>>

\* Mutants: the task is stored as it was read; it is stored with its state alone.
WritesCopy(c) ==
  /\ CallAt(c, "write")
  /\ LET call == taskCall[c] IN
       store' = [store EXCEPT ![call.task] = [call.seen EXCEPT !.state = call.to]]
  /\ CallTo(c, "tell") /\ UNCHANGED <<tracked, added, told, raced>>
WritesState(c) ==
  /\ CallAt(c, "write")
  /\ store' = [store EXCEPT ![taskCall[c].task] = [state |-> taskCall[c].to]]
  /\ CallTo(c, "tell") /\ UNCHANGED <<tracked, added, told, raced>>

\* Only the status is written; it is not compared with what was read.
update_status(c) ==
  /\ CallAt(c, "write")
  /\ store' = [store EXCEPT ![taskCall[c].task].state = taskCall[c].to]
  /\ CallTo(c, "tell") /\ UNCHANGED <<tracked, added, told, raced>>

\* Mutant: only an update calls the callback.
TellsUpdates(c) ==
  /\ CallAt(c, "tell")
  /\ told' = IF taskCall[c].cancels THEN told
             ELSE [told EXCEPT ![taskCall[c].task] = taskCall[c].to]
  /\ CallEnds(c) /\ UNCHANGED <<store, tracked, added, raced>>

TellChange(c) ==
  /\ CallAt(c, "tell")
  /\ told' = [told EXCEPT ![taskCall[c].task] = taskCall[c].to]
  /\ CallEnds(c) /\ UNCHANGED <<store, tracked, added, raced>>
-----------------------------------------------------------------------------
addMessage(t) ==
  /\ store[t] # NoTask /\ added[t] < MaxAdded
  /\ added' = [added EXCEPT ![t] = @ + 1]
  /\ store' = [store EXCEPT ![t].history = @ + 1]
  /\ UNCHANGED <<tracked, taskCall, told, raced>>

TaskCallStep(c) ==
  \/ StoreTask(c) \/ trackContextTask(c)
  \/ CheckCancel(c) \/ update_status(c) \/ TellChange(c)
TasksNext ==
  \/ \E t \in Tasks : addMessage(t)
  \/ \E c \in TaskCallers :
       \/ TaskCallStep(c)
       \/ \E t \in Tasks :
            \/ createTask(c, t) \/ cancelTask(c, t)
            \/ \E to \in TaskStateNames : updateTaskState(c, t, to)

TasksSpec == TasksInit /\ [][TasksNext]_taskVars
-----------------------------------------------------------------------------
TasksTypeOK ==
  /\ store \in [Tasks -> Stored]
  /\ tracked \in [Tasks -> Nat]
  /\ taskCall \in [TaskCallers -> TaskCallStates]
  /\ added \in [Tasks -> 0..MaxAdded]
  /\ told \in [Tasks -> TaskStateNames \cup {"none"}] /\ raced \subseteq Tasks

CallsAt(at, t) == {c \in TaskCallers : CallAt(c, at) /\ taskCall[c].task = t}

\* The history of a context holds each message once: no update of a task's status
\* loses one, and no task is listed twice (getHistory reads all that are listed).
HistoryKept ==
  \A t \in Tasks :
    /\ store[t].history = added[t]
    /\ tracked[t] = (IF store[t] = NoTask \/ CallsAt("track", t) # {} THEN 0 ELSE 1)

\* A task that has ended and that no earlier call is about to write stays as it is
\* for ever, whatever calls follow (isValidTransition, is_terminal).
EndedStaysEnded ==
  [][\A t \in Tasks : store[t].state \in Terminal /\ CallsAt("write", t) = {} =>
       store'[t].state = store[t].state /\ CallsAt("write", t)' = {}]_taskVars

\* When no call is under way, the last change told is the state of the task, unless
\* two changes overlapped and were told in the other order.
ListenersUpToDate ==
  \A t \in Tasks \ raced : Changing(t) = {} /\ store[t].state \notin {"none", "Submitted"} =>
    told[t] = store[t].state

\* Store, contexts and listeners agree, whichever calls overlap.
TasksInvariant == TasksTypeOK /\ HistoryKept /\ ListenersUpToDate

\* "Terminal states cannot transition" (task_manager_wrapper.cpp:17).
TerminalIsFinal ==
  [][\A t \in Tasks : store[t].state \in Terminal => store'[t].state = store[t].state]_taskVars
=============================================================================
