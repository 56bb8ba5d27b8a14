--------------------------- MODULE Interventions ---------------------------
(***************************************************************************)
(* Sandbox queries that wait for a decision, and undoing the decision:     *)
(* SandboxQuery, InterventionResponse (UserExperienceServiceImpl) and      *)
(* UndoAction (AgentLifecycleServiceImpl).  One owner; a call is a series  *)
(* of transactions on interventions and undo_actions, and other calls run  *)
(* between them.  An execution is one run of the durable pipeline.         *)
(***************************************************************************)
EXTENDS Integers, FiniteSets

CONSTANTS
  Interventions,     \* ids, one for each sandbox query
  UndoIds,           \* ids of undo actions
  Sessions,          \* handlers
  MaxFailures        \* bound: transactions and executions that fail

ASSUME InterventionBounds == MaxFailures \in Nat
ASSUME InterventionNames == "none" \notin Interventions
\* A server has so many threads, a table so many rows.
ASSUME InterventionsFinite == IsFiniteSet(Sessions) /\ IsFiniteSet(UndoIds)

Reversible == {"PROCEED", "MODIFY", "SKIP"}
Executed == {"PROCEED", "MODIFY"}
Decisions == Reversible \cup {"ABORT"}

VARIABLES
  trusted,      \* autonomy_settings: level 3 or 4
  state,        \* interventions.state
  undo,         \* undo_actions: the intervention, whether undone, whether expired, and
                \* (history) the decision that it undoes
  session,      \* the handlers
  runs,         \* executions begun for each intervention
  lost,         \* history: interventions of calls that failed before their undo action
  unrun,        \* history: decisions to execute whose call failed before the execution
  failures
interventionVars == <<trusted, state, undo, session, runs, lost, unrun, failures>>
counts == <<runs, lost, unrun, failures>>

NoUndo == [for |-> "none", of |-> "none", used |-> FALSE, expired |-> FALSE]
UndoRows ==
  {NoUndo} \cup [for: Interventions, of: Reversible, used: BOOLEAN, expired: BOOLEAN]
Idle == [op |-> "idle"]
Handlers ==
  {Idle} \cup [op: {"query"}, for: Interventions, trusted: BOOLEAN]
         \cup [op: {"respond"}, for: Interventions, decision: Decisions,
               step: {"resolve", "undo", "execute"}]
         \cup [op: {"undo"}, id: UndoIds, step: {"read", "restore"}]

InterventionInit ==
  /\ trusted = FALSE
  /\ state = [i \in Interventions |-> "none"]
  /\ undo = [u \in UndoIds |-> NoUndo]
  /\ session = [s \in Sessions |-> Idle]
  /\ runs = [i \in Interventions |-> 0]
  /\ lost = {} /\ unrun = [i \in Interventions |-> 0] /\ failures = 0

EndCall(s) == session' = [session EXCEPT ![s] = Idle]
GoesTo(s, step) == session' = [session EXCEPT ![s].step = step]
Is(s, op, step) == session[s].op = op /\ session[s].step = step
-----------------------------------------------------------------------------
(* SandboxQuery: the owner's level is read first. *)

SetAutonomyLevel ==
  /\ trusted' = ~trusted
  /\ UNCHANGED <<state, undo, session, counts>>

SandboxQuery(s, i) ==
  /\ session[s] = Idle /\ state[i] = "none" /\ runs[i] = 0
  /\ \A t \in Sessions : session[t].op = "query" => session[t].for # i
  /\ session' = [session EXCEPT ![s] = [op |-> "query", for |-> i, trusted |-> trusted]]
  /\ UNCHANGED <<trusted, state, undo, counts>>

createIntervention(s) ==
  /\ session[s].op = "query" /\ ~session[s].trusted
  /\ state' = [state EXCEPT ![session[s].for] = "pending"]
  /\ EndCall(s) /\ UNCHANGED <<trusted, undo, counts>>

ExecuteAtOnce(s) ==
  /\ session[s].op = "query" /\ session[s].trusted
  /\ runs' = [runs EXCEPT ![session[s].for] = @ + 1]
  /\ EndCall(s) /\ UNCHANGED <<trusted, state, undo, lost, unrun, failures>>
-----------------------------------------------------------------------------
(* InterventionResponse. *)

Respond(s, i, decision) ==
  /\ session[s] = Idle /\ state[i] # "none"
  /\ session' = [session EXCEPT ![s] =
       [op |-> "respond", for |-> i, decision |-> decision, step |-> "resolve"]]
  /\ UNCHANGED <<trusted, state, undo, counts>>

Decided(s) ==
  LET i == session[s].for
      decision == session[s].decision IN
  /\ state' = [state EXCEPT ![i] = decision]
  /\ IF decision = "ABORT" THEN EndCall(s) ELSE GoesTo(s, "undo")

\* Mutants: the state is not named after the decision; whatever the row says, the
\* decision is written.
WritesResolved(s) ==
  /\ Is(s, "respond", "resolve")
  /\ IF state[session[s].for] = "pending"
     THEN state' = [state EXCEPT ![session[s].for] = "resolved"] /\ GoesTo(s, "undo")
     ELSE EndCall(s) /\ UNCHANGED state
  /\ UNCHANGED <<trusted, undo, counts>>
ResolvesAlways(s) ==
  /\ Is(s, "respond", "resolve")
  /\ Decided(s) /\ UNCHANGED <<trusted, undo, counts>>

\* One statement decides and checks that the row was pending.
resolveIntervention(s) ==
  /\ Is(s, "respond", "resolve")
  /\ IF state[session[s].for] = "pending" THEN Decided(s)
     ELSE EndCall(s) /\ UNCHANGED state
  /\ UNCHANGED <<trusted, undo, counts>>

AfterUndo(s) == IF session[s].decision \in Executed THEN GoesTo(s, "execute") ELSE EndCall(s)

WriteUndo(s) ==
  \E u \in UndoIds :
    /\ undo[u] = NoUndo
    /\ undo' = [undo EXCEPT ![u] = [@ EXCEPT !.for = session[s].for, !.of = session[s].decision]]

\* Mutant: no undo action for a query that was skipped.
UndoForExecuted(s) ==
  /\ Is(s, "respond", "undo")
  /\ IF session[s].decision = "SKIP" THEN UNCHANGED undo
     ELSE WriteUndo(s)
  /\ AfterUndo(s) /\ UNCHANGED <<trusted, state, counts>>

\* A transaction of its own.
createUndoAction(s) ==
  /\ Is(s, "respond", "undo")
  /\ WriteUndo(s)
  /\ AfterUndo(s) /\ UNCHANGED <<trusted, state, counts>>

\* The row is read again, for its text; its state is not looked at.
runSandboxExecution(s) ==
  /\ Is(s, "respond", "execute")
  /\ runs' = [runs EXCEPT ![session[s].for] = @ + 1]
  /\ EndCall(s) /\ UNCHANGED <<trusted, state, undo, lost, unrun, failures>>

\* The decision stands, but its call ends: without an undo action, and if it was one
\* to execute, without the execution.  Nobody can answer again.
NoUndoFor(s) == lost' = lost \cup {session[s].for}
NoRunFor(s) ==
  unrun' = [unrun EXCEPT ![session[s].for] =
              IF session[s].decision \in Executed THEN @ + 1 ELSE @]

\* A transaction fails, or is committed and its acknowledgement lost, or the server
\* stops: the call ends, what is committed stays.
CallFails(s) ==
  /\ session[s] # Idle /\ failures < MaxFailures /\ failures' = failures + 1
  /\ EndCall(s)
  /\ \/ /\ session[s].op # "respond" \/ Is(s, "respond", "resolve")
        /\ UNCHANGED <<state, undo, lost, unrun>>
     \/ /\ Is(s, "respond", "resolve") /\ state[session[s].for] = "pending"
        /\ state' = [state EXCEPT ![session[s].for] = session[s].decision]
        /\ NoUndoFor(s) /\ NoRunFor(s) /\ UNCHANGED undo
     \/ /\ Is(s, "respond", "undo") /\ NoRunFor(s)
        /\ \/ NoUndoFor(s) /\ UNCHANGED undo
           \/ WriteUndo(s) /\ UNCHANGED lost
        /\ UNCHANGED state
     \/ /\ Is(s, "respond", "execute") /\ NoRunFor(s)
        /\ UNCHANGED <<state, undo, lost>>
  /\ UNCHANGED <<trusted, runs>>
-----------------------------------------------------------------------------
(* UndoAction. *)

Expires(u) ==
  /\ undo[u] # NoUndo /\ ~undo[u].expired
  /\ undo' = [undo EXCEPT ![u].expired = TRUE]
  /\ UNCHANGED <<trusted, state, session, counts>>

UndoAction(s, u) ==
  /\ session[s] = Idle /\ undo[u] # NoUndo
  /\ session' = [session EXCEPT ![s] = [op |-> "undo", id |-> u, step |-> "read"]]
  /\ UNCHANGED <<trusted, state, undo, counts>>

getUndoActionById(s) ==
  /\ Is(s, "undo", "read")
  /\ IF undo[session[s].id].used \/ undo[session[s].id].expired THEN EndCall(s) ELSE GoesTo(s, "restore")
  /\ UNCHANGED <<trusted, state, undo, counts>>

Restores(u) ==
  LET i == undo[u].for IN
  /\ undo' = [undo EXCEPT ![u].used = TRUE]
  /\ state' = [state EXCEPT ![i] = "pending"]

\* Mutant: an action that was used is not noticed.
RestoresTwice(s) ==
  /\ Is(s, "undo", "restore")
  /\ LET u == session[s].id IN
       IF state[undo[u].for] # "pending" THEN Restores(u)
       ELSE UNCHANGED <<undo, state>>
  /\ EndCall(s) /\ UNCHANGED <<trusted, runs, lost, unrun, failures>>
\* One transaction marks the action and restores the intervention, or does neither.
undoRestoreIntervention(s) ==
  /\ Is(s, "undo", "restore")
  /\ LET u == session[s].id IN
       IF ~undo[u].used /\ state[undo[u].for] # "pending" THEN Restores(u)
       ELSE UNCHANGED <<undo, state>>
  /\ EndCall(s) /\ UNCHANGED <<trusted, runs, lost, unrun, failures>>
-----------------------------------------------------------------------------
SessionStep(s) ==
  \/ createIntervention(s) \/ ExecuteAtOnce(s)
  \/ resolveIntervention(s) \/ createUndoAction(s) \/ runSandboxExecution(s)
  \/ getUndoActionById(s) \/ undoRestoreIntervention(s)
InterventionNext ==
  \/ SetAutonomyLevel
  \/ \E s \in Sessions :
       \/ SessionStep(s) \/ CallFails(s)
       \/ \E i \in Interventions : SandboxQuery(s, i)
       \/ \E i \in Interventions, d \in Decisions : Respond(s, i, d)
       \/ \E u \in UndoIds : UndoAction(s, u)
  \/ \E u \in UndoIds : Expires(u)

InterventionSpec == InterventionInit /\ [][InterventionNext]_interventionVars
-----------------------------------------------------------------------------
InterventionTypeOK ==
  /\ trusted \in BOOLEAN
  /\ state \in [Interventions -> {"none", "pending"} \cup Decisions]
  /\ undo \in [UndoIds -> UndoRows]
  /\ session \in [Sessions -> Handlers]
  /\ runs \in [Interventions -> Nat] /\ unrun \in [Interventions -> Nat]
  /\ lost \subseteq Interventions /\ failures \in 0..MaxFailures

\* A decision that can be undone has one undo action that is not used, or a call
\* that is about to write it; nothing else has one.
Open(i) == {u \in UndoIds : undo[u].for = i /\ ~undo[u].used}
Writing(i) == {s \in Sessions : Is(s, "respond", "undo") /\ session[s].for = i}
OneUndoPerDecision ==
  \A i \in Interventions :
    /\ \A u, v \in Open(i) : u = v
    /\ \A s, t \in Writing(i) : s = t
    /\ Open(i) = {} \/ Writing(i) = {}
    /\ Open(i) # {} \/ Writing(i) # {} => state[i] \in Reversible

\* A decision can be undone, unless its call failed before it wrote the undo action:
\* then nothing is left to undo, and a second answer is refused, so that the request
\* stays as it is although "the failure paths can be retried safely and leave nothing
\* half finished" (docs/guides/workflow-control-guide.md:7).
DecisionsCanBeUndone ==
  \A i \in Interventions \ lost :
    state[i] \in Reversible => Open(i) # {} \/ Writing(i) # {}

\* "ABORT is terminal by design": an old undo action cannot reopen the request
\* (user_experience_service.cpp:145).
AbortIsFinal ==
  [][\A i \in Interventions : state[i] = "ABORT" => state'[i] = "ABORT"]_interventionVars

\* However many answers, repeats and undos arrive: each decision to execute, the one
\* that stands and those that were undone, is executed exactly once, or will be by its
\* call, or never, if its call failed in between; another decision never is.
UndoneRuns(i) == {u \in UndoIds : undo[u].for = i /\ undo[u].used /\ undo[u].of \in Executed}
Executing(i) ==
  {s \in Sessions : /\ Is(s, "respond", "undo") \/ Is(s, "respond", "execute")
                    /\ session[s].for = i /\ session[s].decision \in Executed}
OneRunPerDecision ==
  \A i \in Interventions : state[i] # "none" =>
    runs[i] + Cardinality(Executing(i)) + unrun[i] =
      Cardinality(UndoneRuns(i)) + (IF state[i] \in Executed THEN 1 ELSE 0)

\* Decisions, their undo actions and the executions match, although each call
\* writes them in several transactions.
InterventionInvariant ==
  InterventionTypeOK /\ OneUndoPerDecision /\ DecisionsCanBeUndone /\ OneRunPerDecision
=============================================================================
