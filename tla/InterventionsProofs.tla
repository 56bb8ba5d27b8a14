------------------------ MODULE InterventionsProofs ------------------------
(***************************************************************************)
(* Decisions and their undo actions, for any number of requests, handlers  *)
(* and failures.  The inductive invariant IInv of the rows adds to the     *)
(* checked ones that a request has one handler before it has a row, and    *)
(* that what a handler wants to undo exists; CInv adds what a handler      *)
(* knows of its request, for the number of its executions.                 *)
(***************************************************************************)
EXTENDS Interventions, FiniteSetTheorems, TLAPS

\* The handler of SandboxQuery is the only one, and the row does not exist yet.
OneQueryEach ==
  \A s \in Sessions : session[s].op = "query" =>
    /\ state[session[s].for] = "none"
    /\ \A t \in Sessions : session[t].op = "query" /\ session[t].for = session[s].for => s = t

\* What is to be undone exists, and what is to be written can be undone.
UndosExist ==
  \A s \in Sessions :
    /\ session[s].op = "undo" => undo[session[s].id] # NoUndo
    /\ Is(s, "respond", "undo") => session[s].decision \in Reversible

\* OneUndoPerDecision and DecisionsCanBeUndone, member by member.
Opens(u, i) == undo[u].for = i /\ ~undo[u].used
Writes(s, i) == session[s].op = "respond" /\ session[s].step = "undo" /\ session[s].for = i
OneEach ==
  \A i \in Interventions :
    /\ \A u, v \in UndoIds : Opens(u, i) /\ Opens(v, i) => u = v
    /\ \A s, t \in Sessions : Writes(s, i) /\ Writes(t, i) => s = t
    /\ \A u \in UndoIds, s \in Sessions : ~(Opens(u, i) /\ Writes(s, i))
    /\ \A u \in UndoIds : Opens(u, i) => state[i] \in Reversible
    /\ \A s \in Sessions : Writes(s, i) => state[i] \in Reversible
SomeEach ==
  \A i \in Interventions \ lost : state[i] \in Reversible =>
    (\E u \in UndoIds : Opens(u, i)) \/ (\E s \in Sessions : Writes(s, i))

IInv == InterventionTypeOK /\ OneEach /\ SomeEach /\ OneQueryEach /\ UndosExist

LEMMA OneEachMeans == OneEach => OneUndoPerDecision
BY DEF OneEach, OneUndoPerDecision, Open, Writing, Is, Opens, Writes

LEMMA SomeEachMeans == SomeEach => DecisionsCanBeUndone
BY DEF SomeEach, DecisionsCanBeUndone, Open, Writing, Is, Opens, Writes

-----------------------------------------------------------------------------
LEMMA Starts == InterventionInit => IInv
<1> SUFFICES ASSUME InterventionInit PROVE IInv
  OBVIOUS
<1>1. InterventionTypeOK
  <2>0. NoUndo \in UndoRows /\ Idle \in Handlers
    BY DEF UndoRows, Handlers
  <2>1. undo \in [UndoIds -> UndoRows] /\ session \in [Sessions -> Handlers]
    BY <2>0 DEF InterventionInit
  <2>2. trusted \in BOOLEAN
    BY Zenon DEF InterventionInit
  <2>4. /\ runs \in [Interventions -> Nat] /\ unrun \in [Interventions -> Nat]
        /\ lost = {} /\ failures \in 0..MaxFailures
    BY InterventionBounds DEF InterventionInit
  <2>3. state \in [Interventions -> {"none", "pending"} \cup Decisions]
    BY DEF InterventionInit
  <2> QED BY <2>1, <2>2, <2>3, <2>4 DEF InterventionTypeOK
<1>2. OneEach /\ SomeEach
  BY InterventionNames
     DEF InterventionInit, OneEach, SomeEach, Opens, Writes, Idle, NoUndo, Reversible
<1>3. OneQueryEach /\ UndosExist
  BY DEF InterventionInit, OneQueryEach, UndosExist, Idle, Is
<1> QED BY <1>1, <1>2, <1>3 DEF IInv

\* A handler that ends or takes its next step.
LEMMA HandlerSteps ==
  ASSUME InterventionTypeOK, NEW s \in Sessions
  PROVE  /\ EndCall(s) => session' \in [Sessions -> Handlers]
         /\ \A step \in {"resolve", "undo", "execute"} :
              session[s].op = "respond" /\ GoesTo(s, step) => session' \in [Sessions -> Handlers]
         /\ \A step \in {"read", "restore"} :
              session[s].op = "undo" /\ GoesTo(s, step) => session' \in [Sessions -> Handlers]
<1>1. EndCall(s) => session' \in [Sessions -> Handlers]
  BY DEF EndCall, InterventionTypeOK, Handlers
<1>2. ASSUME NEW step \in {"resolve", "undo", "execute"}, session[s].op = "respond", GoesTo(s, step)
      PROVE  session' \in [Sessions -> Handlers]
  <2>1. session[s] \in [op: {"respond"}, for: Interventions, decision: Decisions,
                        step: {"resolve", "undo", "execute"}]
    BY <1>2 DEF InterventionTypeOK, Handlers, Idle
  <2>2. [session[s] EXCEPT !.step = step] \in Handlers
    BY <2>1 DEF Handlers
  <2> QED BY <1>2, <2>2 DEF GoesTo, InterventionTypeOK
<1>3. ASSUME NEW step \in {"read", "restore"}, session[s].op = "undo", GoesTo(s, step)
      PROVE  session' \in [Sessions -> Handlers]
  <2>1. session[s] \in [op: {"undo"}, id: UndoIds, step: {"read", "restore"}]
    BY <1>3 DEF InterventionTypeOK, Handlers, Idle
  <2>2. [session[s] EXCEPT !.step = step] \in Handlers
    BY <2>1 DEF Handlers
  <2> QED BY <1>3, <2>2 DEF GoesTo, InterventionTypeOK
<1> QED BY <1>1, <1>2, <1>3

\* What a handler works on.
LEMMA HandlerFields ==
  ASSUME InterventionTypeOK, NEW s \in Sessions
  PROVE  /\ session[s].op \in {"idle", "query", "respond", "undo"}
         /\ session[s].op = "idle" <=> session[s] = Idle
         /\ session[s].op = "query" => session[s].for \in Interventions /\ session[s].trusted \in BOOLEAN
         /\ session[s].op = "respond" =>
              session[s].for \in Interventions /\ session[s].decision \in Decisions
         /\ session[s].op = "undo" => session[s].id \in UndoIds
BY DEF InterventionTypeOK, Handlers, Idle

-----------------------------------------------------------------------------
(* Steps that leave rows and what is to be written alone. *)

LEMMA QuietStep ==
  ASSUME IInv, session' \in [Sessions -> Handlers], trusted' \in BOOLEAN,
         failures' \in 0..MaxFailures, runs' \in [Interventions -> Nat],
         unrun' \in [Interventions -> Nat],
         UNCHANGED <<state, undo, lost>>,
         \A s \in Sessions, i \in Interventions : Writes(s, i)' <=> Writes(s, i),
         OneQueryEach', UndosExist'
  PROVE  IInv'
<1>1. InterventionTypeOK'
  BY DEF IInv, InterventionTypeOK
<1>2. \A u \in UndoIds, i \in Interventions : Opens(u, i)' <=> Opens(u, i)
  BY DEF Opens
<1>3. OneEach' /\ SomeEach'
  BY <1>2 DEF IInv, OneEach, SomeEach
<1> QED BY <1>1, <1>3 DEF IInv

LEMMA SetLevel == IInv /\ SetAutonomyLevel => IInv'
<1> SUFFICES ASSUME IInv, SetAutonomyLevel PROVE IInv'
  OBVIOUS
<1> USE DEF SetAutonomyLevel, counts
<1>1. \A s \in Sessions, i \in Interventions : Writes(s, i)' <=> Writes(s, i)
  BY DEF Writes
<1>2. OneQueryEach' /\ UndosExist'
  BY DEF IInv, OneQueryEach, UndosExist, Is
<1> QED BY <1>1, <1>2, QuietStep DEF IInv, InterventionTypeOK

LEMMA BeginsQuery ==
  ASSUME IInv, NEW s \in Sessions, NEW i \in Interventions, SandboxQuery(s, i)
  PROVE  IInv'
<1> USE DEF SandboxQuery, counts
<1>1. session' \in [Sessions -> Handlers]
  BY DEF IInv, InterventionTypeOK, Handlers
<1>2. \A t \in Sessions, j \in Interventions : Writes(t, j)' <=> Writes(t, j)
  BY DEF Writes, Idle, IInv, InterventionTypeOK
<1>3. OneQueryEach'
  BY DEF IInv, OneQueryEach, InterventionTypeOK
<1>4. UndosExist'
  BY DEF IInv, UndosExist, Is, InterventionTypeOK
<1> QED BY <1>1, <1>2, <1>3, <1>4, QuietStep DEF IInv, InterventionTypeOK

LEMMA BeginsAnswer ==
  ASSUME IInv, NEW s \in Sessions, NEW i \in Interventions, NEW d \in Decisions, Respond(s, i, d)
  PROVE  IInv'
<1> USE DEF Respond, counts
<1>1. session' \in [Sessions -> Handlers]
  BY DEF IInv, InterventionTypeOK, Handlers
<1>2. \A t \in Sessions, j \in Interventions : Writes(t, j)' <=> Writes(t, j)
  BY DEF Writes, Idle, IInv, InterventionTypeOK
<1>3. OneQueryEach' /\ UndosExist'
  BY DEF IInv, OneQueryEach, UndosExist, Is, InterventionTypeOK
<1> QED BY <1>1, <1>2, <1>3, QuietStep DEF IInv, InterventionTypeOK

LEMMA BeginsUndo ==
  ASSUME IInv, NEW s \in Sessions, NEW u \in UndoIds, UndoAction(s, u)
  PROVE  IInv'
<1> USE DEF UndoAction, counts
<1>1. session' \in [Sessions -> Handlers]
  BY DEF IInv, InterventionTypeOK, Handlers
<1>2. \A t \in Sessions, j \in Interventions : Writes(t, j)' <=> Writes(t, j)
  BY DEF Writes, Idle, IInv, InterventionTypeOK
<1>3. OneQueryEach' /\ UndosExist'
  BY DEF IInv, OneQueryEach, UndosExist, Is, InterventionTypeOK
<1> QED BY <1>1, <1>2, <1>3, QuietStep DEF IInv, InterventionTypeOK

LEMMA ReadsUndo ==
  ASSUME IInv, NEW s \in Sessions, getUndoActionById(s)
  PROVE  IInv'
<1> USE DEF getUndoActionById, Is, counts
<1>1. session' \in [Sessions -> Handlers]
  BY HandlerSteps DEF IInv
<1>2. \A t \in Sessions, j \in Interventions : Writes(t, j)' <=> Writes(t, j)
  <2>1. CASE EndCall(s)
    BY <2>1 DEF Writes, Idle, EndCall, IInv, InterventionTypeOK
  <2>2. CASE GoesTo(s, "restore")
    BY <2>2 DEF Writes, GoesTo, IInv, InterventionTypeOK
  <2> QED BY <2>1, <2>2
<1>3. OneQueryEach' /\ UndosExist'
  <2>1. CASE EndCall(s)
    BY <2>1 DEF Idle, EndCall, IInv, OneQueryEach, UndosExist, Is, InterventionTypeOK
  <2>2. CASE GoesTo(s, "restore")
    <3>1. \A t \in Sessions :
            /\ session'[t].op = session[t].op
            /\ session[t].op \in {"query", "respond"} => session'[t] = session[t]
            /\ session[t].op = "undo" => session'[t].id = session[t].id
      BY <2>2 DEF GoesTo, IInv, InterventionTypeOK
    <3> QED BY <3>1 DEF IInv, OneQueryEach, UndosExist, Is
  <2> QED BY <2>1, <2>2
<1> QED BY <1>1, <1>2, <1>3, QuietStep DEF IInv, InterventionTypeOK

LEMMA Executes ==
  ASSUME IInv, NEW s \in Sessions, ExecuteAtOnce(s) \/ runSandboxExecution(s)
  PROVE  IInv'
<1> USE DEF ExecuteAtOnce, runSandboxExecution, Is
<1>1. session' \in [Sessions -> Handlers]
  BY HandlerSteps DEF IInv
<1>2. \A t \in Sessions, j \in Interventions : Writes(t, j)' <=> Writes(t, j)
  BY DEF Writes, Idle, EndCall, IInv, InterventionTypeOK
<1>3. OneQueryEach' /\ UndosExist'
  BY DEF IInv, OneQueryEach, UndosExist, Is, InterventionTypeOK, EndCall, Idle
<1>4. runs' \in [Interventions -> Nat]
  BY HandlerFields DEF IInv, InterventionTypeOK
<1> QED BY <1>1, <1>2, <1>3, <1>4, QuietStep DEF IInv, InterventionTypeOK

-----------------------------------------------------------------------------
(* Steps that write a row. *)

LEMMA CreatesRow ==
  ASSUME IInv, NEW s \in Sessions, createIntervention(s)
  PROVE  IInv'
<1> DEFINE i == session[s].for
<1> USE DEF createIntervention, EndCall, counts
<1>0. i \in Interventions /\ state[i] = "none"
  BY HandlerFields DEF IInv, OneQueryEach
<1>1. InterventionTypeOK'
  BY <1>0, HandlerSteps DEF IInv, InterventionTypeOK
<1>2. \A t \in Sessions, j \in Interventions : Writes(t, j)' <=> Writes(t, j)
  BY DEF Writes, Idle, IInv, InterventionTypeOK
<1>3. \A u \in UndoIds, j \in Interventions : Opens(u, j)' <=> Opens(u, j)
  BY DEF Opens
<1>4. \A j \in Interventions : state'[j] = IF j = i THEN "pending" ELSE state[j]
  BY DEF IInv, InterventionTypeOK
<1>5. OneEach' /\ SomeEach'
  BY <1>0, <1>2, <1>3, <1>4 DEF IInv, OneEach, SomeEach, Reversible
<1>6. OneQueryEach'
  BY <1>4, HandlerFields DEF IInv, OneQueryEach, InterventionTypeOK, Idle
<1>7. UndosExist'
  BY DEF IInv, UndosExist, Is, InterventionTypeOK, Idle
<1> QED BY <1>1, <1>5, <1>6, <1>7 DEF IInv

\* What a handler that moves on, or ends, leaves of the others.
LEMMA OneMoves ==
  ASSUME IInv, NEW s \in Sessions,
         EndCall(s) \/ (\E step \in {"undo", "execute", "restore"} : GoesTo(s, step))
  PROVE  /\ \A t \in Sessions \ {s} : session'[t] = session[t]
         /\ session'[s].op = "query" => session[s].op = "query" /\ session'[s].for = session[s].for
         /\ session'[s].op = "respond" =>
              /\ session[s].op = "respond" /\ session'[s].for = session[s].for
              /\ session'[s].decision = session[s].decision
         /\ EndCall(s) => session'[s] = Idle
         /\ \A step \in {"undo", "execute", "restore"} :
              GoesTo(s, step) /\ session'[s].op = "respond" => session'[s].step = step
<1>1. \A t \in Sessions \ {s} : session'[t] = session[t]
  BY DEF EndCall, GoesTo, IInv, InterventionTypeOK
<1>2. EndCall(s) => session'[s] = Idle
  BY DEF EndCall, IInv, InterventionTypeOK
<1>3. ASSUME NEW step \in {"undo", "execute", "restore"}, GoesTo(s, step)
      PROVE  session'[s] = [session[s] EXCEPT !.step = step]
  BY <1>3 DEF GoesTo, IInv, InterventionTypeOK
<1>4. /\ session'[s].op = "query" => session[s].op = "query" /\ session'[s].for = session[s].for
      /\ session'[s].op = "respond" =>
           /\ session[s].op = "respond" /\ session'[s].for = session[s].for
           /\ session'[s].decision = session[s].decision
  <2>1. CASE EndCall(s)
    BY <1>2, <2>1 DEF Idle
  <2>2. ASSUME NEW step \in {"undo", "execute", "restore"}, GoesTo(s, step)
        PROVE  /\ session'[s].op = session[s].op
               /\ session[s].op \in {"query", "respond"} => session'[s].for = session[s].for
               /\ session[s].op = "respond" => session'[s].decision = session[s].decision
    <3>1. session[s] = Idle \/ session[s] \in [op: {"query"}, for: Interventions, trusted: BOOLEAN]
          \/ session[s] \in [op: {"respond"}, for: Interventions, decision: Decisions,
                              step: {"resolve", "undo", "execute"}]
          \/ session[s] \in [op: {"undo"}, id: UndoIds, step: {"read", "restore"}]
      BY DEF IInv, InterventionTypeOK, Handlers
    <3>2. session'[s] = [session[s] EXCEPT !.step = step]
      BY <1>3, <2>2
    <3> QED BY <3>1, <3>2 DEF Idle
  <2> QED BY <2>1, <2>2
<1>5. ASSUME NEW step \in {"undo", "execute", "restore"}, GoesTo(s, step),
             session'[s].op = "respond"
      PROVE  session'[s].step = step
  <2>1. session[s].op = "respond"
    BY <1>4, <1>5
  <2>2. session[s] \in [op: {"respond"}, for: Interventions, decision: Decisions,
                        step: {"resolve", "undo", "execute"}]
    BY <2>1 DEF IInv, InterventionTypeOK, Handlers, Idle
  <2> QED BY <1>3, <1>5, <2>2
<1> QED BY <1>1, <1>2, <1>4, <1>5

\* Handlers that answer or undo may change their step, or end.
LEMMA OthersStay ==
  ASSUME IInv, NEW s \in Sessions, session[s].op # "query",
         \/ EndCall(s) \/ GoesTo(s, "execute")
         \/ GoesTo(s, "undo") /\ session[s].decision \in Reversible,
         NEW i \in Interventions, state[i] # "none",
         \A j \in Interventions \ {i} : state'[j] = state[j],
         \A u \in UndoIds : undo[u] # NoUndo => undo'[u] # NoUndo
  PROVE  OneQueryEach' /\ UndosExist'
<1>1. \A t \in Sessions :
        /\ session'[t].op = "query" => session'[t] = session[t]
        /\ session'[t].op = "undo" => session[t].op = "undo" /\ session'[t].id = session[t].id
  <2>1. CASE EndCall(s)
    BY <2>1 DEF EndCall, Idle, IInv, InterventionTypeOK
  <2>2. ASSUME NEW step \in {"undo", "execute"}, GoesTo(s, step)
        PROVE  \A t \in Sessions :
                 /\ session'[t].op = session[t].op
                 /\ session[t].op = "query" => session'[t] = session[t]
                 /\ session[t].op = "undo" => session'[t].id = session[t].id
    BY <2>2 DEF GoesTo, IInv, InterventionTypeOK
  <2> QED BY <2>1, <2>2
<1>4. \A t \in Sessions : Is(t, "respond", "undo")' => session'[t].decision \in Reversible
  <2>1. session'[s].op = "respond" /\ session'[s].step = "undo" => session'[s].decision \in Reversible
    BY OneMoves DEF Idle
  <2> QED BY <2>1, OneMoves DEF IInv, UndosExist, Is
<1>2. OneQueryEach'
  BY <1>1, HandlerFields DEF IInv, OneQueryEach
<1>3. UndosExist'
  BY <1>1, <1>4, HandlerFields DEF IInv, UndosExist
<1> QED BY <1>2, <1>3

LEMMA StateStays ==
  ASSUME IInv, NEW i \in Interventions, NEW d \in Decisions \cup {"pending"},
         state' = [state EXCEPT ![i] = d]
  PROVE  /\ state' \in [Interventions -> {"none", "pending"} \cup Decisions]
         /\ \A j \in Interventions : state'[j] = IF j = i THEN d ELSE state[j]
BY DEF IInv, InterventionTypeOK

\* The row was pending: no undo action is open, and nobody writes one.
LEMMA Answers ==
  ASSUME IInv, NEW s \in Sessions, resolveIntervention(s)
  PROVE  IInv'
<1> DEFINE i == session[s].for
           d == session[s].decision
<1> USE DEF resolveIntervention, Is, counts
<1>0. i \in Interventions /\ d \in Decisions
  BY HandlerFields DEF IInv
<1>1. CASE state[i] # "pending"
  <2>1. session' \in [Sessions -> Handlers]
    BY <1>1, HandlerSteps DEF IInv
  <2>2. \A t \in Sessions, j \in Interventions : Writes(t, j)' <=> Writes(t, j)
    BY <1>1 DEF Writes, Idle, EndCall, IInv, InterventionTypeOK
  <2>3. OneQueryEach' /\ UndosExist'
    BY <1>1 DEF IInv, OneQueryEach, UndosExist, Is, InterventionTypeOK, EndCall, Idle
  <2> QED BY <1>1, <2>1, <2>2, <2>3, QuietStep DEF IInv, InterventionTypeOK
<1>2. CASE state[i] = "pending"
  <2>1. \A j \in Interventions : state'[j] = IF j = i THEN d ELSE state[j]
    BY <1>0, <1>2, StateStays DEF Decided
  <2>2. InterventionTypeOK'
    <3>1. session' \in [Sessions -> Handlers]
      BY <1>2, HandlerSteps DEF Decided, IInv
    <3> QED BY <1>0, <1>2, <3>1, StateStays DEF Decided, IInv, InterventionTypeOK
  <2>3. \A u \in UndoIds, j \in Interventions : Opens(u, j)' <=> Opens(u, j)
    BY DEF Opens
  <2>4. \A u \in UndoIds : ~Opens(u, i)
    BY <1>0, <1>2 DEF IInv, OneEach, Reversible
  <2>5. \A t \in Sessions : ~Writes(t, i)
    BY <1>0, <1>2 DEF IInv, OneEach, Reversible
  <2>6. OneQueryEach' /\ UndosExist'
    BY <1>0, <1>2, <2>1, OthersStay DEF Decided, Decisions
  <2>7. CASE d = "ABORT"
    <3>1. \A t \in Sessions, j \in Interventions : Writes(t, j)' <=> Writes(t, j)
      BY <1>2, <2>7 DEF Writes, Idle, Decided, EndCall, IInv, InterventionTypeOK
    <3>2. OneEach' /\ SomeEach'
      BY <1>0, <2>1, <2>3, <2>4, <2>5, <2>7, <3>1 DEF IInv, OneEach, SomeEach, Reversible
    <3> QED BY <2>2, <2>6, <3>2 DEF IInv
  <2>8. CASE d # "ABORT"
    <3>1. GoesTo(s, "undo")
      BY <1>2, <2>8 DEF Decided
    <3>2. \A t \in Sessions, j \in Interventions :
            Writes(t, j)' <=> Writes(t, j) \/ (t = s /\ j = i)
      <4>1. \A t \in Sessions \ {s} : session'[t] = session[t]
        BY <3>1 DEF GoesTo, IInv, InterventionTypeOK
      <4>2. session'[s] = [session[s] EXCEPT !.step = "undo"]
        BY <3>1 DEF GoesTo, IInv, InterventionTypeOK
      <4>3. session[s] \in [op: {"respond"}, for: Interventions, decision: Decisions,
                            step: {"resolve", "undo", "execute"}]
        BY DEF IInv, InterventionTypeOK, Handlers, Idle
      <4>4. session'[s].op = "respond" /\ session'[s].step = "undo" /\ session'[s].for = i
        BY <4>2, <4>3
      <4> QED BY <4>1, <4>4 DEF Writes
    <3>3. d \in Reversible
      BY <1>0, <2>8 DEF Decisions
    <3>4. OneEach'
      BY <1>0, <2>1, <2>3, <2>4, <2>5, <3>2, <3>3 DEF IInv, OneEach
    <3>5. SomeEach'
      BY <1>0, <2>1, <2>3, <3>2, <3>3 DEF IInv, SomeEach
    <3> QED BY <2>2, <2>6, <3>4, <3>5 DEF IInv
  <2> QED BY <2>7, <2>8
<1> QED BY <1>1, <1>2

\* The action that is written belongs to the decision of the handler.
LEMMA AddsUndo ==
  ASSUME IInv, NEW s \in Sessions, Is(s, "respond", "undo"), WriteUndo(s),
         \A t \in Sessions, j \in Interventions : Writes(t, j)' <=> Writes(t, j) /\ t # s,
         UNCHANGED <<state, lost>>
  PROVE  /\ undo' \in [UndoIds -> UndoRows]
         /\ \A v \in UndoIds : undo[v] # NoUndo => undo'[v] # NoUndo
         /\ OneEach' /\ SomeEach'
<1> DEFINE i == session[s].for
           d == session[s].decision
<1>0. i \in Interventions /\ d \in Reversible
  BY HandlerFields DEF IInv, UndosExist, Is
<1>1. PICK u \in UndoIds :
        undo[u] = NoUndo /\ undo' = [undo EXCEPT ![u] = [NoUndo EXCEPT !.for = i, !.of = d]]
  BY DEF WriteUndo
<1>2. [NoUndo EXCEPT !.for = i, !.of = d] \in UndoRows
  BY <1>0 DEF NoUndo, UndoRows
<1>3. undo' \in [UndoIds -> UndoRows]
  BY <1>1, <1>2 DEF IInv, InterventionTypeOK
<1>4. \A v \in UndoIds : undo[v] # NoUndo => undo'[v] # NoUndo
  BY <1>1 DEF IInv, InterventionTypeOK
<1>5. undo'[u].for = i /\ ~undo'[u].used
  BY <1>1 DEF IInv, InterventionTypeOK, NoUndo
<1>6. \A v \in UndoIds \ {u} : undo'[v] = undo[v]
  BY <1>1 DEF IInv, InterventionTypeOK
<1>7. \A j \in Interventions : ~Opens(u, j)
  BY <1>1, InterventionNames DEF Opens, NoUndo
<1>8. \A v \in UndoIds, j \in Interventions : Opens(v, j)' <=> Opens(v, j) \/ (v = u /\ j = i)
  BY <1>5, <1>6, <1>7 DEF Opens
<1>9. Writes(s, i)
  BY DEF Writes, Is
<1>10. OneEach'
  BY <1>0, <1>8, <1>9 DEF IInv, OneEach
<1>11. SomeEach'
  <2> SUFFICES ASSUME NEW j \in Interventions \ lost, state[j] \in Reversible
               PROVE  (\E v \in UndoIds : Opens(v, j)') \/ (\E t \in Sessions : Writes(t, j)')
    BY DEF SomeEach
  <2>1. CASE j = i
    BY <1>8, <2>1
  <2>2. CASE j # i
    <3>1. ~Writes(s, j)
      BY <2>2 DEF Writes
    <3> QED BY <1>8, <3>1 DEF IInv, SomeEach
  <2> QED BY <2>1, <2>2
<1> QED BY <1>3, <1>4, <1>10, <1>11

\* The handler leaves the step at which it writes its undo action.
LEMMA LeavesUndo ==
  ASSUME IInv, NEW s \in Sessions, Is(s, "respond", "undo"), EndCall(s) \/ GoesTo(s, "execute")
  PROVE  /\ session' \in [Sessions -> Handlers]
         /\ \A t \in Sessions, j \in Interventions : Writes(t, j)' <=> Writes(t, j) /\ t # s
         /\ session[s].for \in Interventions /\ state[session[s].for] \in Reversible
<1>1. session' \in [Sessions -> Handlers]
  BY HandlerSteps DEF Is, IInv
<1>2. \A t \in Sessions \ {s} : session'[t] = session[t]
  BY DEF EndCall, GoesTo, IInv, InterventionTypeOK
<1>3. session'[s].op # "respond" \/ session'[s].step # "undo"
  <2>1. CASE EndCall(s)
    BY <2>1 DEF EndCall, Idle, IInv, InterventionTypeOK
  <2>2. CASE GoesTo(s, "execute")
    <3>1. session[s] \in [op: {"respond"}, for: Interventions, decision: Decisions,
                          step: {"resolve", "undo", "execute"}]
      BY DEF Is, IInv, InterventionTypeOK, Handlers, Idle
    <3>2. session'[s] = [session[s] EXCEPT !.step = "execute"]
      BY <2>2 DEF GoesTo, IInv, InterventionTypeOK
    <3> QED BY <3>1, <3>2
  <2> QED BY <2>1, <2>2
<1>4. session[s].for \in Interventions
  BY HandlerFields DEF Is, IInv
<1>5. Writes(s, session[s].for)
  BY DEF Writes, Is
<1>6. state[session[s].for] \in Reversible
  BY <1>4, <1>5 DEF IInv, OneEach
<1>7. \A t \in Sessions, j \in Interventions : Writes(t, j)' <=> Writes(t, j) /\ t # s
  BY <1>2, <1>3 DEF Writes
<1> QED BY <1>1, <1>4, <1>6, <1>7

LEMMA Records ==
  ASSUME IInv, NEW s \in Sessions, createUndoAction(s)
  PROVE  IInv'
<1> USE DEF createUndoAction, counts
<1>1. EndCall(s) \/ GoesTo(s, "execute")
  BY DEF AfterUndo
<1>2. /\ session' \in [Sessions -> Handlers]
      /\ \A t \in Sessions, j \in Interventions : Writes(t, j)' <=> Writes(t, j) /\ t # s
      /\ session[s].for \in Interventions /\ state[session[s].for] # "none"
  BY <1>1, LeavesUndo DEF Reversible
<1>3. undo' \in [UndoIds -> UndoRows] /\ OneEach' /\ SomeEach'
      /\ \A v \in UndoIds : undo[v] # NoUndo => undo'[v] # NoUndo
  BY <1>2, AddsUndo
<1>4. OneQueryEach' /\ UndosExist'
  BY <1>1, <1>2, <1>3, OthersStay DEF Is
<1> QED BY <1>2, <1>3, <1>4 DEF IInv, InterventionTypeOK

LEMMA Fails ==
  ASSUME IInv, NEW s \in Sessions, CallFails(s)
  PROVE  IInv'
<1> DEFINE i == session[s].for
<1> USE DEF CallFails
<1>0. failures' \in 0..MaxFailures /\ session' \in [Sessions -> Handlers]
  BY HandlerSteps, InterventionBounds DEF IInv, InterventionTypeOK
<1>1. \A t \in Sessions, j \in Interventions : Writes(t, j)' <=> Writes(t, j) /\ t # s
  BY DEF Writes, EndCall, Idle, IInv, InterventionTypeOK
<1>2. \A t \in Sessions : session'[t] = IF t = s THEN Idle ELSE session[t]
  BY DEF EndCall, IInv, InterventionTypeOK
<1>6. unrun' \in [Interventions -> Nat]
  BY HandlerFields DEF NoRunFor, Is, IInv, InterventionTypeOK
<1>3. CASE UNCHANGED <<state, undo>> /\ lost' = IF Is(s, "respond", "undo") THEN lost \cup {i} ELSE lost
  <2>1. InterventionTypeOK'
    BY <1>0, <1>3, <1>6, HandlerFields DEF Is, IInv, InterventionTypeOK
  <2>2. \A u \in UndoIds, j \in Interventions : Opens(u, j)' <=> Opens(u, j)
    BY <1>3 DEF Opens
  <2>3. OneEach'
    BY <1>1, <1>3, <2>2 DEF IInv, OneEach
  <2>4. SomeEach'
    <3>1. \A j \in Interventions \ lost' : ~Writes(s, j) /\ j \notin lost
      BY <1>3 DEF Writes, Is
    <3> QED BY <1>1, <1>3, <2>2, <3>1 DEF IInv, SomeEach
  <2>5. OneQueryEach' /\ UndosExist'
    BY <1>2, <1>3 DEF IInv, OneQueryEach, UndosExist, Is, Idle
  <2> QED BY <2>1, <2>3, <2>4, <2>5 DEF IInv
<1>4. CASE /\ Is(s, "respond", "resolve") /\ state[i] = "pending"
           /\ state' = [state EXCEPT ![i] = session[s].decision]
           /\ lost' = lost \cup {i} /\ UNCHANGED undo
  <2>0. i \in Interventions /\ session[s].decision \in Decisions
    BY <1>4, HandlerFields DEF Is, IInv
  <2>1. /\ state' \in [Interventions -> {"none", "pending"} \cup Decisions]
        /\ \A j \in Interventions : state'[j] = IF j = i THEN session[s].decision ELSE state[j]
    BY <1>4, <2>0, StateStays
  <2>2. InterventionTypeOK'
    BY <1>0, <1>4, <1>6, <2>0, <2>1 DEF IInv, InterventionTypeOK
  <2>3. \A u \in UndoIds, j \in Interventions : Opens(u, j)' <=> Opens(u, j)
    BY <1>4 DEF Opens
  <2>4. /\ \A u \in UndoIds : ~Opens(u, i)
        /\ \A t \in Sessions : ~Writes(t, i)
    BY <1>4, <2>0 DEF IInv, OneEach, Reversible
  <2>5. OneEach'
    BY <1>1, <2>1, <2>3, <2>4 DEF IInv, OneEach
  <2>6. \A j \in Interventions : ~Writes(s, j)
    BY <1>4 DEF Writes, Is
  <2>7. SomeEach'
    BY <1>1, <1>4, <2>1, <2>3, <2>6 DEF IInv, SomeEach
  <2>8. OneQueryEach' /\ UndosExist'
    BY <1>2, <1>4, <2>1, HandlerFields DEF IInv, OneQueryEach, UndosExist, Is, Idle
  <2> QED BY <2>2, <2>5, <2>7, <2>8 DEF IInv
<1>5. CASE Is(s, "respond", "undo") /\ WriteUndo(s) /\ UNCHANGED <<state, lost>>
  <2>1. undo' \in [UndoIds -> UndoRows] /\ OneEach' /\ SomeEach'
        /\ \A v \in UndoIds : undo[v] # NoUndo => undo'[v] # NoUndo
    BY <1>1, <1>5, AddsUndo
  <2>2. OneQueryEach' /\ UndosExist'
    BY <1>2, <1>5, <2>1, HandlerFields DEF IInv, OneQueryEach, UndosExist, Is, Idle
  <2> QED BY <1>0, <1>5, <1>6, <2>1, <2>2 DEF IInv, InterventionTypeOK
<1> QED BY <1>3, <1>4, <1>5 DEF NoUndoFor, Is

LEMMA Expiry ==
  ASSUME IInv, NEW u \in UndoIds, Expires(u)
  PROVE  IInv'
<1> USE DEF Expires, counts
<1>1. undo[u] \in [for: Interventions, of: Reversible, used: BOOLEAN, expired: BOOLEAN]
  BY DEF IInv, InterventionTypeOK, UndoRows
<1>2. undo'[u] = [undo[u] EXCEPT !.expired = TRUE] /\ \A v \in UndoIds \ {u} : undo'[v] = undo[v]
  BY DEF IInv, InterventionTypeOK
<1>3. undo'[u] \in UndoRows /\ undo'[u].for = undo[u].for /\ undo'[u].used = undo[u].used
  <2>1. [undo[u] EXCEPT !.expired = TRUE] \in [for: Interventions, of: Reversible, used: BOOLEAN, expired: BOOLEAN]
    <3> HIDE DEF Expires
    <3> QED BY <1>1
  <2> QED BY <1>1, <1>2, <2>1 DEF UndoRows
<1>4. InterventionTypeOK'
  BY <1>3 DEF IInv, InterventionTypeOK
<1>5. \A v \in UndoIds, j \in Interventions : Opens(v, j)' <=> Opens(v, j)
  BY <1>2, <1>3 DEF Opens
<1>6. \A t \in Sessions, j \in Interventions : Writes(t, j)' <=> Writes(t, j)
  BY DEF Writes
<1>7. OneEach' /\ SomeEach'
  BY <1>5, <1>6 DEF IInv, OneEach, SomeEach
<1>8. undo'[u] # NoUndo
  BY <1>1, <1>3, InterventionNames DEF NoUndo
<1>9. OneQueryEach' /\ UndosExist'
  BY <1>2, <1>8 DEF IInv, OneQueryEach, UndosExist, Is
<1> QED BY <1>4, <1>7, <1>9 DEF IInv

\* A restored row had one open undo action, the one that is used now.
LEMMA Restored ==
  ASSUME IInv, NEW s \in Sessions, undoRestoreIntervention(s)
  PROVE  IInv'
<1> DEFINE u == session[s].id
           i == undo[u].for
<1> USE DEF undoRestoreIntervention, Is
<1>0. u \in UndoIds /\ undo[u] # NoUndo
  BY HandlerFields DEF IInv, UndosExist, Is
<1>1. session' \in [Sessions -> Handlers]
  BY HandlerSteps DEF IInv
<1>2. \A t \in Sessions, j \in Interventions : Writes(t, j)' <=> Writes(t, j)
  BY DEF Writes, Idle, EndCall, IInv, InterventionTypeOK
<1>3. CASE UNCHANGED <<undo, state>>
  <2>1. OneQueryEach' /\ UndosExist'
    BY <1>3 DEF IInv, OneQueryEach, UndosExist, Is, InterventionTypeOK, EndCall, Idle
  <2> QED BY <1>1, <1>2, <1>3, <2>1, QuietStep DEF IInv, InterventionTypeOK
<1>4. CASE ~undo[u].used /\ Restores(u)
  <2>1. undo[u] \in [for: Interventions, of: Reversible, used: BOOLEAN, expired: BOOLEAN] /\ i \in Interventions
    BY <1>0 DEF IInv, InterventionTypeOK, UndoRows
  <2>2. undo'[u] = [undo[u] EXCEPT !.used = TRUE] /\ \A v \in UndoIds \ {u} : undo'[v] = undo[v]
    BY <1>0, <1>4 DEF Restores, IInv, InterventionTypeOK
  <2>3. undo'[u] \in UndoRows /\ undo'[u].used
    <3>1. undo'[u] \in [for: Interventions, of: Reversible, used: BOOLEAN, expired: BOOLEAN]
      BY <2>1, <2>2
    <3> QED BY <2>1, <2>2, <3>1 DEF UndoRows
  <2>4. \A j \in Interventions : state'[j] = IF j = i THEN "pending" ELSE state[j]
    BY <1>4, <2>1, StateStays DEF Restores
  <2>5. InterventionTypeOK'
    BY <1>0, <1>1, <1>4, <2>1, <2>3, StateStays DEF Restores, IInv, InterventionTypeOK
  <2>6. Opens(u, i) /\ state[i] \in Reversible
    BY <1>0, <1>4, <2>1 DEF Opens, IInv, OneEach
  <2>7. \A v \in UndoIds, j \in Interventions : Opens(v, j)' <=> Opens(v, j) /\ v # u
    BY <2>2, <2>3 DEF Opens
  <2>8. \A j \in Interventions \ {i} : ~Opens(u, j)
    BY DEF Opens
  <2>9. OneEach'
    BY <1>0, <1>2, <2>1, <2>4, <2>6, <2>7 DEF IInv, OneEach
  <2>10. SomeEach'
    BY <1>2, <2>1, <2>4, <2>7, <2>8 DEF IInv, SomeEach, Reversible
  <2>11. OneQueryEach' /\ UndosExist'
    <3>1. \A v \in UndoIds : undo[v] # NoUndo => undo'[v] # NoUndo
      BY <2>2, <2>3 DEF NoUndo
    <3> QED BY <2>1, <2>4, <2>6, <3>1, OthersStay DEF Reversible
  <2> QED BY <2>5, <2>9, <2>10, <2>11 DEF IInv
<1> QED BY <1>3, <1>4
-----------------------------------------------------------------------------
LEMMA EachStep == IInv /\ [InterventionNext]_interventionVars => IInv'
<1> SUFFICES ASSUME IInv, [InterventionNext]_interventionVars PROVE IInv'
  OBVIOUS
<1>1. CASE SetAutonomyLevel
  BY <1>1, SetLevel
<1>2. ASSUME NEW s \in Sessions, SessionStep(s) PROVE IInv'
  BY <1>2, CreatesRow, Executes, Answers, Records, ReadsUndo, Restored DEF SessionStep
<1>3. ASSUME NEW s \in Sessions, CallFails(s) PROVE IInv'
  BY <1>3, Fails
<1>4. ASSUME NEW s \in Sessions, NEW i \in Interventions, SandboxQuery(s, i) PROVE IInv'
  BY <1>4, BeginsQuery
<1>5. ASSUME NEW s \in Sessions, NEW i \in Interventions, NEW d \in Decisions, Respond(s, i, d)
      PROVE  IInv'
  BY <1>5, BeginsAnswer
<1>6. ASSUME NEW s \in Sessions, NEW u \in UndoIds, UndoAction(s, u) PROVE IInv'
  BY <1>6, BeginsUndo
<1>7. ASSUME NEW u \in UndoIds, Expires(u) PROVE IInv'
  BY <1>7, Expiry
<1>8. CASE UNCHANGED interventionVars
  <2>1. \A s \in Sessions, i \in Interventions : Writes(s, i)' <=> Writes(s, i)
    BY <1>8 DEF interventionVars, Writes
  <2>2. OneQueryEach' /\ UndosExist'
    BY <1>8 DEF interventionVars, IInv, OneQueryEach, UndosExist, Is
  <2> QED BY <1>8, <2>1, <2>2, QuietStep DEF interventionVars, counts, IInv, InterventionTypeOK
<1> QED BY <1>1, <1>2, <1>3, <1>4, <1>5, <1>6, <1>7, <1>8 DEF InterventionNext

LEMMA Always == InterventionSpec => []IInv
<1>1. InterventionInit => IInv
  BY Starts
<1>2. IInv /\ [InterventionNext]_interventionVars => IInv'
  BY EachStep
<1> QED BY <1>1, <1>2, PTL DEF InterventionSpec

-----------------------------------------------------------------------------
(* The executions of a request.  To count them, the invariant also says what *)
(* a handler knows of its request: the query of a handler did not run yet,   *)
(* an answer has a row, and the row keeps the decision until the undo action *)
(* is written, and as long as that is open.                                  *)

HandlersMatch ==
  \A s \in Sessions :
    /\ session[s].op = "query" => runs[session[s].for] = 0
    /\ session[s].op = "respond" => state[session[s].for] # "none"
    /\ Is(s, "respond", "undo") => state[session[s].for] = session[s].decision
    /\ Is(s, "respond", "execute") => session[s].decision \in Executed

RowsMatch ==
  /\ \A u \in UndoIds : undo[u] # NoUndo =>
       /\ state[undo[u].for] # "none"
       /\ ~undo[u].used => undo[u].of = state[undo[u].for]
  /\ \A i \in Interventions : state[i] = "none" => unrun[i] = 0

Matched == HandlersMatch /\ RowsMatch /\ OneRunPerDecision
CInv == IInv /\ Matched

\* OneRunPerDecision of one request, and the members of Executing.
Balance(i) ==
  state[i] # "none" =>
    runs[i] + Cardinality(Executing(i)) + unrun[i] =
      Cardinality(UndoneRuns(i)) + (IF state[i] \in Executed THEN 1 ELSE 0)
WillRun(s, i) ==
  /\ session[s].op = "respond" /\ session[s].step \in {"undo", "execute"}
  /\ session[s].for = i /\ session[s].decision \in Executed

LEMMA ExecutingIs ==
  \A i, t : /\ t \in Executing(i) <=> t \in Sessions /\ WillRun(t, i)
            /\ t \in Executing(i)' <=> t \in Sessions /\ WillRun(t, i)'
BY DEF Executing, WillRun, Is

LEMMA Countable ==
  ASSUME NEW i
  PROVE  /\ IsFiniteSet(Executing(i)) /\ Cardinality(Executing(i)) \in Nat
         /\ IsFiniteSet(UndoneRuns(i)) /\ Cardinality(UndoneRuns(i)) \in Nat
<1>1. Executing(i) \in SUBSET Sessions /\ UndoneRuns(i) \in SUBSET UndoIds
  BY DEF Executing, UndoneRuns
<1> QED BY <1>1, InterventionsFinite, FS_Subset, FS_CardinalityType

LEMMA BalanceStays ==
  ASSUME CInv, NEW i \in Interventions, runs'[i] = runs[i], unrun'[i] = unrun[i],
         Executing(i)' = Executing(i), UndoneRuns(i)' = UndoneRuns(i),
         state'[i] # "none" => state[i] # "none", state'[i] \in Executed <=> state[i] \in Executed
  PROVE  Balance(i)'
BY DEF CInv, Matched, OneRunPerDecision, Balance

LEMMA SameExecuting ==
  ASSUME NEW i, \A t \in Sessions : WillRun(t, i)' <=> WillRun(t, i)
  PROVE  Executing(i)' = Executing(i)
<1>1. Executing(i) = {t \in Sessions : WillRun(t, i)}
  BY DEF Executing, WillRun, Is
<1>2. Executing(i)' = {t \in Sessions : WillRun(t, i)'}
  BY DEF Executing, WillRun, Is
<1> QED BY <1>1, <1>2

\* A handler of the request is no longer to run it.
LEMMA OneLess ==
  ASSUME NEW i, NEW s \in Sessions, WillRun(s, i),
         \A t \in Sessions : WillRun(t, i)' <=> WillRun(t, i) /\ t # s
  PROVE  Cardinality(Executing(i)') = Cardinality(Executing(i)) - 1
<1>1. s \in Executing(i) /\ Executing(i)' = Executing(i) \ {s}
  BY ExecutingIs
<1> QED BY <1>1, Countable, FS_RemoveElement

LEMMA OneMore ==
  ASSUME NEW i, NEW s \in Sessions, ~WillRun(s, i),
         \A t \in Sessions : WillRun(t, i)' <=> WillRun(t, i) \/ t = s
  PROVE  Cardinality(Executing(i)') = Cardinality(Executing(i)) + 1
<1>1. s \notin Executing(i) /\ Executing(i)' = Executing(i) \cup {s}
  BY ExecutingIs
<1> QED BY <1>1, Countable, FS_AddElement

\* The steps that change neither a row nor who is to run.
LEMMA QuietCounts ==
  ASSUME CInv, UNCHANGED <<state, runs, unrun>>,
         \A u \in UndoIds :
           /\ undo'[u].for = undo[u].for /\ undo'[u].of = undo[u].of
           /\ undo'[u].used = undo[u].used /\ (undo'[u] # NoUndo => undo[u] # NoUndo),
         \A t \in Sessions, i \in Interventions : WillRun(t, i)' <=> WillRun(t, i),
         \A t \in Sessions :
           /\ session'[t].op = "query" => runs[session'[t].for] = 0
           /\ session'[t].op = "respond" =>
                /\ state[session'[t].for] # "none"
                /\ session'[t].step = "undo" => state[session'[t].for] = session'[t].decision
                /\ session'[t].step = "execute" => session'[t].decision \in Executed
  PROVE  Matched'
<1>1. HandlersMatch'
  BY DEF HandlersMatch, Is
<1>2. RowsMatch'
  BY DEF CInv, Matched, RowsMatch
<1>3. \A i \in Interventions : Executing(i)' = Executing(i) /\ UndoneRuns(i)' = UndoneRuns(i)
  BY SameExecuting DEF UndoneRuns
<1>4. \A i \in Interventions : Balance(i)'
  BY <1>3, BalanceStays
<1> QED BY <1>1, <1>2, <1>4 DEF Matched, OneRunPerDecision, Balance

LEMMA CountsNoCall ==
  ASSUME CInv, UNCHANGED <<state, session, runs, unrun>>,
         undo' = undo \/ (\E u \in UndoIds : Expires(u))
  PROVE  Matched'
<1>1. \A v \in UndoIds :
        /\ undo'[v].for = undo[v].for /\ undo'[v].of = undo[v].of
        /\ undo'[v].used = undo[v].used /\ (undo'[v] # NoUndo => undo[v] # NoUndo)
  <2>1. CASE undo' = undo
    BY <2>1
  <2>2. ASSUME NEW u \in UndoIds, Expires(u)
        PROVE  \A v \in UndoIds :
                 /\ undo'[v].for = undo[v].for /\ undo'[v].of = undo[v].of
                 /\ undo'[v].used = undo[v].used /\ (undo'[v] # NoUndo => undo[v] # NoUndo)
    <3>1. undo[u] \in UndoRows
      BY DEF CInv, IInv, InterventionTypeOK
    <3>2. /\ [undo[u] EXCEPT !.expired = TRUE].for = undo[u].for
          /\ [undo[u] EXCEPT !.expired = TRUE].of = undo[u].of
          /\ [undo[u] EXCEPT !.expired = TRUE].used = undo[u].used
      BY <3>1 DEF UndoRows, NoUndo
    <3> QED BY <2>2, <3>2 DEF Expires, CInv, IInv, InterventionTypeOK
  <2> QED BY <2>1, <2>2
<1>2. \A t \in Sessions, i \in Interventions : WillRun(t, i)' <=> WillRun(t, i)
  BY DEF WillRun
<1> QED BY <1>1, <1>2, QuietCounts DEF CInv, Matched, HandlersMatch, Is

\* A handler begins, goes on with an undo, or ends without effect.
LEMMA CountsBegin ==
  ASSUME CInv, NEW s \in Sessions, NEW call, session' = [session EXCEPT ![s] = call],
         \A i \in Interventions : ~WillRun(s, i),
         \/ call.op \in {"idle", "undo"}
         \/ call.op = "query" /\ runs[call.for] = 0
         \/ call.op = "respond" /\ call.step = "resolve" /\ state[call.for] # "none",
         UNCHANGED <<state, undo, runs, unrun>>
  PROVE  Matched'
<1>1. \A t \in Sessions : session'[t] = IF t = s THEN call ELSE session[t]
  BY DEF CInv, IInv, InterventionTypeOK
<1>2. \A t \in Sessions, i \in Interventions : WillRun(t, i)' <=> WillRun(t, i)
  BY <1>1 DEF WillRun
<1> QED BY <1>1, <1>2, QuietCounts DEF CInv, Matched, HandlersMatch, Is

LEMMA IdleRunsNothing ==
  ASSUME NEW s, session[s] = Idle
  PROVE  \A i : ~WillRun(s, i)
BY DEF WillRun, Idle

LEMMA CountsRead ==
  ASSUME CInv, NEW s \in Sessions, getUndoActionById(s)
  PROVE  Matched'
<1> USE DEF getUndoActionById, counts
<1>0. \A i : ~WillRun(s, i)
  BY DEF Is, WillRun
<1>1. CASE EndCall(s)
  <2>1. Idle.op = "idle"
    BY DEF Idle
  <2> QED BY <1>0, <1>1, <2>1, CountsBegin DEF EndCall
<1>2. CASE GoesTo(s, "restore")
  <2>1. session[s] \in [op: {"undo"}, id: UndoIds, step: {"read", "restore"}]
    BY DEF Is, CInv, IInv, InterventionTypeOK, Handlers, Idle
  <2>2. [session[s] EXCEPT !.step = "restore"].op = "undo"
    BY <2>1
  <2> QED BY <1>0, <1>2, <2>2, CountsBegin DEF GoesTo
<1> QED BY <1>1, <1>2

\* Nobody executed, or was to execute, a request before it has its row.
LEMMA CountsCreated ==
  ASSUME CInv, NEW s \in Sessions, createIntervention(s)
  PROVE  Matched'
<1> USE DEF createIntervention, counts
<1> SUFFICES ASSUME NEW i \in Interventions, i = session[s].for PROVE Matched'
  BY HandlerFields DEF CInv, IInv, Is
<1>0. i \in Interventions /\ state[i] = "none" /\ runs[i] = 0 /\ unrun[i] = 0
  BY HandlerFields DEF CInv, IInv, OneQueryEach, Matched, HandlersMatch, RowsMatch
<1>1. \A t \in Sessions : session'[t] = IF t = s THEN Idle ELSE session[t]
  BY DEF EndCall, CInv, IInv, InterventionTypeOK
<1>2. \A j \in Interventions : state'[j] = IF j = i THEN "pending" ELSE state[j]
  BY DEF CInv, IInv, InterventionTypeOK
<1>3. HandlersMatch'
  <2>1. \A t \in Sessions : session[t].op = "respond" =>
          session[t].for \in Interventions /\ session[t].for # i
    BY <1>0, HandlerFields DEF CInv, IInv, Matched, HandlersMatch
  <2> QED BY <1>1, <1>2, <2>1 DEF CInv, Matched, HandlersMatch, Is, Idle
<1>4. \A u \in UndoIds : undo[u] # NoUndo => undo[u].for \in Interventions /\ undo[u].for # i
  BY <1>0 DEF CInv, IInv, InterventionTypeOK, UndoRows, Matched, RowsMatch
<1>5. RowsMatch'
  BY <1>2, <1>4 DEF CInv, Matched, RowsMatch
<1>6. \A j \in Interventions : Executing(j)' = Executing(j) /\ UndoneRuns(j) = UndoneRuns(j)'
  BY <1>1, SameExecuting DEF WillRun, Idle, UndoneRuns
<1>7. ASSUME NEW j \in Interventions PROVE Balance(j)'
  <2>1. CASE j # i
    BY <1>2, <1>6, <2>1, BalanceStays
  <2>2. CASE j = i
    <3>1. Executing(j)' = {}
      BY <1>0, <1>6, <2>2, ExecutingIs DEF WillRun, CInv, Matched, HandlersMatch
    <3>2. UndoneRuns(j)' = {}
      BY <1>4, <1>6, <2>2, InterventionNames DEF UndoneRuns, NoUndo
    <3> QED BY <1>0, <1>2, <2>2, <3>1, <3>2, FS_EmptySet DEF Balance, Executed
  <2> QED BY <2>1, <2>2
<1> QED BY <1>3, <1>5, <1>7 DEF Matched, OneRunPerDecision, Balance

\* The level was 3 or 4: there is no row.
LEMMA CountsAtOnce ==
  ASSUME CInv, NEW s \in Sessions, ExecuteAtOnce(s)
  PROVE  Matched'
<1> USE DEF ExecuteAtOnce
<1> SUFFICES ASSUME NEW i \in Interventions, i = session[s].for PROVE Matched'
  BY HandlerFields DEF CInv, IInv, Is
<1>0. i \in Interventions /\ state[i] = "none"
  BY HandlerFields DEF CInv, IInv, OneQueryEach
<1>1. \A t \in Sessions : session'[t] = IF t = s THEN Idle ELSE session[t]
  BY DEF EndCall, CInv, IInv, InterventionTypeOK
<1>2. \A j \in Interventions \ {i} : runs'[j] = runs[j]
  BY DEF CInv, IInv, InterventionTypeOK
<1>3. HandlersMatch'
  <2>1. \A t \in Sessions \ {s} : session[t].op = "query" =>
          session[t].for \in Interventions /\ session[t].for # i
    BY HandlerFields DEF CInv, IInv, OneQueryEach
  <2> QED BY <1>1, <1>2, <2>1 DEF CInv, Matched, HandlersMatch, Is, Idle
<1>4. RowsMatch'
  BY DEF CInv, Matched, RowsMatch
<1>5. ASSUME NEW j \in Interventions PROVE Balance(j)'
  <2>1. CASE j # i
    <3>1. Executing(j)' = Executing(j) /\ UndoneRuns(j)' = UndoneRuns(j)
      BY <1>1, SameExecuting DEF WillRun, Idle, UndoneRuns
    <3> QED BY <1>2, <2>1, <3>1, BalanceStays
  <2>2. CASE j = i
    BY <1>0, <2>2 DEF Balance
  <2> QED BY <2>1, <2>2
<1> QED BY <1>3, <1>4, <1>5 DEF Matched, OneRunPerDecision, Balance

\* The answer is taken: the row was pending, so that no undo action is open.  Its
\* handler goes on to write one, or fails and leaves the decision without.
LEMMA CountsTaken ==
  ASSUME CInv, NEW s \in Sessions, Is(s, "respond", "resolve"),
         state[session[s].for] = "pending",
         state' = [state EXCEPT ![session[s].for] = session[s].decision],
         \/ /\ IF session[s].decision = "ABORT" THEN EndCall(s) ELSE GoesTo(s, "undo")
            /\ unrun' = unrun
         \/ EndCall(s) /\ NoRunFor(s),
         UNCHANGED <<undo, runs>>
  PROVE  Matched'
<1> SUFFICES ASSUME NEW i \in Interventions, i = session[s].for PROVE Matched'
  BY HandlerFields DEF CInv, IInv, Is
<1> DEFINE d == session[s].decision
<1>0. i \in Interventions /\ d \in Decisions
  BY HandlerFields DEF Is, CInv, IInv
<1>1. \A j \in Interventions : state'[j] = IF j = i THEN d ELSE state[j]
  BY <1>0 DEF CInv, IInv, InterventionTypeOK
<1>2. /\ \A t \in Sessions \ {s} : session'[t] = session[t]
      /\ session'[s].op # "query"
      /\ session'[s].op = "respond" =>
           session'[s].for = i /\ session'[s].decision = d /\ session'[s].step = "undo"
  <2>1. EndCall(s) => session'[s].op = "idle"
    BY OneMoves DEF CInv, Idle
  <2> QED BY <2>1, OneMoves DEF Is, CInv
<1>3. /\ \A t \in Sessions : ~Writes(t, i)
      /\ \A u \in UndoIds : ~Opens(u, i)
  BY <1>0 DEF CInv, IInv, OneEach, Reversible
<1>4. HandlersMatch'
  <2>1. d # "none"
    BY <1>0 DEF Decisions, Reversible
  <2>2. \A t \in Sessions \ {s} :
          /\ session[t].op \in {"query", "respond"} => session[t].for \in Interventions
          /\ Is(t, "respond", "undo") => session[t].for # i
    BY <1>3, HandlerFields DEF CInv, IInv, Writes, Is
  <2>3. \A t \in Sessions \ {s} : session'[t].op = "respond" =>
          state'[session'[t].for] # "none"
    BY <1>1, <1>2, <2>1, <2>2 DEF CInv, Matched, HandlersMatch
  <2>4. \A t \in Sessions \ {s} : Is(t, "respond", "undo")' =>
          state'[session'[t].for] = session'[t].decision
    BY <1>1, <1>2, <2>2 DEF CInv, Matched, HandlersMatch, Is
  <2>5. \A t \in Sessions : session'[t].op = "query" => runs'[session'[t].for] = 0
    BY <1>2 DEF CInv, Matched, HandlersMatch
  <2>6. session'[s].op = "respond" => state'[session'[s].for] = d
    BY <1>0, <1>1, <1>2
  <2>7. \A t \in Sessions : Is(t, "respond", "execute")' => session'[t].decision \in Executed
    BY <1>2 DEF CInv, Matched, HandlersMatch, Is
  <2> QED BY <1>2, <2>1, <2>3, <2>4, <2>5, <2>6, <2>7 DEF HandlersMatch, Is
<1>5. \A j \in Interventions \ {i} : unrun'[j] = unrun[j]
  BY DEF NoRunFor, CInv, IInv, InterventionTypeOK
<1>6. RowsMatch'
  <2>1. d # "none"
    BY <1>0 DEF Decisions, Reversible
  <2>2. \A u \in UndoIds : undo[u] # NoUndo =>
          undo[u].for \in Interventions /\ (undo[u].for = i => undo[u].used)
    BY <1>3 DEF Opens, CInv, IInv, InterventionTypeOK, UndoRows
  <2> QED BY <1>1, <1>5, <2>1, <2>2 DEF CInv, Matched, RowsMatch
<1>7. \A j \in Interventions : UndoneRuns(j)' = UndoneRuns(j)
  BY DEF UndoneRuns
<1>8. ~WillRun(s, i) /\ \A j \in Interventions \ {i} : ~WillRun(s, j) /\ ~WillRun(s, j)'
  BY <1>2 DEF Is, WillRun
<1>9. \A t \in Sessions \ {s}, j \in Interventions : WillRun(t, j)' <=> WillRun(t, j)
  BY <1>2 DEF WillRun
<1>10. ASSUME NEW j \in Interventions PROVE Balance(j)'
  <2>1. CASE j # i
    <3>1. Executing(j)' = Executing(j)
      BY <1>8, <1>9, <2>1, SameExecuting
    <3> QED BY <1>1, <1>5, <1>7, <2>1, <3>1, BalanceStays
  <2>2. CASE j = i /\ ~WillRun(s, i)' /\ unrun'[i] = unrun[i]
    <3>1. Executing(j)' = Executing(j)
      BY <1>8, <1>9, <2>2, SameExecuting
    <3>2. d \notin Executed
      <4>1. CASE GoesTo(s, "undo")
        <5>1. session[s] \in [op: {"respond"}, for: Interventions, decision: Decisions,
                              step: {"resolve", "undo", "execute"}]
          BY DEF Is, CInv, IInv, InterventionTypeOK, Handlers, Idle
        <5>2. session'[s] = [session[s] EXCEPT !.step = "undo"]
          BY <4>1 DEF GoesTo, CInv, IInv, InterventionTypeOK
        <5> QED BY <2>2, <5>1, <5>2 DEF WillRun
      <4>2. CASE NoRunFor(s)
        BY <1>0, <2>2, <4>2 DEF NoRunFor, CInv, IInv, InterventionTypeOK
      <4> QED BY <4>1, <4>2 DEF Executed
    <3> QED BY <1>1, <1>7, <2>2, <3>1, <3>2, BalanceStays DEF Executed
  <2>3. CASE j = i /\ (WillRun(s, i)' \/ unrun'[i] # unrun[i])
    <3>1. /\ Cardinality(Executing(i)) \in Nat /\ Cardinality(UndoneRuns(i)) \in Nat
          /\ runs[i] \in Nat /\ unrun[i] \in Nat
      BY <1>0, Countable DEF CInv, IInv, InterventionTypeOK
    <3>2. d \in Executed
      BY <1>2, <2>3 DEF WillRun, NoRunFor, CInv, IInv, InterventionTypeOK
    <3>3. runs[i] + Cardinality(Executing(i)) + unrun[i] = Cardinality(UndoneRuns(i)) + 0
      BY <1>0 DEF CInv, Matched, OneRunPerDecision, Executed
    <3>4. \/ Cardinality(Executing(i)') = Cardinality(Executing(i)) + 1 /\ unrun'[i] = unrun[i]
          \/ Cardinality(Executing(i)') = Cardinality(Executing(i)) /\ unrun'[i] = unrun[i] + 1
      <4>1. CASE WillRun(s, i)'
        <5>1. Cardinality(Executing(i)') = Cardinality(Executing(i)) + 1
          BY <1>0, <1>8, <1>9, <4>1, OneMore
        <5>2. ~EndCall(s)
          BY <1>2, <4>1, OneMoves DEF WillRun, Idle, CInv
        <5> QED BY <5>1, <5>2
      <4>2. CASE ~WillRun(s, i)'
        <5>1. Executing(i)' = Executing(i)
          BY <1>0, <1>8, <1>9, <4>2, SameExecuting
        <5>2. unrun'[i] = unrun[i] + 1
          BY <1>0, <2>3, <3>2, <4>2 DEF NoRunFor, CInv, IInv, InterventionTypeOK
        <5> QED BY <5>1, <5>2
      <4> QED BY <4>1, <4>2
    <3>5. state'[i] \in Executed /\ runs'[i] = runs[i]
      BY <1>0, <1>1, <3>2
    <3>6. Cardinality(UndoneRuns(i)') = Cardinality(UndoneRuns(i))
      BY <1>0, <1>7
    <3>7. runs'[i] + Cardinality(Executing(i)') + unrun'[i] = Cardinality(UndoneRuns(i)') + 1
      BY <3>1, <3>3, <3>4, <3>5, <3>6
    <3> QED BY <2>3, <3>5, <3>7 DEF Balance
  <2> QED BY <2>1, <2>2, <2>3
<1> QED BY <1>4, <1>6, <1>10 DEF Matched, OneRunPerDecision, Balance

LEMMA CountsAnswers ==
  ASSUME CInv, NEW s \in Sessions, resolveIntervention(s)
  PROVE  Matched'
<1> USE DEF resolveIntervention, counts
<1>1. CASE state[session[s].for] = "pending"
  BY <1>1, CountsTaken DEF Decided
<1>2. CASE state[session[s].for] # "pending"
  <2>1. Idle.op = "idle" /\ \A i : ~WillRun(s, i)
    BY DEF Idle, WillRun, Is
  <2> QED BY <1>2, <2>1, CountsBegin DEF EndCall
<1> QED BY <1>1, <1>2

\* A new undo action belongs to the decision that stands, and is not used.
LEMMA RowAdded ==
  ASSUME CInv, NEW s \in Sessions, Is(s, "respond", "undo"),
         undo' = undo \/ WriteUndo(s), UNCHANGED state,
         \A i \in Interventions : state[i] = "none" => unrun'[i] = 0
  PROVE  RowsMatch' /\ \A i : UndoneRuns(i)' = UndoneRuns(i)
<1>1. CASE undo' = undo
  BY <1>1 DEF CInv, Matched, RowsMatch, UndoneRuns
<1>2. CASE WriteUndo(s)
  <2>0. session[s].for \in Interventions
    BY HandlerFields DEF Is, CInv, IInv
  <2>1. PICK u \in UndoIds :
          /\ undo[u] = NoUndo
          /\ undo' = [undo EXCEPT ![u] = [NoUndo EXCEPT !.for = session[s].for,
                                                        !.of = session[s].decision]]
    BY <1>2 DEF WriteUndo
  <2>2. /\ undo'[u].for = session[s].for /\ undo'[u].of = session[s].decision /\ ~undo'[u].used
        /\ \A v \in UndoIds \ {u} : undo'[v] = undo[v]
    BY <2>1 DEF CInv, IInv, InterventionTypeOK, NoUndo
  <2>3. \A i : u \notin UndoneRuns(i) /\ u \notin UndoneRuns(i)'
    BY <2>1, <2>2 DEF UndoneRuns, NoUndo
  <2>4. \A i : UndoneRuns(i)' = UndoneRuns(i)
    BY <2>2, <2>3 DEF UndoneRuns
  <2>5. state[session[s].for] # "none" /\ state[session[s].for] = session[s].decision
    BY DEF CInv, Matched, HandlersMatch, Is
  <2> QED BY <2>2, <2>4, <2>5 DEF CInv, Matched, RowsMatch
<1> QED BY <1>1, <1>2

\* The handler ends or goes on; one that is to run the request stays so.
LEMMA CountsRecords ==
  ASSUME CInv, NEW s \in Sessions, createUndoAction(s)
  PROVE  Matched'
<1> USE DEF createUndoAction, counts
<1>1. EndCall(s) \/ GoesTo(s, "execute")
  BY DEF AfterUndo
<1>2. /\ \A t \in Sessions \ {s} : session'[t] = session[t]
      /\ session'[s].op # "query"
      /\ session'[s].op = "respond" =>
           /\ session'[s].for = session[s].for /\ session'[s].step = "execute"
           /\ session'[s].decision = session[s].decision /\ session[s].decision \in Executed
  <2>1. EndCall(s) => session'[s].op = "idle"
    BY OneMoves DEF CInv, Idle
  <2> QED BY <1>1, <2>1, OneMoves DEF Is, CInv, AfterUndo
<1>3. session[s].decision \in Executed => session'[s].op = "respond"
  <2>1. session[s] \in [op: {"respond"}, for: Interventions, decision: Decisions,
                        step: {"resolve", "undo", "execute"}]
    BY DEF Is, CInv, IInv, InterventionTypeOK, Handlers, Idle
  <2> QED BY <2>1 DEF AfterUndo, GoesTo, CInv, IInv, InterventionTypeOK
<1>4. HandlersMatch'
  BY <1>2 DEF CInv, Matched, HandlersMatch, Is
<1>5. RowsMatch' /\ \A i : UndoneRuns(i)' = UndoneRuns(i)
  BY RowAdded DEF CInv, Matched, RowsMatch
<1>6. \A t \in Sessions, i \in Interventions : WillRun(t, i)' <=> WillRun(t, i)
  BY <1>2, <1>3 DEF WillRun, Is
<1>7. \A i \in Interventions : Executing(i)' = Executing(i)
  BY <1>6, SameExecuting
<1>8. \A i \in Interventions : Balance(i)'
  BY <1>5, <1>7, BalanceStays
<1> QED BY <1>4, <1>5, <1>8 DEF Matched, OneRunPerDecision, Balance

\* The execution of a handler becomes a run.
LEMMA CountsRuns ==
  ASSUME CInv, NEW s \in Sessions, runSandboxExecution(s)
  PROVE  Matched'
<1> USE DEF runSandboxExecution
<1> SUFFICES ASSUME NEW i \in Interventions, i = session[s].for PROVE Matched'
  BY HandlerFields DEF CInv, IInv, Is
<1>0. i \in Interventions /\ state[i] # "none" /\ session[s].decision \in Executed
  BY HandlerFields DEF CInv, IInv, UndosExist, Matched, HandlersMatch, Is
<1>1. \A t \in Sessions : session'[t] = IF t = s THEN Idle ELSE session[t]
  BY DEF EndCall, CInv, IInv, InterventionTypeOK
<1>2. \A j \in Interventions : runs'[j] = IF j = i THEN runs[j] + 1 ELSE runs[j]
  BY DEF CInv, IInv, InterventionTypeOK
<1>3. HandlersMatch'
  <2>1. \A t \in Sessions : session[t].op = "query" =>
          session[t].for \in Interventions /\ session[t].for # i
    BY <1>0, HandlerFields DEF CInv, IInv, OneQueryEach
  <2> QED BY <1>1, <1>2, <2>1 DEF CInv, Matched, HandlersMatch, Is, Idle
<1>4. RowsMatch' /\ \A j : UndoneRuns(j)' = UndoneRuns(j)
  BY DEF CInv, Matched, RowsMatch, UndoneRuns
<1>5. /\ WillRun(s, i) /\ \A j \in Interventions \ {i} : ~WillRun(s, j)
      /\ \A t \in Sessions, j \in Interventions : WillRun(t, j)' <=> WillRun(t, j) /\ t # s
  BY <1>0, <1>1 DEF WillRun, Idle, Is
<1>6. ASSUME NEW j \in Interventions PROVE Balance(j)'
  <2>1. CASE j # i
    <3>1. Executing(j)' = Executing(j)
      BY <1>5, <2>1, SameExecuting
    <3> QED BY <1>2, <1>4, <2>1, <3>1, BalanceStays
  <2>2. CASE j = i
    <3>1. /\ Cardinality(Executing(j)) \in Nat /\ runs[j] \in Nat /\ unrun[j] \in Nat
          /\ Cardinality(UndoneRuns(j)) \in Nat
      BY Countable DEF CInv, IInv, InterventionTypeOK
    <3>2. Cardinality(Executing(j)') = Cardinality(Executing(j)) - 1
      BY <1>5, <2>2, OneLess
    <3>3. Balance(j)
      BY DEF CInv, Matched, OneRunPerDecision, Balance
    <3>4. UndoneRuns(j)' = UndoneRuns(j) /\ runs'[j] = runs[j] + 1
      BY <1>2, <1>4, <2>2
    <3> QED BY <3>1, <3>2, <3>3, <3>4 DEF Balance
  <2> QED BY <2>1, <2>2
<1> QED BY <1>3, <1>4, <1>6 DEF Matched, OneRunPerDecision, Balance

\* A decision to execute whose call ends here is counted as not run.
LEMMA CountsFail ==
  ASSUME CInv, NEW s \in Sessions, CallFails(s)
  PROVE  Matched'
<1> USE DEF CallFails
<1>1. CASE /\ Is(s, "respond", "resolve") /\ state[session[s].for] = "pending" /\ NoRunFor(s)
           /\ state' = [state EXCEPT ![session[s].for] = session[s].decision] /\ UNCHANGED undo
  BY <1>1, CountsTaken
<1>2. CASE (session[s].op # "respond" \/ Is(s, "respond", "resolve"))
           /\ UNCHANGED <<state, undo, unrun>>
  <2>1. Idle.op = "idle" /\ \A j : ~WillRun(s, j)
    BY <1>2 DEF Idle, WillRun, Is
  <2> QED BY <1>2, <2>1, CountsBegin DEF EndCall
<1>3. CASE /\ NoRunFor(s) /\ UNCHANGED state
           /\ \/ Is(s, "respond", "undo") /\ (undo' = undo \/ WriteUndo(s))
              \/ Is(s, "respond", "execute") /\ undo' = undo
  <2> SUFFICES ASSUME NEW i \in Interventions, i = session[s].for PROVE Matched'
    BY <1>3, HandlerFields DEF CInv, IInv, Is
  <2>0. i \in Interventions /\ state[i] # "none"
    BY <1>3, HandlerFields DEF Is, CInv, IInv, Matched, HandlersMatch
  <2>1. \A t \in Sessions : session'[t] = IF t = s THEN Idle ELSE session[t]
    BY DEF EndCall, CInv, IInv, InterventionTypeOK
  <2>2. HandlersMatch'
    BY <1>3, <2>1 DEF CInv, Matched, HandlersMatch, Is, Idle
  <2>3. /\ \A j \in Interventions \ {i} : unrun'[j] = unrun[j]
        /\ unrun'[i] = IF session[s].decision \in Executed THEN unrun[i] + 1 ELSE unrun[i]
    BY <1>3, <2>0 DEF NoRunFor, CInv, IInv, InterventionTypeOK
  <2>4. \A j \in Interventions : state[j] = "none" => unrun'[j] = 0
    BY <2>0, <2>3 DEF CInv, Matched, RowsMatch
  <2>5. RowsMatch' /\ \A j : UndoneRuns(j)' = UndoneRuns(j)
    <3>1. CASE Is(s, "respond", "undo")
      BY <1>3, <2>4, <3>1, RowAdded
    <3>2. CASE undo' = undo
      BY <1>3, <2>4, <3>2 DEF CInv, Matched, RowsMatch, UndoneRuns
    <3> QED BY <1>3, <3>1, <3>2
  <2>6. /\ WillRun(s, i) <=> session[s].decision \in Executed
        /\ \A j \in Interventions \ {i} : ~WillRun(s, j)
        /\ \A t \in Sessions, j \in Interventions : WillRun(t, j)' <=> WillRun(t, j) /\ t # s
    BY <1>3, <2>1 DEF WillRun, Idle, Is
  <2>7. ASSUME NEW j \in Interventions PROVE Balance(j)'
    <3>1. CASE j # i \/ ~WillRun(s, i)
      <4>1. Executing(j)' = Executing(j)
        BY <2>6, <3>1, SameExecuting
      <4> QED BY <1>3, <2>3, <2>5, <2>6, <3>1, <4>1, BalanceStays
    <3>2. CASE j = i /\ WillRun(s, i)
      <4>1. /\ Cardinality(Executing(j)) \in Nat /\ runs[j] \in Nat /\ unrun[j] \in Nat
            /\ Cardinality(UndoneRuns(j)) \in Nat
        BY Countable DEF CInv, IInv, InterventionTypeOK
      <4>2. Cardinality(Executing(j)') = Cardinality(Executing(j)) - 1
        BY <2>6, <3>2, OneLess
      <4>3. Balance(j)
        BY DEF CInv, Matched, OneRunPerDecision, Balance
      <4>4. UndoneRuns(j)' = UndoneRuns(j) /\ unrun'[j] = unrun[j] + 1 /\ UNCHANGED <<state, runs>>
        BY <1>3, <2>3, <2>5, <2>6, <3>2
      <4> QED BY <4>1, <4>2, <4>3, <4>4 DEF Balance
    <3> QED BY <3>1, <3>2
  <2> QED BY <2>2, <2>5, <2>7 DEF Matched, OneRunPerDecision, Balance
<1> QED BY <1>1, <1>2, <1>3

\* The undo action that is used now takes back the decision that stands.
LEMMA CountsRestored ==
  ASSUME CInv, NEW s \in Sessions, undoRestoreIntervention(s)
  PROVE  Matched'
<1> USE DEF undoRestoreIntervention
<1> SUFFICES ASSUME NEW u \in UndoIds, u = session[s].id PROVE Matched'
  BY HandlerFields DEF CInv, IInv, Is
<1>0. undo[u] # NoUndo /\ \A j : ~WillRun(s, j)
  BY DEF CInv, IInv, UndosExist, Is, WillRun
<1> SUFFICES ASSUME NEW i \in Interventions, i = undo[u].for PROVE Matched'
  BY <1>0 DEF CInv, IInv, InterventionTypeOK, UndoRows
<1>1. \A t \in Sessions : session'[t] = IF t = s THEN Idle ELSE session[t]
  BY DEF EndCall, CInv, IInv, InterventionTypeOK
<1>2. CASE UNCHANGED <<undo, state>>
  <2>1. Idle.op = "idle"
    BY DEF Idle
  <2> QED BY <1>0, <1>2, <2>1, CountsBegin DEF EndCall
<1>3. CASE ~undo[u].used /\ state[i] # "pending" /\ Restores(u)
  <2>1. undo[u] \in [for: Interventions, of: Reversible, used: BOOLEAN, expired: BOOLEAN]
        /\ i \in Interventions
    BY <1>0 DEF CInv, IInv, InterventionTypeOK, UndoRows
  <2>2. undo'[u] = [undo[u] EXCEPT !.used = TRUE] /\ \A v \in UndoIds \ {u} : undo'[v] = undo[v]
    BY <1>0, <1>3 DEF Restores, CInv, IInv, InterventionTypeOK
  <2>3. undo'[u].for = i /\ undo'[u].used /\ undo'[u].of = undo[u].of
    BY <2>1, <2>2
  <2>4. \A j \in Interventions : state'[j] = IF j = i THEN "pending" ELSE state[j]
    BY <1>3, <2>1 DEF Restores, CInv, IInv, InterventionTypeOK
  <2>5. /\ Opens(u, i) /\ state[i] \in Reversible /\ \A t \in Sessions : ~Writes(t, i)
        /\ \A v \in UndoIds \ {u} : ~Opens(v, i)
        /\ undo[u].of = state[i]
    BY <1>0, <1>3, <2>1 DEF Opens, CInv, IInv, OneEach, Matched, RowsMatch
  <2>6. HandlersMatch'
    <3>1. \A t \in Sessions : session[t].op \in {"query", "respond"} => session[t].for \in Interventions
      BY HandlerFields DEF CInv, IInv
    <3>2. \A t \in Sessions : Is(t, "respond", "undo") => session[t].for # i
      BY <2>5 DEF Writes, Is
    <3> QED BY <1>1, <2>4, <3>1, <3>2 DEF CInv, Matched, HandlersMatch, Is, Idle
  <2>7. RowsMatch'
    <3>1. \A v \in UndoIds : undo[v] # NoUndo =>
            undo[v].for \in Interventions /\ (v # u /\ undo[v].for = i => undo[v].used)
      BY <2>5 DEF Opens, CInv, IInv, InterventionTypeOK, UndoRows
    <3> QED BY <1>0, <2>1, <2>2, <2>3, <2>4, <3>1 DEF CInv, Matched, RowsMatch
  <2>8. \A j \in Interventions : Executing(j)' = Executing(j)
    BY <1>0, <1>1, SameExecuting DEF WillRun, Idle
  <2>9. ASSUME NEW j \in Interventions PROVE Balance(j)'
    <3>1. CASE j # i \/ undo[u].of \notin Executed
      <4>1. UndoneRuns(j)' = UndoneRuns(j)
        <5>1. \A v \in UndoIds : v # u => undo'[v] = undo[v]
          BY <2>2
        <5>2. u \in UndoneRuns(j)' <=> u \in UndoneRuns(j)
          BY <2>1, <2>3, <3>1, <1>3 DEF UndoneRuns
        <5>3. \A v \in UndoIds : v # u => (v \in UndoneRuns(j)' <=> v \in UndoneRuns(j))
          BY <5>1 DEF UndoneRuns
        <5> QED
          BY <5>2, <5>3 DEF UndoneRuns
      <4>2. state'[j] \in Executed <=> state[j] \in Executed
        BY <2>4, <2>5, <3>1 DEF Executed
      <4>3. state'[j] # "none" => state[j] # "none"
        BY <2>4, <2>5 DEF Reversible
      <4> QED BY <2>8, <4>1, <4>2, <4>3, BalanceStays
    <3>2. CASE j = i /\ undo[u].of \in Executed
      <4>1. /\ Cardinality(Executing(j)) \in Nat /\ runs[j] \in Nat /\ unrun[j] \in Nat
            /\ Cardinality(UndoneRuns(j)) \in Nat
        BY Countable DEF CInv, IInv, InterventionTypeOK
      <4>2. Cardinality(UndoneRuns(j)') = Cardinality(UndoneRuns(j)) + 1
        <5>1. u \notin UndoneRuns(j) /\ UndoneRuns(j)' = UndoneRuns(j) \cup {u}
          BY <1>0, <1>3, <2>2, <2>3, <3>2 DEF UndoneRuns
        <5> QED BY <5>1, Countable, FS_AddElement
      <4>3. runs[j] + Cardinality(Executing(j)) + unrun[j] = Cardinality(UndoneRuns(j)) + 1
        BY <2>5, <3>2 DEF CInv, Matched, OneRunPerDecision, Executed
      <4>4. state'[j] \notin Executed /\ Executing(j)' = Executing(j)
        BY <2>4, <2>8, <3>2 DEF Executed
      <4> QED BY <4>1, <4>2, <4>3, <4>4 DEF Balance
    <3> QED BY <3>1, <3>2
  <2> QED BY <2>6, <2>7, <2>9 DEF Matched, OneRunPerDecision, Balance
<1> QED BY <1>2, <1>3

LEMMA CountsStart == InterventionInit => CInv
<1> SUFFICES ASSUME InterventionInit PROVE CInv
  OBVIOUS
<1>1. HandlersMatch /\ RowsMatch
  BY DEF InterventionInit, HandlersMatch, RowsMatch, Idle, Is
<1>2. OneRunPerDecision
  BY DEF InterventionInit, OneRunPerDecision
<1> QED BY <1>1, <1>2, Starts DEF CInv, Matched

LEMMA CountsStep == CInv /\ [InterventionNext]_interventionVars => CInv'
<1> SUFFICES ASSUME CInv, [InterventionNext]_interventionVars
             PROVE  Matched'
  BY EachStep DEF CInv
<1>1. CASE SetAutonomyLevel
  BY <1>1, CountsNoCall DEF SetAutonomyLevel, counts
<1>2. ASSUME NEW s \in Sessions, SessionStep(s) PROVE Matched'
  BY <1>2, CountsCreated, CountsAtOnce, CountsAnswers, CountsRecords, CountsRuns, CountsRead,
     CountsRestored DEF SessionStep
<1>3. ASSUME NEW s \in Sessions, CallFails(s) PROVE Matched'
  BY <1>3, CountsFail
<1>4. ASSUME NEW s \in Sessions, NEW i \in Interventions, SandboxQuery(s, i)
      PROVE  Matched'
  BY <1>4, IdleRunsNothing, CountsBegin DEF SandboxQuery, counts
<1>5. ASSUME NEW s \in Sessions, NEW i \in Interventions, NEW d \in Decisions, Respond(s, i, d)
      PROVE  Matched'
  BY <1>5, IdleRunsNothing, CountsBegin DEF Respond, counts
<1>6. ASSUME NEW s \in Sessions, NEW u \in UndoIds, UndoAction(s, u)
      PROVE  Matched'
  BY <1>6, IdleRunsNothing, CountsBegin DEF UndoAction, counts
<1>7. ASSUME NEW u \in UndoIds, Expires(u) PROVE Matched'
  BY <1>7, CountsNoCall DEF Expires, counts
<1>8. CASE UNCHANGED interventionVars
  BY <1>8, CountsNoCall DEF interventionVars
<1> QED BY <1>1, <1>2, <1>3, <1>4, <1>5, <1>6, <1>7, <1>8 DEF InterventionNext

LEMMA AlwaysCounted == InterventionSpec => []CInv
<1>1. InterventionInit => CInv
  BY CountsStart
<1>2. CInv /\ [InterventionNext]_interventionVars => CInv'
  BY CountsStep
<1> QED BY <1>1, <1>2, PTL DEF InterventionSpec
-----------------------------------------------------------------------------

\* The rows of interventions and undo_actions, and what the handlers of
\* UserExperienceServiceImpl and AgentLifecycleServiceImpl keep, have their types.
THEOREM TypesCorrect == InterventionSpec => []InterventionTypeOK
<1>1. IInv => InterventionTypeOK
  BY DEF IInv
<1> QED BY <1>1, Always, PTL

\* A decision has one undo action at most, and only a reversible one has any,
\* however many answers and undos of the same request run side by side.
THEOREM UndosCorrect == InterventionSpec => []OneUndoPerDecision
<1>1. IInv => OneUndoPerDecision
  BY OneEachMeans DEF IInv
<1> QED BY <1>1, Always, PTL

\* A reversible decision can be undone, unless the call of InterventionResponse
\* failed between its two transactions.
THEOREM UndoablesCorrect == InterventionSpec => []DecisionsCanBeUndone
<1>1. IInv => DecisionsCanBeUndone
  BY SomeEachMeans DEF IInv
<1> QED BY <1>1, Always, PTL

\* Every decision to execute, also one that was taken back, is executed exactly once,
\* or by a call that goes on, or was left without its execution by a call that failed,
\* however the answers, the undos and the failures of a request's handlers interleave.
THEOREM RunsCorrect == InterventionSpec => []OneRunPerDecision
<1>1. CInv => OneRunPerDecision
  BY DEF CInv, Matched
<1> QED BY <1>1, AlwaysCounted, PTL

\* All that the runs check of a state: decisions, their undo actions and the
\* executions match, although each call writes them in several transactions.
THEOREM InterventionsCorrect == InterventionSpec => []InterventionInvariant
<1>1. CInv => InterventionInvariant
  BY OneEachMeans, SomeEachMeans DEF CInv, Matched, IInv, InterventionInvariant
<1> QED BY <1>1, AlwaysCounted, PTL

\* "ABORT is terminal by design": no step changes the state of an aborted request.
THEOREM AbortsCorrect == InterventionSpec => AbortIsFinal
<1>1. ASSUME IInv, [InterventionNext]_interventionVars, NEW i \in Interventions, state[i] = "ABORT"
      PROVE  state'[i] = "ABORT"
  <2> USE DEF IInv, InterventionTypeOK
  <2>1. CASE state' = state
    BY <1>1, <2>1
  <2>2. ASSUME NEW s \in Sessions, createIntervention(s) PROVE state'[i] = "ABORT"
    <3>1. session[s].for # i
      BY <1>1, <2>2 DEF createIntervention, OneQueryEach
    <3> QED BY <1>1, <2>2, <3>1 DEF createIntervention
  <2>3. ASSUME NEW s \in Sessions, resolveIntervention(s) PROVE state'[i] = "ABORT"
    BY <1>1, <2>3 DEF resolveIntervention, Decided
  <2>4. ASSUME NEW s \in Sessions, CallFails(s) PROVE state'[i] = "ABORT"
    BY <1>1, <2>4 DEF CallFails
  <2>5. ASSUME NEW s \in Sessions, undoRestoreIntervention(s) PROVE state'[i] = "ABORT"
    <3> DEFINE u == session[s].id
    <3>1. u \in UndoIds
      BY <1>1, <2>5, HandlerFields DEF undoRestoreIntervention, Is
    <3>2. CASE ~undo[u].used /\ Restores(u)
      <4>1. undo[u].for # i
        <5>1. Opens(u, i) => state[i] \in Reversible
          BY <1>1, <3>1 DEF OneEach
        <5> HIDE DEF IInv, InterventionTypeOK
        <5> QED BY <1>1, <3>2, <5>1 DEF Opens, Reversible
      <4>2. state' = [state EXCEPT ![undo[u].for] = "pending"]
        BY <3>2 DEF Restores
      <4> QED BY <1>1, <4>1, <4>2
    <3> QED BY <1>1, <2>5, <3>2 DEF undoRestoreIntervention
  <2> QED BY <1>1, <2>1, <2>2, <2>3, <2>4, <2>5
       DEF InterventionNext, SessionStep, SetAutonomyLevel, ExecuteAtOnce, createUndoAction,
           runSandboxExecution, getUndoActionById, SandboxQuery, Respond, UndoAction, Expires,
           interventionVars
<1>2. IInv /\ [InterventionNext]_interventionVars =>
        [\A i \in Interventions : state[i] = "ABORT" => state'[i] = "ABORT"]_interventionVars
  BY <1>1
<1> QED BY <1>2, Always, PTL DEF InterventionSpec, AbortIsFinal
=============================================================================
