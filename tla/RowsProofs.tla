----------------------------- MODULE RowsProofs -----------------------------
(***************************************************************************)
(* Records that are written in several transactions by whoever is faster:  *)
(* the runs of CompareAgents, the migrations of the schema, the weights of *)
(* the routes, and the tasks of the A2A store.                             *)
(***************************************************************************)
EXTENDS CompareRuns, Migrations, RouteQuality, TaskStates, SequenceTheorems, FiniteSetTheorems, TLAPS

-----------------------------------------------------------------------------
(* CompareAgents.  The inductive invariant says what the row and the status  *)
(* of the call are at each point of the call.                                *)

Statuses == {"completed", "failed", "partial", "cancelled"}
AllEnded == \A a \in Compared : outcome[a] \in {"completed", "failed"}

\* What the status of a run says, before it is written.
StatusFits(status) ==
  /\ status = "completed" => Completed = Compared
  /\ status = "partial" => Completed \notin {{}, Compared}
  /\ status = "failed" => Completed = {}
  /\ status = "cancelled" => cancelled

CompareTypes ==
  /\ CompareTypeOK
  /\ call \in [at: Replied \cup {"start", "create", "gate", "update", "final"},
               status: {"none"} \cup Statuses]
  /\ outcome \in [Compared -> {"none", "running", "completed", "failed"}]

RowFollowsCall ==
  /\ call.at \in {"start", "create"} => row.status = "none"
  /\ call.at \in {"gate", "update"} => row.status = "running"
  /\ call.at \in {"update", "final", "OK"} =>
       call.status \in Statuses /\ StatusFits(call.status) /\ AllEnded
  /\ call.at = "final" =>
       \/ row.status = "running" /\ "update failed" \in mishaps
       \/ row.status = call.status /\ row.results = outcome /\ "update lost" \in mishaps
  /\ call.at = "OK" => row.status = call.status
  /\ Settled => row.results = outcome /\ AllEnded

CompareInv ==
  /\ CompareTypes /\ RowFollowsCall /\ StatusTellsOutcomes
  /\ ReplyTellsRow /\ RunningOnlyIfBroken

LEMMA CompareStarts == CompareInit => CompareInv
<1> SUFFICES ASSUME CompareInit PROVE CompareInv
  OBVIOUS
<1> USE DEF CompareInit, NoRow, Replied, Mishaps, Statuses
<1>1. CompareTypes
  BY Zenon DEF CompareTypes, CompareTypeOK
<1>2. RowFollowsCall /\ StatusTellsOutcomes /\ ReplyTellsRow /\ RunningOnlyIfBroken
  BY DEF RowFollowsCall, StatusTellsOutcomes, ReplyTellsRow, RunningOnlyIfBroken, Settled
<1> QED BY <1>1, <1>2 DEF CompareInv

Places == Replied \cup {"start", "create", "gate", "update", "final"}

LEMMA RunGoes ==
  ASSUME CompareInv
  PROVE  \A at \in Places : RunGoesTo(at) =>
           /\ call'.at = at /\ call'.status = call.status
           /\ call' \in [at: Places, status: {"none"} \cup Statuses]
BY DEF RunGoesTo, CompareInv, CompareTypes, Places

\* The steps of the call: only the place of the call and what is said of it change.
LEMMA CompareBegins ==
  ASSUME CompareInv, CompareAgents \/ createCompareRun
  PROVE  CompareInv'
<1> USE DEF Places, Replied
<1>1. /\ call'.status = call.status /\ call' \in [at: Places, status: {"none"} \cup Statuses]
      /\ UNCHANGED <<outcome, cancelled>>
      /\ \/ /\ call'.at \in {"CANCELLED", "create"} /\ UNCHANGED <<row, mishaps>>
            /\ row.status = "none"
         \/ call'.at = "gate" /\ row'.status = "running" /\ UNCHANGED mishaps
         \/ /\ call'.at = "INTERNAL" /\ UNCHANGED row /\ row.status = "none"
            /\ mishaps' = mishaps \cup {"create failed"}
         \/ /\ call'.at = "INTERNAL" /\ row'.status = "running"
            /\ mishaps' = mishaps \cup {"create lost"}
  <2>1. CASE CompareAgents
    BY <2>1, RunGoes DEF CompareAgents, CompareInv, RowFollowsCall
  <2>2. CASE createCompareRun
    <3>1. row.status = "none"
      BY <2>2 DEF createCompareRun, CompareInv, RowFollowsCall
    <3>2. WritesRun("running", NoRow.results) => row'.status = "running"
      BY DEF WritesRun
    <3> QED BY <2>2, <3>1, <3>2, RunGoes DEF createCompareRun, GoesWrong
  <2> QED BY <2>1, <2>2
<1>2. CompareTypes'
  BY <1>1 DEF CompareInv, CompareTypes, CompareTypeOK, Mishaps
<1>3. RowFollowsCall'
  BY <1>1 DEF RowFollowsCall, Settled
<1>4. StatusTellsOutcomes' /\ ReplyTellsRow' /\ RunningOnlyIfBroken'
  BY <1>1 DEF StatusTellsOutcomes, ReplyTellsRow, RunningOnlyIfBroken, Settled
<1> QED BY <1>2, <1>3, <1>4 DEF CompareInv

\* The agents: the row is "running" as long as one of them may be.
LEMMA CompareRunsAgents ==
  ASSUME CompareInv, NEW a \in Compared, HealthGate(a) \/ WorkerEnds(a)
  PROVE  CompareInv'
<1> USE DEF HealthGate, WorkerEnds, Replied, Mishaps, Statuses
<1>1. CompareTypes'
  BY DEF CompareInv, CompareTypes, CompareTypeOK
<1>2. row.status = "running" /\ UNCHANGED <<row, call, mishaps, cancelled>> /\ call.at = "gate"
  BY DEF CompareInv, RowFollowsCall
<1>3. RowFollowsCall'
  BY <1>2 DEF RowFollowsCall, Settled
<1>4. StatusTellsOutcomes' /\ ReplyTellsRow' /\ RunningOnlyIfBroken'
  BY <1>2 DEF StatusTellsOutcomes, ReplyTellsRow, RunningOnlyIfBroken
<1> QED BY <1>1, <1>3, <1>4 DEF CompareInv

LEMMA CompareAggregates ==
  ASSUME CompareInv, Aggregate
  PROVE  CompareInv'
<1> USE DEF Aggregate, Replied, Mishaps, Statuses
<1>0. /\ call'.at = "update" /\ call'.status = RunStatus
      /\ RunStatus \in {"completed", "failed", "partial", "cancelled"}
      /\ UNCHANGED <<row, outcome, mishaps, cancelled>>
  BY DEF RunStatus
<1>1. CompareTypes'
  BY <1>0 DEF CompareInv, CompareTypes, CompareTypeOK
<1>2. row.status = "running" /\ AllEnded
  BY DEF CompareInv, RowFollowsCall, AllEnded
<1>3. StatusFits(call.status)'
  <2>1. Completed' = Completed
    BY <1>0 DEF Completed
  <2> QED BY <1>0, <2>1 DEF StatusFits, RunStatus
<1>4. RowFollowsCall'
  BY <1>0, <1>2, <1>3 DEF RowFollowsCall, Settled, AllEnded
<1>5. StatusTellsOutcomes' /\ ReplyTellsRow' /\ RunningOnlyIfBroken'
  BY <1>0, <1>2 DEF StatusTellsOutcomes, ReplyTellsRow, RunningOnlyIfBroken
<1> QED BY <1>1, <1>4, <1>5 DEF CompareInv

LEMMA CompareUpdates ==
  ASSUME CompareInv, updateCompareRun
  PROVE  CompareInv'
<1> USE DEF Places, Replied
<1>0. /\ UNCHANGED <<outcome, cancelled>> /\ AllEnded
      /\ call.status \in Statuses /\ StatusFits(call.status) /\ row.status = "running"
  BY DEF updateCompareRun, CompareInv, RowFollowsCall
<1>1. /\ call'.status = call.status /\ call' \in [at: Places, status: {"none"} \cup Statuses]
      /\ \/ /\ call'.at = "OK" /\ row'.status = call.status /\ row'.results = outcome
            /\ UNCHANGED mishaps
         \/ /\ call'.at = "final" /\ UNCHANGED row /\ mishaps' = mishaps \cup {"update failed"}
         \/ /\ call'.at = "final" /\ row'.status = call.status /\ row'.results = outcome
            /\ mishaps' = mishaps \cup {"update lost"}
  <2>1. WritesRun(call.status, outcome) => row'.status = call.status /\ row'.results = outcome
    BY DEF WritesRun
  <2> QED BY <2>1, RunGoes DEF updateCompareRun, GoesWrong
<1>2. CompareTypes'
  BY <1>0, <1>1 DEF CompareInv, CompareTypes, CompareTypeOK, Mishaps, Statuses
<1>3. /\ AllEnded' /\ StatusFits(call.status)' /\ Completed' = Completed
  BY <1>0, <1>1 DEF AllEnded, StatusFits, Completed
<1>4. RowFollowsCall'
  BY <1>0, <1>1, <1>3 DEF RowFollowsCall, Settled
<1>5. StatusTellsOutcomes'
  BY <1>0, <1>1, <1>3 DEF StatusTellsOutcomes, StatusFits
<1>6. ReplyTellsRow' /\ RunningOnlyIfBroken'
  BY <1>0, <1>1 DEF ReplyTellsRow, RunningOnlyIfBroken, Statuses
<1> QED BY <1>2, <1>4, <1>5, <1>6 DEF CompareInv

LEMMA CompareFails ==
  ASSUME CompareInv, WriteFailed
  PROVE  CompareInv'
<1> USE DEF Places, Replied
<1>0. /\ UNCHANGED <<outcome, cancelled>> /\ AllEnded
      /\ \/ row.status = "running" /\ "update failed" \in mishaps
         \/ row.results = outcome /\ "update lost" \in mishaps /\ row.status # "running"
  BY DEF WriteFailed, CompareInv, RowFollowsCall, Statuses
<1>1. /\ call'.at = "INTERNAL" /\ call' \in [at: Places, status: {"none"} \cup Statuses]
      /\ \/ row'.status = "failed" /\ row'.results = outcome /\ UNCHANGED mishaps
         \/ UNCHANGED row /\ mishaps' = mishaps \cup {"final failed"}
         \/ /\ row'.status = "failed" /\ row'.results = outcome
            /\ mishaps' = mishaps \cup {"final lost"}
  <2>1. WritesRun("failed", outcome) => row'.status = "failed" /\ row'.results = outcome
    BY DEF WritesRun
  <2> QED BY <2>1, RunGoes DEF WriteFailed, GoesWrong
<1>2. CompareTypes'
  BY <1>0, <1>1 DEF CompareInv, CompareTypes, CompareTypeOK, Mishaps
<1>3. AllEnded' /\ Completed' = Completed
  BY <1>0 DEF AllEnded, Completed
<1>4. RowFollowsCall'
  BY <1>0, <1>1, <1>3 DEF CompareInv, RowFollowsCall, Settled
<1>5. StatusTellsOutcomes'
  <2>1. CASE UNCHANGED row
    BY <1>0, <1>1, <1>3, <2>1 DEF CompareInv, StatusTellsOutcomes
  <2>2. CASE row'.status = "failed"
    BY <1>0, <1>1, <1>3, <2>2 DEF StatusTellsOutcomes
  <2> QED BY <1>1, <2>1, <2>2
<1>6. ReplyTellsRow'
  BY <1>0, <1>1 DEF ReplyTellsRow, Settled
<1>7. RunningOnlyIfBroken'
  BY <1>0, <1>1 DEF RunningOnlyIfBroken
<1> QED BY <1>2, <1>4, <1>5, <1>6, <1>7 DEF CompareInv

LEMMA CompareEnds ==
  ASSUME CompareInv, ClientCancels \/ ServerEnds
  PROVE  CompareInv'
<1> USE DEF ClientCancels, ServerEnds, RunGoesTo, GoesWrong, Replied, Mishaps, Statuses
<1>1. CASE ClientCancels
  <2>1. CompareTypes'
    BY <1>1, Zenon DEF CompareInv, CompareTypes, CompareTypeOK
  <2>2. Completed' = Completed /\ UNCHANGED <<call, row, outcome, mishaps>> /\ cancelled'
    BY <1>1 DEF Completed
  <2>3. RowFollowsCall'
    BY <2>2 DEF CompareInv, RowFollowsCall, Settled, AllEnded, StatusFits
  <2>4. StatusTellsOutcomes' /\ ReplyTellsRow' /\ RunningOnlyIfBroken'
    BY <2>2 DEF CompareInv, StatusTellsOutcomes, ReplyTellsRow, RunningOnlyIfBroken, Settled
  <2> QED BY <2>1, <2>3, <2>4 DEF CompareInv
<1>2. CASE ServerEnds
  <2>1. CompareTypes'
    BY <1>2 DEF CompareInv, CompareTypes, CompareTypeOK
  <2>2. Completed' = Completed /\ call'.at = "down" /\ UNCHANGED <<row, cancelled>>
        /\ mishaps' = mishaps \cup {"crash"}
    BY <1>2 DEF CompareInv, CompareTypes, Completed
  <2>3. AllEnded => AllEnded' /\ outcome' = outcome
    BY <1>2 DEF AllEnded, CompareInv, CompareTypes
  <2>4. RowFollowsCall'
    BY <1>2, <2>2, <2>3 DEF CompareInv, RowFollowsCall, Settled
  <2>5. StatusTellsOutcomes' /\ ReplyTellsRow' /\ RunningOnlyIfBroken'
    BY <2>2 DEF CompareInv, StatusTellsOutcomes, ReplyTellsRow, RunningOnlyIfBroken, Settled
  <2> QED BY <2>1, <2>4, <2>5 DEF CompareInv
<1> QED BY <1>1, <1>2

LEMMA CompareAlways == CompareSpec => []CompareInv
<1>1. CompareInit => CompareInv
  BY CompareStarts
<1>2. CompareInv /\ [CompareNext]_compareVars => CompareInv'
  <2> SUFFICES ASSUME CompareInv, [CompareNext]_compareVars PROVE CompareInv'
    OBVIOUS
  <2>1. CASE UNCHANGED compareVars
    BY <2>1 DEF compareVars, CompareInv, CompareTypes, CompareTypeOK, RowFollowsCall, AllEnded,
                StatusFits, Completed, Settled, StatusTellsOutcomes, ReplyTellsRow, RunningOnlyIfBroken
  <2> QED BY <2>1, CompareBegins, CompareRunsAgents, CompareAggregates, CompareUpdates,
             CompareFails, CompareEnds DEF CompareNext
<1> QED BY <1>1, <1>2, PTL DEF CompareSpec

\* "The run row must never stay "running" forever" (agent_lifecycle_service.cpp:511),
\* and what it says when it is settled is how its queries ended, whichever writes
\* of the row fail or are only not acknowledged, and for any number of agents.
THEOREM ComparesCorrect == CompareSpec => []CompareInvariant
<1>1. CompareInv => CompareInvariant
  <2>1. RowFollowsCall => SettledAfterWorkers
    BY DEF RowFollowsCall, SettledAfterWorkers, AllEnded
  <2> QED BY <2>1 DEF CompareInv, CompareTypes, CompareInvariant
<1> QED BY <1>1, CompareAlways, PTL

-----------------------------------------------------------------------------
(* Migrations.  The inductive invariant says what each run knows: all of its *)
(* versions that are not left are recorded with its checksums, the next one  *)
(* is the least of those that are left, and a run that is about to apply one *)
(* has the lock and has seen that it is not recorded.  History has no gaps.  *)

Plans == UNION {[S -> Contents] : S \in SUBSET Versions}
RunStates ==
  [at: Ended \cup {"create", "read", "begin", "check", "apply"}, runs: Nat,
   plan: Plans \cup {<<>>}, left: SUBSET Versions, version: Nat,
   sql: Contents \cup {"none"}, collided: BOOLEAN]
Entries == [version: Versions, executed: Contents, checksum: Contents]

RunFits(r, run) ==
  /\ run.at \notin {"down", "failed"} =>
       /\ run.plan \in Plans /\ DOMAIN run.plan = DOMAIN directory[r]
       /\ run.left \subseteq DOMAIN run.plan
       /\ \A v \in DOMAIN run.plan \ run.left :
            \E e \in History : e.version = v /\ e.checksum = run.plan[v]
       /\ \A v \in DOMAIN run.plan \ edited : run.plan[v] = directory[r][v]
  /\ run.at \in {"begin", "check", "apply"} =>
       /\ run.version \in run.left /\ \A w \in run.left : run.version <= w
       /\ run.sql \in Contents
       /\ run.version \notin edited => run.sql = run.plan[run.version]
  /\ run.at = "current" => run.left = {}
  /\ run.at \in {"check", "apply"} => lockedBy = r
  /\ run.at = "apply" => \A e \in History : e.version # run.version

NoGaps ==
  \A e \in History, r \in Runners :
    \A v \in DOMAIN directory[r] : v < e.version => \E f \in History : f.version = v

MigrationInv ==
  /\ MigrationTypeOK /\ runner \in [Runners -> RunStates]
  /\ \A r \in Runners : \E d \in Directories : DOMAIN directory[r] = DOMAIN d
  /\ \A r \in Runners : RunFits(r, runner[r])
  /\ NobodyCollides /\ AppliedInOrder /\ RecordedIsExecuted /\ NoGaps

LEMMA MigrationStarts == MigrationInit => MigrationInv
<1> SUFFICES ASSUME MigrationInit PROVE MigrationInv
  OBVIOUS
<1> USE DEF MigrationInit
<1>0. applied = <<>> /\ DOMAIN applied = {} /\ History = {}
  BY EmptySeq DEF History
<1>1. NotStarted \in RunStates
  BY DEF NotStarted, RunStates, Ended
<1>2. runner \in [Runners -> RunStates] /\ \A r \in Runners : runner[r] = NotStarted
  BY <1>1
<1>3. MigrationTypeOK
  <2>1. directory \in [Runners -> UNION {[S -> Contents] : S \in SUBSET Versions}]
    BY MigrationAssumption
  <2>2. \A r \in Runners : runner[r].runs <= MaxRuns
    BY <1>2, MigrationBounds DEF NotStarted
  <2>3. applied \in Seq(Entries)
    BY <1>0
  <2> QED BY <2>1, <2>2, <2>3, MigrationBounds DEF MigrationTypeOK, Entries
<1>4. \A r \in Runners : \E d \in Directories : DOMAIN directory[r] = DOMAIN d
  OBVIOUS
<1>5. \A r \in Runners : RunFits(r, runner[r])
  BY <1>2 DEF RunFits, NotStarted
<1>6. NobodyCollides /\ AppliedInOrder /\ RecordedIsExecuted /\ NoGaps
  BY <1>0, <1>2 DEF NobodyCollides, AppliedInOrder, RecordedIsExecuted, NoGaps, NotStarted
<1> QED BY <1>2, <1>3, <1>4, <1>5, <1>6 DEF MigrationInv

\* A run moves on, and nothing is recorded.
LEMMA RunMoves ==
  ASSUME MigrationInv, NEW r \in Runners, NEW run \in RunStates, Moves(r, run),
         run.runs <= MaxRuns, ~run.collided, UNCHANGED <<directory, edited, applied>>,
         lockedBy' \in Runners \cup {NoRunner}, lockedBy \notin {r, NoRunner} => lockedBy' = lockedBy,
         breaks' \in 0..MaxBreaks, RunFits(r, run)'
  PROVE  MigrationInv'
<1>1. \A s \in Runners : runner'[s] = IF s = r THEN run ELSE runner[s]
  BY DEF Moves, MigrationInv
<1>2. runner' \in [Runners -> RunStates]
  BY DEF Moves, MigrationInv
<1>3. MigrationTypeOK'
  BY <1>1 DEF MigrationInv, MigrationTypeOK
<1>4. History' = History
  BY DEF History
<1>5. ASSUME NEW s \in Runners PROVE RunFits(s, runner[s])'
  <2>1. CASE s = r
    BY <1>1, <2>1
  <2>2. CASE s # r
    <3>1. runner'[s] = runner[s] /\ RunFits(s, runner[s])
      BY <1>1, <2>2 DEF MigrationInv
    <3>2. lockedBy = s => lockedBy' = s
      BY <2>2, MigrationAssumption
    <3>3. PICK run2 : run2 = runner[s]
      OBVIOUS
    <3>4. directory' = directory /\ edited' = edited
      OBVIOUS
    <3>5. RunFits(s, run2)'
      BY ONLY <1>4, <3>1, <3>2, <3>3, <3>4 DEF RunFits
    <3> QED BY ONLY <3>1, <3>3, <3>5 DEF RunFits
  <2> QED BY <2>1, <2>2
<1>6. NobodyCollides'
  BY <1>1 DEF MigrationInv, NobodyCollides
<1>7. AppliedInOrder' /\ RecordedIsExecuted' /\ NoGaps'
  BY <1>4 DEF MigrationInv, AppliedInOrder, RecordedIsExecuted, NoGaps
<1> QED BY <1>2, <1>3, <1>5, <1>6, <1>7 DEF MigrationInv

LEMMA RunIs ==
  ASSUME MigrationInv, NEW r \in Runners
  PROVE  runner[r] \in RunStates /\ RunFits(r, runner[r]) /\ ~runner[r].collided
         /\ runner[r].runs <= MaxRuns /\ breaks \in 0..MaxBreaks
         /\ lockedBy \in Runners \cup {NoRunner}
BY DEF MigrationInv, MigrationTypeOK, NobodyCollides

LEMMA Discovers ==
  ASSUME MigrationInv, NEW r \in Runners, discover(r)
  PROVE  MigrationInv'
<1> USE DEF discover
<1>1. directory[r] \in Plans /\ DOMAIN directory[r] \in SUBSET Versions
  BY DEF MigrationInv, MigrationTypeOK, Plans
<1>2. PICK run \in RunStates :
        /\ Moves(r, run) /\ run.at = "create" /\ run.runs = runner[r].runs + 1
        /\ run.plan = directory[r] /\ run.left = DOMAIN directory[r] /\ ~run.collided
  <2> DEFINE started == [NotStarted EXCEPT !.at = "create", !.runs = runner[r].runs + 1,
                                    !.plan = directory[r], !.left = DOMAIN directory[r]]
  <2>1. /\ started \in RunStates /\ started.at = "create" /\ started.runs = runner[r].runs + 1
        /\ started.plan = directory[r] /\ started.left = DOMAIN directory[r] /\ ~started.collided
    <3>1. runner[r].runs + 1 \in Nat
      BY RunIs DEF RunStates
    <3>2. NotStarted \in RunStates /\ NotStarted.collided = FALSE
      BY DEF NotStarted, RunStates, Ended
    <3> HIDE DEF discover
    <3> QED BY <1>1, <3>1, <3>2 DEF RunStates
  <2>2. Moves(r, started)
    OBVIOUS
  <2> HIDE DEF started
  <2> QED BY <2>1, <2>2
<1>3. RunFits(r, run)'
  BY <1>1, <1>2 DEF RunFits
<1>5. run.runs <= MaxRuns
  BY <1>2, RunIs, MigrationBounds DEF RunStates
<1> QED BY <1>2, <1>3, <1>5, RunIs, RunMoves

\* What a run that goes on keeps.
LEMMA RunGoesOn ==
  ASSUME MigrationInv, NEW r \in Runners, NEW at \in {"read", "check", "apply", "current"},
         Moves(r, [runner[r] EXCEPT !.at = at])
  PROVE  \E run \in RunStates :
           /\ Moves(r, run) /\ run.at = at /\ run.runs = runner[r].runs
           /\ run.plan = runner[r].plan /\ run.left = runner[r].left
           /\ run.version = runner[r].version /\ run.sql = runner[r].sql
           /\ run.collided = runner[r].collided
<1> DEFINE run == [runner[r] EXCEPT !.at = at]
<1>1. /\ run \in RunStates /\ run.at = at /\ run.runs = runner[r].runs
      /\ run.plan = runner[r].plan /\ run.left = runner[r].left
      /\ run.version = runner[r].version /\ run.sql = runner[r].sql
      /\ run.collided = runner[r].collided
  BY RunIs DEF RunStates, Ended
<1>2. Moves(r, run)
  OBVIOUS
<1> HIDE DEF run
<1> QED BY <1>1, <1>2

LEMMA CreatesTable ==
  ASSUME MigrationInv, NEW r \in Runners, CreateTable(r) \/ AllApplied(r)
  PROVE  MigrationInv'
<1> DEFINE at == IF runner[r].at = "create" THEN "read" ELSE "current"
<1> USE DEF CreateTable, AllApplied, RunnerAt
<1>1. PICK run \in RunStates :
        /\ Moves(r, run) /\ run.at = at /\ run.runs = runner[r].runs
        /\ run.plan = runner[r].plan /\ run.left = runner[r].left
        /\ run.collided = runner[r].collided
  BY RunGoesOn
<1>3. History' = History
  BY DEF History
<1>4. RunFits(r, run)'
  BY <1>1, <1>3, RunIs DEF RunFits
<1> QED BY <1>1, <1>4, RunIs, RunMoves

LEMMA ReadsFile ==
  ASSUME MigrationInv, NEW r \in Runners, readFile(r)
  PROVE  MigrationInv'
<1> USE DEF readFile, RunnerAt
<1>0. PICK v \in runner[r].left :
        /\ \A w \in runner[r].left : v <= w
        /\ Moves(r, [runner[r] EXCEPT !.at = "begin", !.version = v, !.sql = directory[r][v]])
  OBVIOUS
<1>1. v \in DOMAIN runner[r].plan /\ v \in DOMAIN directory[r] /\ v \in Versions
  BY RunIs DEF RunFits, RunStates
<1>2. v \in Nat /\ directory[r][v] \in Contents
  BY <1>1, MigrationAssumption DEF MigrationInv, MigrationTypeOK
<1>3. PICK run \in RunStates :
        /\ Moves(r, run) /\ run.at = "begin" /\ run.runs = runner[r].runs
        /\ run.plan = runner[r].plan /\ run.left = runner[r].left
        /\ run.version = v /\ run.sql = directory[r][v]
        /\ run.collided = runner[r].collided
  <2> DEFINE next == [runner[r] EXCEPT !.at = "begin", !.version = v, !.sql = directory[r][v]]
  <2>1. /\ next \in RunStates /\ next.at = "begin" /\ next.runs = runner[r].runs
        /\ next.plan = runner[r].plan /\ next.left = runner[r].left
        /\ next.version = v /\ next.sql = directory[r][v]
        /\ next.collided = runner[r].collided
    BY <1>2, RunIs DEF RunStates
  <2>2. Moves(r, next)
    BY <1>0
  <2> HIDE DEF next
  <2> QED BY <2>1, <2>2
<1>5. History' = History
  BY DEF History
<1>6. RunFits(r, run)'
  BY <1>0, <1>1, <1>2, <1>3, <1>5, RunIs DEF RunFits
<1> QED BY <1>0, <1>3, <1>6, RunIs, RunMoves

LEMMA Locks ==
  ASSUME MigrationInv, NEW r \in Runners, Lock(r)
  PROVE  MigrationInv'
<1> USE DEF Lock, RunnerAt
<1>1. PICK run \in RunStates :
        /\ Moves(r, run) /\ run.at = "check" /\ run.runs = runner[r].runs
        /\ run.plan = runner[r].plan /\ run.left = runner[r].left
        /\ run.version = runner[r].version /\ run.sql = runner[r].sql
        /\ run.collided = runner[r].collided
  BY RunGoesOn
<1>3. History' = History
  BY DEF History
<1>4. RunFits(r, run)'
  BY <1>1, <1>3, RunIs DEF RunFits
<1> QED BY <1>1, <1>4, RunIs, RunMoves

\* The run that ends in failure gives up its lock.
LEMMA RunFails ==
  ASSUME MigrationInv, NEW r \in Runners, Fails(r, FALSE), Unlocks(r), breaks' \in 0..MaxBreaks,
         UNCHANGED <<directory, edited, applied>>
  PROVE  MigrationInv'
<1>1. PICK run \in RunStates :
        Moves(r, run) /\ run.at = "failed" /\ run.runs = runner[r].runs /\ ~run.collided
  <2> DEFINE ended == [runner[r] EXCEPT !.at = "failed", !.collided = FALSE]
  <2>1. ended \in RunStates /\ ended.at = "failed" /\ ended.runs = runner[r].runs /\ ~ended.collided
    BY RunIs DEF RunStates, Ended
  <2>2. Moves(r, ended)
    BY DEF Fails
  <2> HIDE DEF ended
  <2> QED BY <2>1, <2>2
<1>3. RunFits(r, run)'
  BY <1>1 DEF RunFits
<1>4. lockedBy' \in Runners \cup {NoRunner} /\ (lockedBy \notin {r, NoRunner} => lockedBy' = lockedBy)
  BY RunIs DEF Unlocks
<1> QED BY <1>1, <1>3, <1>4, RunIs, RunMoves

\* The run after its migration is recorded.
LEMMA Advances ==
  ASSUME MigrationInv, NEW r \in Runners, runner[r].at \in {"check", "apply"}, Advance(r)
  PROVE  /\ \E run \in RunStates :
              /\ Moves(r, run) /\ run.at = "read" /\ run.runs = runner[r].runs
              /\ run.plan = runner[r].plan /\ run.left = runner[r].left \ {runner[r].version}
              /\ run.collided = runner[r].collided
         /\ lockedBy' \in Runners \cup {NoRunner}
         /\ lockedBy \notin {r, NoRunner} => lockedBy' = lockedBy
<1> DEFINE run == [runner[r] EXCEPT !.at = "read", !.left = runner[r].left \ {runner[r].version}]
<1>1. /\ run \in RunStates /\ run.at = "read" /\ run.runs = runner[r].runs
      /\ run.plan = runner[r].plan /\ run.left = runner[r].left \ {runner[r].version}
      /\ run.collided = runner[r].collided
  BY RunIs DEF RunStates
<1>2. Moves(r, run)
  BY DEF Advance, Moves
<1>3. lockedBy' \in Runners \cup {NoRunner} /\ (lockedBy \notin {r, NoRunner} => lockedBy' = lockedBy)
  BY RunIs DEF Advance, Unlocks
<1> HIDE DEF run
<1> QED BY <1>1, <1>2, <1>3

LEMMA Checks ==
  ASSUME MigrationInv, NEW r \in Runners, CheckApplied(r)
  PROVE  MigrationInv'
<1> USE DEF RunnerAt
<1>0. /\ UNCHANGED <<directory, applied, edited, breaks>> /\ runner[r].at = "check"
      /\ breaks' \in 0..MaxBreaks
  BY RunIs DEF CheckApplied
<1>1. History' = History
  BY <1>0 DEF History
<1>2. CASE /\ Recorded(runner[r].version) = {} /\ UNCHANGED lockedBy
           /\ Moves(r, [runner[r] EXCEPT !.at = "apply"])
  <2>1. PICK run \in RunStates :
          /\ Moves(r, run) /\ run.at = "apply" /\ run.runs = runner[r].runs
          /\ run.plan = runner[r].plan /\ run.left = runner[r].left
          /\ run.version = runner[r].version /\ run.sql = runner[r].sql
          /\ run.collided = runner[r].collided
    BY <1>2, RunGoesOn
  <2>3. \A e \in History : e.version # run.version
    BY <1>2, <2>1 DEF Recorded
  <2>4. RunFits(r, run)'
    BY <1>0, <1>1, <1>2, <2>1, <2>3, RunIs DEF RunFits
  <2> QED BY <1>0, <1>2, <2>1, <2>4, RunIs, RunMoves
<1>3. CASE /\ Recorded(runner[r].version) # {} /\ Advance(r)
           /\ \A e \in Recorded(runner[r].version) : e.checksum = runner[r].plan[runner[r].version]
  <2>1. PICK run \in RunStates :
          /\ Moves(r, run) /\ run.at = "read" /\ run.runs = runner[r].runs
          /\ run.plan = runner[r].plan /\ run.left = runner[r].left \ {runner[r].version}
          /\ run.collided = runner[r].collided
    BY <1>0, <1>3, Advances
  <2>4. lockedBy' \in Runners \cup {NoRunner} /\ (lockedBy \notin {r, NoRunner} => lockedBy' = lockedBy)
    BY <1>0, <1>3, Advances
  <2>2. \E e \in History : e.version = runner[r].version
          /\ e.checksum = runner[r].plan[runner[r].version]
    BY <1>3 DEF Recorded
  <2>3. RunFits(r, run)'
    BY <1>0, <1>1, <2>1, <2>2, RunIs DEF RunFits
  <2> QED BY <1>0, <2>1, <2>3, <2>4, RunIs, RunMoves
<1>4. CASE Fails(r, FALSE) /\ Unlocks(r)
  BY <1>0, <1>4, RunFails
<1> QED BY <1>2, <1>3, <1>4 DEF CheckApplied

\* What recording the next migration does to the history.
LEMMA Recording ==
  ASSUME MigrationInv, NEW r \in Runners, RunnerAt(r, "apply"), Records(r)
  PROVE  \E e \in Entries :
           /\ e.version = runner[r].version
           /\ e.checksum = runner[r].plan[runner[r].version] /\ e.executed = runner[r].sql
           /\ applied' = Append(applied, e) /\ applied' \in Seq(Entries)
           /\ DOMAIN applied = 1..Len(applied) /\ Len(applied) \in Nat
           /\ DOMAIN applied' = 1..(Len(applied) + 1)
           /\ \A i \in DOMAIN applied : applied'[i] = applied[i]
           /\ applied'[Len(applied) + 1] = e
           /\ History' = History \cup {e}
<1> DEFINE v == runner[r].version
           e == [version |-> v, executed |-> runner[r].sql, checksum |-> runner[r].plan[v]]
<1>1. RunFits(r, runner[r])
  BY RunIs
<1>2. v \in Versions /\ runner[r].sql \in Contents /\ runner[r].plan[v] \in Contents
  BY <1>1 DEF RunFits, RunnerAt, Plans
<1>3. e \in Entries /\ e.version = v /\ e.checksum = runner[r].plan[v] /\ e.executed = runner[r].sql
  BY <1>2 DEF Entries
<1>4. applied' = Append(applied, e) /\ applied \in Seq(Entries)
  BY DEF Records, MigrationInv, MigrationTypeOK, Entries
<1> HIDE DEF e
<1>5. /\ applied' \in Seq(Entries) /\ DOMAIN applied = 1..Len(applied) /\ Len(applied) \in Nat
      /\ DOMAIN applied' = 1..(Len(applied) + 1)
      /\ \A i \in DOMAIN applied : applied'[i] = applied[i]
      /\ applied'[Len(applied) + 1] = e
  BY <1>3, <1>4, AppendProperties
<1>6. History' = History \cup {e}
  <2>1. \A i \in DOMAIN applied' : i \in DOMAIN applied \/ i = Len(applied) + 1
    BY <1>5
  <2>2. \A i \in DOMAIN applied : i \in DOMAIN applied'
    BY <1>5
  <2>3. Len(applied) + 1 \in DOMAIN applied'
    BY <1>5
  <2> QED BY <1>5, <2>1, <2>2, <2>3 DEF History
<1> QED BY <1>3, <1>4, <1>5, <1>6

\* The version that is applied comes after all that were: what comes before it in
\* the release is recorded, and a version that came after would have it recorded.
LEMMA ComesLast ==
  ASSUME MigrationInv, NEW r \in Runners, RunnerAt(r, "apply")
  PROVE  /\ \A e \in History : e.version < runner[r].version
         /\ \A s \in Runners : \A v \in DOMAIN directory[s] :
              v < runner[r].version => \E f \in History : f.version = v
<1> DEFINE n == runner[r].version
<1>1. RunFits(r, runner[r])
  BY RunIs
<1>2. n \in runner[r].left /\ (\A w \in runner[r].left : n <= w)
      /\ n \in DOMAIN directory[r] /\ runner[r].left \subseteq DOMAIN directory[r]
      /\ DOMAIN runner[r].plan = DOMAIN directory[r]
      /\ (\A e \in History : e.version # n)
  BY <1>1 DEF RunFits, RunnerAt
<1>3. n \in Nat /\ \A s \in Runners : \A v \in DOMAIN directory[s] : v \in Nat
  <2>1. \A s \in Runners : DOMAIN directory[s] \subseteq Versions
    BY DEF MigrationInv, MigrationTypeOK
  <2> QED BY <1>2, <2>1, MigrationAssumption
<1>4. ASSUME NEW e \in History PROVE e.version < n
  <2>1. e.version \in Nat
    <3>1. PICK i \in DOMAIN applied : e = applied[i]
      BY DEF History
    <3>2. applied \in Seq(Entries)
      BY DEF MigrationInv, MigrationTypeOK, Entries
    <3>3. e \in Entries
      BY <3>1, <3>2, ElementOfSeq
    <3> QED BY <3>3, MigrationAssumption DEF Entries
  <2>2. ~(n < e.version)
    BY <1>2 DEF MigrationInv, NoGaps
  <2> QED BY <1>2, <1>3, <2>1, <2>2
<1>5. ASSUME NEW s \in Runners, NEW v \in DOMAIN directory[s], v < n
      PROVE  \E f \in History : f.version = v
  <2>1. PICK d \in Directories, e \in Directories :
          DOMAIN directory[s] = DOMAIN d /\ DOMAIN directory[r] = DOMAIN e
    BY DEF MigrationInv
  <2>2. v \in DOMAIN directory[r]
    BY <1>2, <1>5, <2>1, ReleasesGrow
  <2>3. v \notin runner[r].left
    BY <1>2, <1>3, <1>5
  <2>4. \E f \in History : f.version = v /\ f.checksum = runner[r].plan[v]
    BY <1>1, <1>2, <2>2, <2>3 DEF RunFits, RunnerAt
  <2> QED BY <2>4
<1> QED BY <1>4, <1>5

\* A run records its migration, and goes on or fails.
LEMMA RunRecords ==
  ASSUME MigrationInv, NEW r \in Runners, RunnerAt(r, "apply"), Records(r),
         NEW run \in RunStates, Moves(r, run), run.runs = runner[r].runs, ~run.collided,
         \/ run.at = "failed"
         \/ /\ run.at = "read" /\ run.plan = runner[r].plan
            /\ run.left = runner[r].left \ {runner[r].version},
         lockedBy' \in Runners \cup {NoRunner}, breaks' \in 0..MaxBreaks,
         UNCHANGED <<directory, edited>>
  PROVE  MigrationInv'
<1> DEFINE n == runner[r].version
<1>1. PICK e \in Entries :
        /\ e.version = n /\ e.checksum = runner[r].plan[n] /\ e.executed = runner[r].sql
        /\ applied' = Append(applied, e) /\ applied' \in Seq(Entries)
        /\ DOMAIN applied = 1..Len(applied) /\ Len(applied) \in Nat
        /\ DOMAIN applied' = 1..(Len(applied) + 1)
        /\ \A i \in DOMAIN applied : applied'[i] = applied[i]
        /\ applied'[Len(applied) + 1] = e
        /\ History' = History \cup {e}
  BY Recording
<1>2. /\ \A f \in History : f.version < n
      /\ \A s \in Runners : \A v \in DOMAIN directory[s] :
           v < n => \E f \in History : f.version = v
  BY ComesLast
<1>3. \A s \in Runners : runner'[s] = IF s = r THEN run ELSE runner[s]
  BY DEF Moves, MigrationInv
<1>4. runner' \in [Runners -> RunStates]
  BY DEF Moves, MigrationInv
<1>5. MigrationTypeOK'
  BY <1>1, <1>3, RunIs DEF MigrationInv, MigrationTypeOK, Entries
<1>6. RunFits(r, runner[r]) /\ lockedBy = r
  BY RunIs DEF RunFits, RunnerAt
<1>7. ASSUME NEW s \in Runners PROVE RunFits(s, runner[s])'
  <2>1. CASE s = r
    <3>1. RunFits(r, run)'
      <4>1. CASE run.at = "failed"
        BY <4>1 DEF RunFits
      <4>2. CASE /\ run.at = "read" /\ run.plan = runner[r].plan
                 /\ run.left = runner[r].left \ {n}
        BY <1>1, <1>6, <4>2 DEF RunFits, RunnerAt
      <4> QED BY <4>1, <4>2
    <3>2. runner'[s] = run
      BY <1>3, <2>1
    <3> QED BY <2>1, <3>1, <3>2
  <2>2. CASE s # r
    <3>1. PICK other : other = runner[s] /\ other = runner'[s]
      BY <1>3, <2>2
    <3>2. RunFits(s, other)
      BY <3>1, RunIs
    <3>3. other.at \notin {"check", "apply"}
      BY <1>6, <2>2, <3>2 DEF RunFits
    <3>4. directory' = directory /\ edited' = edited
      OBVIOUS
    <3>5. RunFits(s, other)'
      BY ONLY <1>1, <3>2, <3>3, <3>4 DEF RunFits
    <3> QED BY <3>1, <3>5
  <2> QED BY <2>1, <2>2
<1>8. NobodyCollides'
  BY <1>3 DEF MigrationInv, NobodyCollides
<1>9. AppliedInOrder'
  <2> SUFFICES ASSUME NEW i \in DOMAIN applied', NEW j \in DOMAIN applied', i < j
               PROVE  applied'[i].version < applied'[j].version
    BY DEF AppliedInOrder
  <2>1. CASE j = Len(applied) + 1
    <3>1. i \in DOMAIN applied /\ applied[i] \in History
      BY <1>1, <2>1 DEF History
    <3> QED BY <1>1, <1>2, <2>1, <3>1
  <2>2. CASE j # Len(applied) + 1
    <3>1. i \in DOMAIN applied /\ j \in DOMAIN applied
      BY <1>1, <2>2
    <3> QED BY <1>1, <3>1 DEF MigrationInv, AppliedInOrder
  <2> QED BY <2>1, <2>2
<1>10. RecordedIsExecuted'
  BY <1>1, <1>6 DEF MigrationInv, RecordedIsExecuted, RunFits, RunnerAt
<1>11. NoGaps'
  BY <1>1, <1>2 DEF MigrationInv, NoGaps
<1> QED BY <1>4, <1>5, <1>7, <1>8, <1>9, <1>10, <1>11 DEF MigrationInv

LEMMA Applies ==
  ASSUME MigrationInv, NEW r \in Runners, ApplyMigration(r)
  PROVE  MigrationInv'
<1>1. /\ RunnerAt(r, "apply") /\ Recorded(runner[r].version) = {}
      /\ Records(r) /\ Advance(r) /\ UNCHANGED <<directory, edited, breaks>>
  <2>1. RunFits(r, runner[r]) /\ RunnerAt(r, "apply")
    BY RunIs DEF ApplyMigration
  <2>2. Recorded(runner[r].version) = {}
    BY <2>1 DEF RunFits, RunnerAt, Recorded
  <2> QED BY <2>1, <2>2 DEF ApplyMigration
<1>2. /\ \E run \in RunStates :
           /\ Moves(r, run) /\ run.at = "read" /\ run.runs = runner[r].runs
           /\ run.plan = runner[r].plan /\ run.left = runner[r].left \ {runner[r].version}
           /\ run.collided = runner[r].collided
      /\ lockedBy' \in Runners \cup {NoRunner}
  BY <1>1, Advances DEF RunnerAt
<1> QED BY <1>1, <1>2, RunIs, RunRecords

LEMMA Interrupts ==
  ASSUME MigrationInv, NEW r \in Runners, Breaks(r)
  PROVE  MigrationInv'
<1>0. breaks' \in 0..MaxBreaks
  BY RunIs, MigrationBounds DEF Breaks
<1>1. CASE UNCHANGED applied
  BY <1>0, <1>1, RunFails DEF Breaks
<1>2. CASE RunnerAt(r, "apply") /\ Records(r)
  <2>1. PICK run \in RunStates :
          Moves(r, run) /\ run.at = "failed" /\ run.runs = runner[r].runs /\ ~run.collided
    <3> DEFINE ended == [runner[r] EXCEPT !.at = "failed", !.collided = FALSE]
    <3>1. ended \in RunStates /\ ended.at = "failed" /\ ended.runs = runner[r].runs /\ ~ended.collided
      BY RunIs DEF RunStates, Ended
    <3>2. Moves(r, ended)
      BY DEF Breaks, Fails
    <3> HIDE DEF ended
    <3> QED BY <3>1, <3>2
  <2>2. lockedBy' \in Runners \cup {NoRunner}
    BY RunIs DEF Breaks, Unlocks
  <2> QED BY <1>0, <1>2, <2>1, <2>2, RunRecords DEF Breaks
<1> QED BY <1>1, <1>2 DEF Breaks

\* A file that is replaced keeps its version.
LEMMA Edits ==
  ASSUME MigrationInv, NEW r \in Runners, FileChanges(r)
  PROVE  MigrationInv'
<1>1. PICK v \in DOMAIN directory[r], c \in Contents :
        /\ directory' = [directory EXCEPT ![r][v] = c] /\ edited' = edited \cup {v}
        /\ UNCHANGED <<applied, lockedBy, runner, breaks>>
  BY DEF FileChanges
<1>2. directory \in [Runners -> Plans]
  BY DEF MigrationInv, MigrationTypeOK, Plans
<1>3. directory[r] \in Plans /\ v \in Versions
  BY <1>2 DEF Plans
<1>4. [directory[r] EXCEPT ![v] = c] \in Plans
  BY <1>3 DEF Plans
<1>5. directory' = [directory EXCEPT ![r] = [directory[r] EXCEPT ![v] = c]]
  BY <1>1
<1>6. directory' \in [Runners -> Plans]
  BY <1>2, <1>4, <1>5
<1>7. /\ \A s \in Runners : DOMAIN directory'[s] = DOMAIN directory[s]
      /\ \A s \in Runners : \A w \in DOMAIN directory[s] :
           w # v => directory'[s][w] = directory[s][w]
  BY <1>2, <1>3, <1>5 DEF Plans
<1>8. MigrationTypeOK'
  BY <1>1, <1>3, <1>6 DEF MigrationInv, MigrationTypeOK, Plans
<1>9. History' = History
  BY <1>1 DEF History
<1>10. ASSUME NEW s \in Runners PROVE RunFits(s, runner[s])'
  <2>1. PICK run : run = runner[s] /\ run = runner'[s]
    BY <1>1
  <2>2. RunFits(s, run)
    BY <2>1, RunIs
  <2>3. lockedBy' = lockedBy /\ edited \subseteq edited' /\ v \in edited'
    BY <1>1
  <2>4. RunFits(s, run)'
    BY ONLY <1>7, <1>9, <2>2, <2>3 DEF RunFits
  <2> QED BY <2>1, <2>4
<1>11. \A s \in Runners : \E d \in Directories : DOMAIN directory'[s] = DOMAIN d
  BY <1>7 DEF MigrationInv
<1>12. NobodyCollides' /\ AppliedInOrder' /\ RecordedIsExecuted' /\ NoGaps'
  BY <1>1, <1>7, <1>9 DEF MigrationInv, NobodyCollides, AppliedInOrder, RecordedIsExecuted, NoGaps
<1> QED BY <1>1, <1>8, <1>10, <1>11, <1>12 DEF MigrationInv

LEMMA MigrationAlways == MigrationSpec => []MigrationInv
<1>1. MigrationInit => MigrationInv
  BY MigrationStarts
<1>2. MigrationInv /\ [MigrationNext]_migrationVars => MigrationInv'
  <2> SUFFICES ASSUME MigrationInv, [MigrationNext]_migrationVars PROVE MigrationInv'
    OBVIOUS
  <2>1. CASE UNCHANGED migrationVars
    BY <2>1 DEF migrationVars, MigrationInv, MigrationTypeOK, RunFits, History, NobodyCollides,
                AppliedInOrder, RecordedIsExecuted, NoGaps
  <2> QED BY <2>1, Discovers, CreatesTable, ReadsFile, Locks, Checks, Applies, Interrupts, Edits
          DEF MigrationNext
<1> QED BY <1>1, <1>2, PTL DEF MigrationSpec

\* The schema grows in the order of versions, no run fails because of another one,
\* and a server that has started finds the migrations of its release, for any
\* number of servers, releases that add at their end, crashes and lost commits.
THEOREM MigrationsCorrect == MigrationSpec => []MigrationInvariant
<1>1. MigrationInv => MigrationInvariant
  <2>1. MigrationInv => StartedMeansCurrent
    <3> SUFFICES ASSUME MigrationInv, NEW r \in Runners, RunnerAt(r, "current"),
                        NEW v \in DOMAIN runner[r].plan
                 PROVE  \E e \in Recorded(v) : e.checksum = runner[r].plan[v]
      BY DEF StartedMeansCurrent
    <3> QED BY RunIs DEF RunFits, RunnerAt, Recorded
  <2> QED BY <2>1 DEF MigrationInv, MigrationInvariant
<1> QED BY <1>1, MigrationAlways, PTL

-----------------------------------------------------------------------------
(* Migrations: the promise to those who deploy. *)

\* What a move of one run changes of the states of the servers.
LEMMA StatusMoves ==
  ASSUME MigrationInv, NEW r \in Runners, NEW run \in RunStates, Moves(r, run)
  PROVE  /\ [s \in Runners |-> ServerStatus(runner'[s].at)] =
              [[s \in Runners |-> ServerStatus(runner[s].at)] EXCEPT ![r] = ServerStatus(run.at)]
         /\ [s \in Runners |-> runner'[s].plan] =
              [[s \in Runners |-> runner[s].plan] EXCEPT ![r] = run.plan]
<1>1. \A s \in Runners : runner'[s] = IF s = r THEN run ELSE runner[s]
  BY DEF Moves, MigrationInv
<1> QED BY <1>1

LEMMA StatusStays ==
  ASSUME MigrationInv, NEW r \in Runners, NEW run \in RunStates, Moves(r, run),
         ServerStatus(run.at) = ServerStatus(runner[r].at), run.plan = runner[r].plan
  PROVE  /\ [s \in Runners |-> ServerStatus(runner'[s].at)] =
              [s \in Runners |-> ServerStatus(runner[s].at)]
         /\ [s \in Runners |-> runner'[s].plan] = [s \in Runners |-> runner[s].plan]
<1>1. \A s \in Runners : runner'[s] = IF s = r THEN run ELSE runner[s]
  BY DEF Moves, MigrationInv
<1> QED BY <1>1

LEMMA StatusBecomes ==
  ASSUME MigrationInv, NEW r \in Runners, NEW run \in RunStates, Moves(r, run),
         ServerStatus(runner[r].at) = "starting"
  PROVE  Upgrade!Becomes(r, ServerStatus(run.at))
<1> DEFINE before == [s \in Runners |-> ServerStatus(runner[s].at)]
           after == [s \in Runners |-> ServerStatus(runner'[s].at)]
<1>1. before[r] = "starting"
  OBVIOUS
<1>2. after = [before EXCEPT ![r] = ServerStatus(run.at)]
  BY StatusMoves
<1> QED BY <1>1, <1>2 DEF Upgrade!Becomes

\* Both modules mean the same by what a schema has.
LEMMA WhatSchemaHas ==
  ASSUME NEW r \in Runners, NEW v
  PROVE  /\ Upgrade!Has(r, v) <=>
              \E e \in History : e.version = v /\ e.checksum = runner[r].plan[v]
         /\ Upgrade!HasAllBefore(r, v) <=>
              \A w \in DOMAIN runner[r].plan : w < v =>
                \E e \in History : e.version = w /\ e.checksum = runner[r].plan[w]
BY DEF Upgrade!Has, Upgrade!HasAllBefore

\* A run is at the first migration of its release that it has not seen recorded.
LEMMA AllBefore ==
  ASSUME MigrationInv, NEW r \in Runners, runner[r].at \in {"begin", "check", "apply"}
  PROVE  runner[r].version \in DOMAIN runner[r].plan /\ Upgrade!HasAllBefore(r, runner[r].version)
<1>1. RunFits(r, runner[r]) /\ runner[r].plan \in Plans
  BY RunIs DEF RunFits
<1>2. /\ runner[r].version \in runner[r].left /\ runner[r].left \subseteq DOMAIN runner[r].plan
      /\ \A w \in runner[r].left : runner[r].version <= w
      /\ \A w \in DOMAIN runner[r].plan \ runner[r].left :
           \E e \in History : e.version = w /\ e.checksum = runner[r].plan[w]
  BY <1>1 DEF RunFits
<1>3. \A w \in DOMAIN runner[r].plan : w \in Nat
  BY <1>1, MigrationAssumption DEF Plans
<1>4. \A w \in DOMAIN runner[r].plan : w < runner[r].version => w \notin runner[r].left
  BY <1>2, <1>3
<1> QED BY <1>2, <1>4, WhatSchemaHas

\* What the lock, the check and the primary key are for: a file is executed once,
\* behind all those before it.
LEMMA ExecutesNext ==
  ASSUME MigrationInv, NEW r \in Runners, RunnerAt(r, "apply"), Records(r)
  PROVE  Upgrade!Executes(r)
<1> DEFINE v == runner[r].version
           newest == [version |-> v, executed |-> runner[r].sql, checksum |-> runner[r].plan[v]]
<1>1. v \in DOMAIN runner[r].plan /\ Upgrade!HasAllBefore(r, v)
  BY AllBefore DEF RunnerAt
<1>2. \A e \in History : e.version < v
  BY ComesLast
<1>3. runner[r].sql \in Contents /\ (v \notin edited => runner[r].sql = runner[r].plan[v])
  BY RunIs DEF RunFits, RunnerAt
<1>4. History' = History \cup {newest}
  <2>1. PICK e \in Entries :
          /\ e.version = v /\ e.checksum = runner[r].plan[v] /\ e.executed = runner[r].sql
          /\ History' = History \cup {e}
    BY Recording
  <2>2. e = newest
    BY <2>1 DEF Entries
  <2> QED BY <2>1, <2>2
<1> HIDE DEF newest
<1>5. newest = [version |-> v, executed |-> runner[r].sql,
               checksum |-> [s \in Runners |-> runner[s].plan][r][v]]
  BY DEF newest
<1> QED BY <1>1, <1>2, <1>3, <1>4, <1>5 DEF Upgrade!Executes

LEMMA InitUpgrade == ASSUME MigrationInit PROVE Upgrade!Init
<1>1. \A r \in Runners : runner[r].plan = <<>> /\ ServerStatus(runner[r].at) = "down"
  BY DEF MigrationInit, NotStarted, ServerStatus
<1>2. History = {}
  BY EmptySeq DEF MigrationInit, History
<1> QED BY <1>1, <1>2 DEF MigrationInit, Upgrade!Init

LEMMA StartsUpgrade ==
  ASSUME MigrationInv, NEW r \in Runners, discover(r)
  PROVE  Upgrade!Start(r)
<1>1. directory[r] \in Plans
  BY DEF MigrationInv, MigrationTypeOK, Plans
<1>2. PICK run \in RunStates :
        Moves(r, run) /\ ServerStatus(run.at) = "starting" /\ run.plan = directory[r]
  <2> DEFINE started == [NotStarted EXCEPT !.at = "create", !.runs = runner[r].runs + 1,
                                    !.plan = directory[r], !.left = DOMAIN directory[r]]
  <2>1. started \in RunStates /\ started.at = "create" /\ started.plan = directory[r]
    <3>1. runner[r].runs + 1 \in Nat
      BY RunIs DEF RunStates
    <3>2. NotStarted \in RunStates
      BY DEF NotStarted, RunStates, Ended
    <3>3. DOMAIN directory[r] \in SUBSET Versions
      BY <1>1 DEF Plans
    <3> QED BY <1>1, <3>1, <3>2, <3>3 DEF RunStates
  <2>2. Moves(r, started)
    BY DEF discover
  <2> HIDE DEF started
  <2> QED BY <2>1, <2>2 DEF ServerStatus
<1>3. /\ runner[r].at \in {"down", "failed"} /\ ServerStatus(runner[r].at) \in {"down", "failed"}
      /\ directory' = directory /\ History' = History /\ edited' = edited /\ breaks' = breaks
  BY DEF discover, ServerStatus, History
<1> DEFINE before == [s \in Runners |-> ServerStatus(runner[s].at)]
           plans == [s \in Runners |-> runner[s].plan]
<1>4. before[r] \in {"down", "failed"}
  BY <1>3
<1>5. /\ [s \in Runners |-> ServerStatus(runner'[s].at)] = [before EXCEPT ![r] = "starting"]
      /\ [s \in Runners |-> runner'[s].plan] = [plans EXCEPT ![r] = directory[r]]
  <2>1. Moves(r, run)
    BY <1>2
  <2>2. /\ [s \in Runners |-> ServerStatus(runner'[s].at)]
             = [before EXCEPT ![r] = ServerStatus(run.at)]
        /\ [s \in Runners |-> runner'[s].plan] = [plans EXCEPT ![r] = run.plan]
    BY <2>1, StatusMoves
  <2>3. ServerStatus(run.at) = "starting" /\ run.plan = directory[r]
    BY <1>2
  <2> HIDE DEF before, plans
  <2> QED BY <2>2, <2>3
<1> QED BY <1>3, <1>4, <1>5 DEF Upgrade!Start

\* Steps between two migrations: the table, the lock, the reading of a file, and the
\* check that finds a migration applied.
LEMMA UnnoticedMoves ==
  ASSUME MigrationInv, NEW r \in Runners,
         \/ CreateTable(r) \/ readFile(r) \/ Lock(r)
         \/ /\ CheckApplied(r)
            /\ runner'[r].at # "failed"
  PROVE  UNCHANGED Upgrade!vars
<1>1. History' = History /\ directory' = directory /\ edited' = edited /\ breaks' = breaks
  BY DEF CreateTable, readFile, Lock, CheckApplied, History
<1>2. PICK run \in RunStates :
        /\ Moves(r, run) /\ run.plan = runner[r].plan
        /\ ServerStatus(run.at) = ServerStatus(runner[r].at)
  <2>1. CASE CreateTable(r) \/ Lock(r)
    <3>1. PICK at \in {"read", "check"} :
            runner[r].at \in {"create", "begin"} /\ Moves(r, [runner[r] EXCEPT !.at = at])
      BY <2>1 DEF CreateTable, Lock, RunnerAt
    <3>2. at \in {"read", "check", "apply", "current"}
      BY <3>1
    <3>3. PICK run \in RunStates : Moves(r, run) /\ run.plan = runner[r].plan /\ run.at = at
      BY <3>1, <3>2, RunGoesOn
    <3> QED BY <3>1, <3>3 DEF ServerStatus
  <2>2. CASE readFile(r)
    <3>1. PICK v \in runner[r].left :
            Moves(r, [runner[r] EXCEPT !.at = "begin", !.version = v, !.sql = directory[r][v]])
      BY <2>2 DEF readFile
    <3> DEFINE run == [runner[r] EXCEPT !.at = "begin", !.version = v, !.sql = directory[r][v]]
    <3>2. RunnerAt(r, "read") /\ RunFits(r, runner[r]) /\ runner[r] \in RunStates
      BY <2>2, RunIs DEF readFile
    <3>3. v \in Nat /\ directory[r][v] \in Contents
      <4>1. v \in DOMAIN directory[r] /\ directory[r] \in Plans
        BY <3>1, <3>2 DEF RunFits, RunnerAt, MigrationInv, MigrationTypeOK, Plans
      <4> QED BY <4>1, MigrationAssumption DEF Plans
    <3>4. run \in RunStates /\ run.plan = runner[r].plan /\ run.at = "begin"
      BY <3>2, <3>3 DEF RunStates
    <3>5. Moves(r, run)
      BY <3>1
    <3> HIDE DEF run
    <3> QED BY <3>2, <3>4, <3>5 DEF ServerStatus, RunnerAt
  <2>3. CASE CheckApplied(r) /\ runner'[r].at # "failed"
    <3>1. CASE Moves(r, [runner[r] EXCEPT !.at = "apply"])
      <4>1. PICK run \in RunStates : Moves(r, run) /\ run.plan = runner[r].plan /\ run.at = "apply"
        BY <3>1, RunGoesOn
      <4> QED BY <2>3, <4>1 DEF ServerStatus, CheckApplied, RunnerAt
    <3>2. CASE Advance(r)
      <4>1. runner[r].at = "check"
        BY <2>3 DEF CheckApplied, RunnerAt
      <4>2. PICK run \in RunStates : Moves(r, run) /\ run.plan = runner[r].plan /\ run.at = "read"
        BY <3>2, <4>1, Advances
      <4> QED BY <4>1, <4>2 DEF ServerStatus
    <3>3. ~Fails(r, FALSE)
      <4>1. runner \in [Runners -> RunStates]
        BY DEF MigrationInv
      <4>2. Fails(r, FALSE) => runner'[r].at = "failed"
        BY <4>1, RunIs DEF Fails, Moves, RunStates
      <4> QED BY <2>3, <4>2
    <3> QED BY <2>3, <3>1, <3>2, <3>3 DEF CheckApplied
  <2> QED BY <2>1, <2>2, <2>3
<1> QED BY <1>1, <1>2, StatusStays DEF Upgrade!vars

LEMMA RunsUpgrade ==
  ASSUME MigrationInv, NEW r \in Runners, AllApplied(r)
  PROVE  Upgrade!Run(r)
<1>1. runner[r].at = "read" /\ runner[r].left = {} /\ Moves(r, [runner[r] EXCEPT !.at = "current"])
  BY DEF AllApplied, RunnerAt
<1>2. PICK run \in RunStates : Moves(r, run) /\ run.plan = runner[r].plan /\ run.at = "current"
  BY <1>1, RunGoesOn
<1>3. ServerStatus(runner[r].at) = "starting" /\ ServerStatus(run.at) = "running"
  BY <1>1, <1>2 DEF ServerStatus
<1>4. \A v \in DOMAIN runner[r].plan : Upgrade!Has(r, v)
  BY <1>1, RunIs, WhatSchemaHas DEF RunFits
<1>5. History' = History /\ directory' = directory /\ edited' = edited /\ breaks' = breaks
  BY DEF AllApplied, History
<1>6. [s \in Runners |-> runner'[s].plan] = [s \in Runners |-> runner[s].plan]
  <2>1. \A s \in Runners : runner'[s].plan = runner[s].plan
    BY <1>2 DEF Moves, MigrationInv
  <2> QED BY <2>1
<1>7. Upgrade!Becomes(r, "running")
  BY <1>2, <1>3, StatusBecomes
<1> QED BY <1>4, <1>5, <1>6, <1>7 DEF Upgrade!Run

\* A run that fails while it starts.
LEMMA FailsUpgrade ==
  ASSUME MigrationInv, NEW r \in Runners, Fails(r, FALSE), runner[r].at \notin Ended
  PROVE  Upgrade!Becomes(r, "failed")
         /\ [s \in Runners |-> runner'[s].plan] = [s \in Runners |-> runner[s].plan]
<1> DEFINE run == [runner[r] EXCEPT !.at = "failed", !.collided = FALSE]
<1>1. run \in RunStates /\ run.at = "failed" /\ run.plan = runner[r].plan
  BY RunIs DEF RunStates, Ended
<1>2. Moves(r, run)
  BY DEF Fails
<1> HIDE DEF run
<1>3. \A s \in Runners : runner'[s].plan = runner[s].plan
  BY <1>1, <1>2 DEF Moves, MigrationInv
<1>4. ServerStatus(runner[r].at) = "starting" /\ ServerStatus(run.at) = "failed"
  BY <1>1 DEF ServerStatus, Ended
<1>5. [s \in Runners |-> runner'[s].plan] = [s \in Runners |-> runner[s].plan]
  BY <1>3
<1> QED BY <1>1, <1>2, <1>4, <1>5, StatusBecomes

LEMMA RefusesUpgrade ==
  ASSUME MigrationInv, NEW r \in Runners, CheckApplied(r), runner'[r].at = "failed"
  PROVE  Upgrade!Refuse(r)
<1>1. runner[r].at = "check" /\ runner \in [Runners -> RunStates]
  BY DEF CheckApplied, RunnerAt, MigrationInv
<1>2. History' = History /\ directory' = directory /\ edited' = edited /\ breaks' = breaks
  BY DEF CheckApplied, History
<1>3. /\ \E e \in History : e.version = runner[r].version
           /\ e.checksum # runner[r].plan[runner[r].version]
      /\ Fails(r, FALSE)
  <2>1. ~Moves(r, [runner[r] EXCEPT !.at = "apply"])
    BY <1>1, RunIs DEF Moves, RunStates
  <2>2. ~Advance(r)
    BY <1>1, RunIs DEF Advance, Moves, RunStates
  <2> QED BY <2>1, <2>2 DEF CheckApplied, Recorded
<1>4. runner[r].version \in DOMAIN runner[r].plan /\ Upgrade!HasAllBefore(r, runner[r].version)
  BY <1>1, AllBefore
<1>5. Upgrade!Becomes(r, "failed") /\ [s \in Runners |-> runner'[s].plan] = [s \in Runners |-> runner[s].plan]
  BY <1>1, <1>3, FailsUpgrade DEF Ended
<1> QED BY <1>2, <1>3, <1>4, <1>5 DEF Upgrade!Refuse

LEMMA MigratesUpgrade ==
  ASSUME MigrationInv, NEW r \in Runners, ApplyMigration(r)
  PROVE  Upgrade!Migrate(r)
<1>1. RunFits(r, runner[r]) /\ RunnerAt(r, "apply")
  BY RunIs DEF ApplyMigration
<1>2. Recorded(runner[r].version) = {}
  BY <1>1 DEF RunFits, RunnerAt, Recorded
<1>3. Records(r) /\ Advance(r) /\ UNCHANGED <<directory, edited, breaks>>
  BY <1>2 DEF ApplyMigration
<1>4. PICK run \in RunStates : Moves(r, run) /\ run.plan = runner[r].plan /\ run.at = "read"
  BY <1>1, <1>3, Advances DEF RunnerAt
<1>5. ServerStatus(runner[r].at) = "starting" /\ ServerStatus(run.at) = "starting"
  BY <1>1, <1>4 DEF ServerStatus, RunnerAt
<1>6. Upgrade!Executes(r)
  BY <1>1, <1>3, ExecutesNext
<1> QED BY <1>3, <1>4, <1>5, <1>6, StatusStays DEF Upgrade!Migrate

LEMMA CrashesUpgrade ==
  ASSUME MigrationInv, NEW r \in Runners, Breaks(r)
  PROVE  Upgrade!Crash(r)
<1>1. /\ runner[r].at \notin Ended /\ Fails(r, FALSE) /\ breaks' = breaks + 1
      /\ directory' = directory /\ edited' = edited
  BY DEF Breaks
<1>2. Upgrade!Executes(r) \/ History' = History
  <2>1. CASE UNCHANGED applied
    BY <2>1 DEF History
  <2>2. CASE RunnerAt(r, "apply") /\ Records(r)
    BY <2>2, ExecutesNext
  <2> QED BY <2>1, <2>2 DEF Breaks
<1> QED BY <1>1, <1>2, FailsUpgrade DEF Upgrade!Crash

LEMMA ReplacesUpgrade ==
  ASSUME NEW r \in Runners, FileChanges(r)
  PROVE  Upgrade!Replace(r)
<1>1. History' = History
  BY DEF FileChanges, History
<1> QED BY <1>1 DEF FileChanges, Upgrade!Replace

LEMMA NextUpgrade ==
  ASSUME MigrationInv, [MigrationNext]_migrationVars
  PROVE  [Upgrade!Next]_Upgrade!vars
<1>1. CASE UNCHANGED migrationVars
  BY <1>1 DEF migrationVars, Upgrade!vars, History
<1>2. ASSUME NEW r \in Runners, CheckApplied(r)
      PROVE  Upgrade!Refuse(r) \/ UNCHANGED Upgrade!vars
  BY <1>2, RefusesUpgrade, UnnoticedMoves
<1>3. CASE MigrationNext
  <2>1. PICK r \in Runners :
          \/ discover(r) \/ CreateTable(r) \/ readFile(r) \/ AllApplied(r)
          \/ Lock(r) \/ CheckApplied(r) \/ ApplyMigration(r)
          \/ Breaks(r) \/ FileChanges(r)
    BY <1>3 DEF MigrationNext
  <2>2. \/ Upgrade!Start(r) \/ Upgrade!Migrate(r) \/ Upgrade!Run(r) \/ Upgrade!Refuse(r)
        \/ Upgrade!Crash(r) \/ Upgrade!Replace(r) \/ UNCHANGED Upgrade!vars
    BY <1>2, <2>1, StartsUpgrade, UnnoticedMoves, RunsUpgrade, MigratesUpgrade, CrashesUpgrade,
       ReplacesUpgrade
  <2> QED BY <2>2 DEF Upgrade!Next
<1> QED BY <1>1, <1>3

\* However many servers start, fail and start again, in whichever releases: each
\* migration is executed once, behind all before it, a server runs with its release's
\* schema, and it fails to start only by a crash or by a conflict of contents; none
\* fails because another one migrates at the same time.
THEOREM UpgradeCorrect == MigrationSpec => ImplementsUpgrade
<1>1. MigrationInit => Upgrade!Init
  BY InitUpgrade
<1>2. MigrationInv /\ [MigrationNext]_migrationVars => [Upgrade!Next]_Upgrade!vars
  BY NextUpgrade
<1> QED BY <1>1, <1>2, MigrationAlways, PTL DEF MigrationSpec, ImplementsUpgrade, Upgrade!Spec

-----------------------------------------------------------------------------
(* RouteQuality.  For a key whose aggregations never overlapped or failed,   *)
(* one job at most holds counts, and unless a rating that is stored is still *)
(* to be counted, the counts of that job, or else the row, are complete.     *)

RaterStates ==
  [at: {"idle", "ok", "error"}] \cup [at: {"count"}, key: Keys]
  \cup [at: {"store"}, key: Keys, total: Nat]
AggregatorStates ==
  [at: {"idle", "next"}, left: SUBSET Keys]
  \cup [at: {"store"}, left: SUBSET Keys, key: Keys, total: Nat]

ToCount(k) == \E r \in Raters : rater[r].at = "count" /\ rater[r].key = k
CountsFit(k) ==
  /\ \A r, s \in Raters : Counts(rater[r], k) /\ Counts(rater[s], k) => r = s
  /\ \A r \in Raters : ~(Counts(rater[r], k) /\ Counts(aggregator, k))
  /\ ToCount(k)
     \/ /\ \A r \in Raters : Counts(rater[r], k) => rater[r].total = feedback[k]
        /\ Counts(aggregator, k) => aggregator.total = feedback[k]
        /\ CountedBySome(k) \/ quality[k] = feedback[k]

QualityInv ==
  /\ QualityTypeOK /\ NoneTwice
  /\ rater \in [Raters -> RaterStates] /\ aggregator \in AggregatorStates
  /\ \A r \in Raters : rater[r].at = "store" => rater[r].total <= feedback[rater[r].key]
  /\ aggregator.at = "store" => aggregator.total <= feedback[aggregator.key]
  /\ \A k \in Keys \ disturbed : CountsFit(k)

LEMMA QualityStarts == QualityInit => QualityInv
<1> SUFFICES ASSUME QualityInit PROVE QualityInv
  OBVIOUS
<1> USE DEF QualityInit
<1>1. QualityTypeOK /\ NoneTwice
  BY QualityBounds DEF QualityTypeOK, NoneTwice
<1>2. rater \in [Raters -> RaterStates] /\ aggregator \in AggregatorStates
  BY DEF RaterStates, AggregatorStates
<1>3. \A k \in Keys : CountsFit(k)
  BY DEF CountsFit, Counts
<1> QED BY <1>1, <1>2, <1>3 DEF QualityInv

\* The fields that a job has.
LEMMA JobFields ==
  ASSUME QualityInv
  PROVE  /\ \A r \in Raters :
              /\ rater[r].at \in {"count", "store"} => rater[r].key \in Keys
              /\ rater[r].at = "store" => rater[r].total \in Nat
                                          /\ rater[r].total <= feedback[rater[r].key]
         /\ aggregator.left \in SUBSET Keys
         /\ aggregator.at = "store" => /\ aggregator.key \in Keys /\ aggregator.total \in Nat
                                       /\ aggregator.total <= feedback[aggregator.key]
         /\ \A k \in Keys : feedback[k] \in Nat /\ quality[k] \in Nat
BY DEF QualityInv, QualityTypeOK, RaterStates, AggregatorStates

LEMMA InsertsRating ==
  ASSUME QualityInv, NEW r \in Raters, NEW k \in Keys, insertFeedback(r, k)
  PROVE  QualityInv'
<1> USE DEF insertFeedback, Inserts, Rater, Troubled, Disturbs
<1>1. PICK job \in {[at |-> "count", key |-> k], [at |-> "error"]} :
        /\ rater' = [rater EXCEPT ![r] = job] /\ troubles' \in 0..MaxTroubles
        /\ feedback' = feedback \/ feedback' = [feedback EXCEPT ![k] = @ + 1]
        /\ disturbed \subseteq disturbed' /\ disturbed' \subseteq Keys
        /\ feedback' = feedback \/ job.at = "count" \/ k \in disturbed'
        /\ job.at # "store" /\ job \in RaterStates /\ (job.at = "count" => job.key = k)
  BY QualityBounds DEF QualityInv, QualityTypeOK, RaterStates
<1>2. /\ \A s \in Raters : rater'[s] = IF s = r THEN job ELSE rater[s]
      /\ rater' \in [Raters -> RaterStates] /\ UNCHANGED <<quality, aggregator>>
  BY <1>1 DEF QualityInv
<1>3. \A j \in Keys : feedback'[j] \in Nat /\ feedback[j] <= feedback'[j]
                      /\ (j # k => feedback'[j] = feedback[j])
  BY <1>1, JobFields DEF QualityInv, QualityTypeOK
<1>4. QualityTypeOK' /\ NoneTwice'
  <2>1. feedback' \in [Keys -> Nat]
    BY <1>1, <1>3 DEF QualityInv, QualityTypeOK
  <2> QED BY <1>1, <1>2, <1>3, <2>1, JobFields DEF QualityInv, QualityTypeOK, NoneTwice
<1>5. /\ \A s \in Raters : rater'[s].at = "store" => rater'[s].total <= feedback'[rater'[s].key]
      /\ aggregator'.at = "store" => aggregator'.total <= feedback'[aggregator'.key]
  BY <1>1, <1>2, <1>3, JobFields
<1>6. ASSUME NEW j \in Keys \ disturbed' PROVE CountsFit(j)'
  <2>1. CountsFit(j) /\ rater[r].at = "idle"
    BY <1>1 DEF QualityInv
  <2>2. \A s \in Raters : Counts(rater[s], j)' <=> Counts(rater[s], j)
    BY <1>1, <1>2, <2>1 DEF Counts
  <2>3. Counts(aggregator, j)' <=> Counts(aggregator, j)
    BY <1>2 DEF Counts
  <2>4. CASE j = k /\ job.at = "count"
    <3>1. ToCount(j)'
      BY <1>1, <1>2, <2>4 DEF ToCount
    <3> QED BY <2>1, <2>2, <2>3, <3>1 DEF CountsFit
  <2>5. CASE j # k \/ job.at # "count"
    <3>1. feedback'[j] = feedback[j]
      BY <1>1, <1>3, <2>5
    <3>2. ToCount(j) => ToCount(j)'
      BY <1>2, <2>1 DEF ToCount
    <3>3. \A s \in Raters : Counts(rater[s], j) => rater'[s] = rater[s]
      BY <1>2, <2>1 DEF Counts
    <3> QED BY <1>2, <2>1, <2>2, <2>3, <3>1, <3>2, <3>3 DEF CountsFit, CountedBySome
  <2> QED BY <2>4, <2>5
<1> QED BY <1>2, <1>4, <1>5, <1>6 DEF QualityInv

\* A count that nobody else holds is complete.
LEMMA CountsKey ==
  ASSUME QualityInv, NEW r \in Raters, CountRatings(r)
  PROVE  QualityInv'
<1> DEFINE k == rater[r].key
<1> USE DEF CountRatings, Rater, Disturbs
<1>1. k \in Keys /\ feedback[k] \in Nat /\ rater[r].at = "count"
  BY JobFields
<1>2. /\ \A s \in Raters : s # r => rater'[s] = rater[s]
      /\ rater'[r].at = "store" /\ rater'[r].key = k /\ rater'[r].total = feedback[k]
      /\ rater' \in [Raters -> RaterStates] /\ UNCHANGED <<feedback, quality, aggregator, troubles>>
      /\ disturbed' = IF CountedBySome(k) THEN disturbed \cup {k} ELSE disturbed
  BY <1>1 DEF QualityInv, RaterStates
<1>3. QualityTypeOK' /\ NoneTwice'
  BY <1>1, <1>2 DEF QualityInv, QualityTypeOK, NoneTwice
<1>4. /\ \A s \in Raters : rater'[s].at = "store" => rater'[s].total <= feedback'[rater'[s].key]
      /\ aggregator'.at = "store" => aggregator'.total <= feedback'[aggregator'.key]
  BY <1>1, <1>2, JobFields
<1>5. ASSUME NEW j \in Keys \ disturbed' PROVE CountsFit(j)'
  <2>1. CountsFit(j)
    BY <1>2 DEF QualityInv
  <2>2. Counts(aggregator, j)' <=> Counts(aggregator, j)
    BY <1>2 DEF Counts
  <2>3. CASE j = k
    <3>1. \A s \in Raters : ~Counts(rater[s], j)
      BY <1>2, <2>3 DEF CountedBySome
    <3>2. ~Counts(aggregator, j)
      BY <1>2, <2>3 DEF CountedBySome
    <3>3. \A s \in Raters : Counts(rater[s], j)' <=> s = r
      BY <1>2, <2>3, <3>1 DEF Counts
    <3> QED BY <1>2, <2>2, <2>3, <3>2, <3>3 DEF CountsFit, CountedBySome
  <2>4. CASE j # k
    <3>1. \A s \in Raters : (Counts(rater[s], j)' <=> Counts(rater[s], j))
                            /\ (Counts(rater[s], j) => rater'[s] = rater[s])
      BY <1>1, <1>2, <2>4 DEF Counts
    <3>2. ToCount(j) => ToCount(j)'
      BY <1>2, <2>4 DEF ToCount
    <3> QED BY <1>2, <2>1, <2>2, <3>1, <3>2 DEF CountsFit, CountedBySome
  <2> QED BY <2>3, <2>4
<1> QED BY <1>2, <1>3, <1>4, <1>5 DEF QualityInv

\* A rater that stores its counts, or fails.
LEMMA StoresOrFails ==
  ASSUME QualityInv, NEW r \in Raters, StoreQuality(r) \/ AggregationFails(r)
  PROVE  QualityInv'
<1> DEFINE k == rater[r].key
<1> USE DEF StoreQuality, AggregationFails, Stores, Rater, Disturbs, Troubled
<1>1. k \in Keys /\ rater[r].at \in {"count", "store"}
  BY JobFields
<1>2. PICK job \in {[at |-> "ok"], [at |-> "error"]} :
        /\ rater' = [rater EXCEPT ![r] = job] /\ job \in RaterStates
        /\ job.at \notin {"store", "count"}
        /\ troubles' \in 0..MaxTroubles /\ UNCHANGED <<feedback, aggregator>>
        /\ disturbed \subseteq disturbed' /\ disturbed' \subseteq Keys
        /\ \/ quality' = quality
           \/ (rater[r].at = "store" /\ quality' = [quality EXCEPT ![k] = rater[r].total])
        /\ StoreQuality(r) \/ k \in disturbed'
  <2>1. /\ [at |-> "ok"] \in RaterStates /\ [at |-> "error"] \in RaterStates
        /\ disturbed \subseteq Keys /\ troubles \in 0..MaxTroubles
    BY DEF QualityInv, QualityTypeOK, RaterStates
  <2>2. CASE StoreQuality(r)
    BY <2>1, <2>2
  <2>3. CASE AggregationFails(r)
    <3>1. troubles' \in 0..MaxTroubles
      BY <2>1, <2>3, QualityBounds
    <3>2. disturbed' = disturbed \cup {k}
      BY <2>3
    <3> QED BY <1>1, <2>1, <2>3, <3>1, <3>2
  <2> QED BY <2>2, <2>3
<1>3. /\ \A s \in Raters : rater'[s] = IF s = r THEN job ELSE rater[s]
      /\ rater' \in [Raters -> RaterStates]
  BY <1>2 DEF QualityInv
<1>4. \A j \in Keys : quality'[j] \in Nat /\ quality'[j] <= feedback[j]
                      /\ (j # k => quality'[j] = quality[j])
  BY <1>1, <1>2, JobFields DEF QualityInv, QualityTypeOK, NoneTwice
<1>5. QualityTypeOK' /\ NoneTwice'
  <2>1. quality' \in [Keys -> Nat]
    BY <1>2, <1>4 DEF QualityInv, QualityTypeOK
  <2> QED BY <1>2, <1>4, <2>1 DEF QualityInv, QualityTypeOK, NoneTwice
<1>6. /\ \A s \in Raters : rater'[s].at = "store" => rater'[s].total <= feedback'[rater'[s].key]
      /\ aggregator'.at = "store" => aggregator'.total <= feedback'[aggregator'.key]
  BY <1>2, <1>3, JobFields
<1>7. ASSUME NEW j \in Keys \ disturbed' PROVE CountsFit(j)'
  <2>1. CountsFit(j)
    BY <1>2 DEF QualityInv
  <2>2. Counts(aggregator, j)' <=> Counts(aggregator, j)
    BY <1>2 DEF Counts
  <2>3. \A s \in Raters : (Counts(rater[s], j)' <=> s # r /\ Counts(rater[s], j))
                          /\ (s # r => rater'[s] = rater[s])
    BY <1>2, <1>3 DEF Counts
  <2>4. CASE j # k
    <3>1. ~Counts(rater[r], j) /\ quality'[j] = quality[j]
      BY <1>4, <2>4 DEF Counts
    <3>2. ToCount(j) => ToCount(j)'
      BY <1>3, <2>4 DEF ToCount
    <3> QED BY <1>2, <2>1, <2>2, <2>3, <3>1, <3>2 DEF CountsFit, CountedBySome
  <2>5. CASE j = k
    <3>1. StoreQuality(r) /\ rater[r].at = "store" /\ Counts(rater[r], j)
      BY <1>2, <2>5 DEF Counts
    <3>2. ToCount(j) => ToCount(j)'
      BY <1>3, <3>1 DEF ToCount
    <3>3. /\ \A s \in Raters : ~Counts(rater[s], j)'
          /\ ~Counts(aggregator, j)'
      BY <2>1, <2>2, <2>3, <3>1 DEF CountsFit
    <3>4. quality'[j] = rater[r].total
      BY <1>1, <2>5, <3>1 DEF QualityInv, QualityTypeOK
    <3> QED BY <1>2, <2>1, <3>1, <3>2, <3>3, <3>4 DEF CountsFit
  <2> QED BY <2>4, <2>5
<1> QED BY <1>2, <1>3, <1>5, <1>6, <1>7 DEF QualityInv

\* The aggregator counts a key, under the same condition.
LEMMA AggregatorCounts ==
  ASSUME QualityInv, CountKey
  PROVE  QualityInv'
<1>1. PICK k \in aggregator.left :
        /\ aggregator' = [at |-> "store", left |-> aggregator.left \ {k}, key |-> k,
                          total |-> feedback[k]]
        /\ disturbed' = IF CountedBySome(k) THEN disturbed \cup {k} ELSE disturbed
        /\ UNCHANGED <<feedback, quality, rater, troubles>> /\ aggregator.at = "next"
  BY DEF CountKey, Disturbs
<1>2. k \in Keys /\ feedback[k] \in Nat
  BY JobFields
<1>3. /\ aggregator' \in AggregatorStates /\ aggregator'.at = "store" /\ aggregator'.key = k
      /\ aggregator'.total = feedback[k]
  BY <1>1, <1>2, JobFields DEF AggregatorStates
<1>4. QualityTypeOK' /\ NoneTwice'
  BY <1>1, <1>2 DEF QualityInv, QualityTypeOK, NoneTwice
<1>5. ASSUME NEW j \in Keys \ disturbed' PROVE CountsFit(j)'
  <2>1. CountsFit(j)
    BY <1>1 DEF QualityInv
  <2>2. \A s \in Raters : Counts(rater[s], j)' <=> Counts(rater[s], j)
    BY <1>1 DEF Counts
  <2>3. ToCount(j)' <=> ToCount(j)
    BY <1>1 DEF ToCount
  <2>4. Counts(aggregator, j)' <=> j = k
    BY <1>3 DEF Counts
  <2>5. ~Counts(aggregator, j)
    BY <1>1 DEF Counts
  <2>6. CASE j = k
    <3>1. \A s \in Raters : ~Counts(rater[s], j)
      BY <1>1, <2>6 DEF CountedBySome
    <3> QED BY <1>1, <1>3, <2>2, <2>3, <2>4, <2>6, <3>1 DEF CountsFit, CountedBySome
  <2>7. CASE j # k
    BY <1>1, <2>1, <2>2, <2>3, <2>4, <2>5, <2>7 DEF CountsFit, CountedBySome
  <2> QED BY <2>6, <2>7
<1> QED BY <1>1, <1>2, <1>3, <1>4, <1>5 DEF QualityInv

\* Its other steps: it stores the counts, begins, pauses, or fails.
LEMMA AggregatorGoesOn ==
  ASSUME QualityInv, StoreKey \/ Pauses \/ listFeedbackKeys
  PROVE  QualityInv'
<1> DEFINE k == aggregator.key
<1> USE DEF StoreKey, Pauses, listFeedbackKeys, Stores, Disturbs, Troubled
<1>1. /\ aggregator' \in AggregatorStates /\ aggregator'.at # "store"
      /\ UNCHANGED <<feedback, rater>> /\ troubles' \in 0..MaxTroubles
      /\ disturbed \subseteq disturbed' /\ disturbed' \subseteq Keys
  BY JobFields, QualityBounds DEF QualityInv, QualityTypeOK, AggregatorStates
<1>2. \/ aggregator.at # "store" /\ quality' = quality
      \/ /\ aggregator.at = "store" /\ k \in Keys
         /\ quality' = [quality EXCEPT ![k] = aggregator.total]
      \/ aggregator.at = "store" /\ quality' = quality /\ k \in disturbed'
  BY JobFields
<1>3. \A j \in Keys : quality'[j] \in Nat /\ quality'[j] <= feedback[j]
  BY <1>2, JobFields DEF QualityInv, QualityTypeOK, NoneTwice
<1>4. QualityTypeOK' /\ NoneTwice'
  <2>1. quality' \in [Keys -> Nat]
    BY <1>2, <1>3 DEF QualityInv, QualityTypeOK
  <2> QED BY <1>1, <1>3, <2>1 DEF QualityInv, QualityTypeOK, NoneTwice
<1>5. ASSUME NEW j \in Keys \ disturbed' PROVE CountsFit(j)'
  <2>1. CountsFit(j)
    BY <1>1 DEF QualityInv
  <2>2. \A s \in Raters : Counts(rater[s], j)' <=> Counts(rater[s], j)
    BY <1>1 DEF Counts
  <2>3. (ToCount(j)' <=> ToCount(j)) /\ ~Counts(aggregator, j)'
    BY <1>1 DEF ToCount, Counts
  <2>4. CASE Counts(aggregator, j)
    <3>1. quality'[j] = aggregator.total
      BY <1>2, <2>4 DEF Counts, QualityInv, QualityTypeOK
    <3> QED BY <1>1, <2>1, <2>2, <2>3, <2>4, <3>1 DEF CountsFit
  <2>5. CASE ~Counts(aggregator, j)
    <3>1. quality'[j] = quality[j]
      BY <1>2, <2>5 DEF Counts, QualityInv, QualityTypeOK
    <3> QED BY <1>1, <2>1, <2>2, <2>3, <2>5, <3>1 DEF CountsFit, CountedBySome
  <2> QED BY <2>4, <2>5
<1> QED BY <1>1, <1>4, <1>5 DEF QualityInv

LEMMA QualityAlways == QualitySpec => []QualityInv
<1>1. QualityInit => QualityInv
  BY QualityStarts
<1>2. QualityInv /\ [QualityNext]_qualityVars => QualityInv'
  <2> SUFFICES ASSUME QualityInv, [QualityNext]_qualityVars PROVE QualityInv'
    OBVIOUS
  <2>1. CASE UNCHANGED qualityVars
    BY <2>1 DEF qualityVars, QualityInv, QualityTypeOK, NoneTwice, CountsFit, ToCount, Counts,
                CountedBySome
  <2> QED BY <2>1, InsertsRating, CountsKey, StoresOrFails, AggregatorCounts, AggregatorGoesOn
          DEF QualityNext, RaterStep, AggregatorStep
<1> QED BY <1>1, <1>2, PTL DEF QualitySpec

\* No rating counts twice, and between requests a weight counts all ratings of its
\* key, unless two aggregations of it overlapped or one failed, for any number of
\* keys, requests and failures.
THEOREM QualityCorrect == QualitySpec => []QualityInvariant
<1>1. QualityInv => QualityInvariant
  <2>1. QualityInv => RestingIsCurrent
    <3> SUFFICES ASSUME QualityInv, aggregator.at # "store",
                        \A r \in Raters : rater[r].at \notin {"count", "store"},
                        NEW k \in Keys \ disturbed
                 PROVE  quality[k] = feedback[k]
      BY DEF RestingIsCurrent
    <3>1. CountsFit(k) /\ ~ToCount(k) /\ ~CountedBySome(k)
      BY DEF QualityInv, ToCount, CountedBySome, Counts
    <3> QED BY <3>1 DEF CountsFit
  <2> QED BY <2>1 DEF QualityInv, QualityInvariant
<1> QED BY <1>1, QualityAlways, PTL

-----------------------------------------------------------------------------
(* The tasks of the A2A store.  The inductive invariant says what a task is  *)
(* at each point of the calls on it.                                         *)

\* createTask has the task for itself until it is stored, and it is listed once.
CallFits(c) ==
  /\ taskCall[c].at = "store" =>
       /\ store[taskCall[c].task] = NoTask
       /\ \A d \in TaskCallers \ {c} :
            taskCall[d].at # "idle" => taskCall[d].task # taskCall[c].task
  /\ taskCall[c].at \in {"track", "read", "write", "tell"} => store[taskCall[c].task] # NoTask
  /\ taskCall[c].at = "track" =>
       \A d \in TaskCallers \ {c} : taskCall[d].at = "track" => taskCall[d].task # taskCall[c].task

\* A change that no other overlaps is told as it was stored.
ChangesInTurn ==
  \A t \in Tasks \ raced :
    /\ \A c, d \in Changing(t) : c = d
    /\ \A c \in CallsAt("tell", t) : store[t].state = taskCall[c].to
    /\ CallsAt("tell", t) = {} /\ store[t].state \notin {"none", "Submitted"} =>
         told[t] = store[t].state

TasksInv == TasksTypeOK /\ HistoryKept /\ ChangesInTurn /\ \A c \in TaskCallers : CallFits(c)

LEMMA CallFields ==
  ASSUME TasksTypeOK, NEW c \in TaskCallers
  PROVE  /\ taskCall[c].at \in {"idle", "store", "track", "read", "write", "tell"}
         /\ taskCall[c] = NoTaskCall <=> taskCall[c].at = "idle"
         /\ taskCall[c].at # "idle" => taskCall[c].task \in Tasks
         /\ taskCall[c].at \in {"read", "write", "tell"} => taskCall[c].to \in TaskStateNames
BY DEF TasksTypeOK, TaskCallStates, NoTaskCall

LEMMA TaskFields ==
  ASSUME TasksTypeOK, NEW t \in Tasks
  PROVE  /\ store[t] = NoTask <=> store[t].state = "none"
         /\ store[t].state \in TaskStateNames \cup {"none"} /\ store[t].history \in 0..MaxAdded
         /\ store[t] = NoTask => store[t].history = 0
BY TaskBounds DEF TasksTypeOK, Stored, NoTask, TaskStateNames, Terminal

\* A call that goes on to its next point.
LEMMA CallMoves ==
  ASSUME TasksTypeOK, NEW c \in TaskCallers, NEW at, CallTo(c, at),
         \/ CallAt(c, "store") /\ at = "track"
         \/ taskCall[c].at \in {"read", "write"} /\ at \in {"write", "tell"}
  PROVE  /\ taskCall' \in [TaskCallers -> TaskCallStates]
         /\ \A d \in TaskCallers \ {c} : taskCall'[d] = taskCall[d]
         /\ taskCall'[c].at = at /\ taskCall'[c].task = taskCall[c].task
         /\ ~CallAt(c, "store") => taskCall'[c].to = taskCall[c].to
<1>1. CASE CallAt(c, "store") /\ at = "track"
  <2>1. taskCall[c] \in [at: {"store", "track"}, task: Tasks]
    BY <1>1 DEF CallAt, TasksTypeOK, TaskCallStates, NoTaskCall
  <2>2. [taskCall[c] EXCEPT !.at = at] \in TaskCallStates
    BY <1>1, <2>1 DEF TaskCallStates
  <2> QED BY <1>1, <2>1, <2>2 DEF CallTo, TasksTypeOK
<1>2. CASE taskCall[c].at \in {"read", "write"} /\ at \in {"write", "tell"}
  <2>1. taskCall[c] \in [at: {"read", "write", "tell"}, task: Tasks, to: TaskStateNames,
                         seen: Stored, cancels: BOOLEAN]
    BY <1>2 DEF TasksTypeOK, TaskCallStates, NoTaskCall
  <2>2. [taskCall[c] EXCEPT !.at = at] \in TaskCallStates
    BY <1>2, <2>1 DEF TaskCallStates
  <2> QED BY <1>2, <2>1, <2>2 DEF CallTo, TasksTypeOK
<1> QED BY <1>1, <1>2

LEMMA CallReturns ==
  ASSUME TasksTypeOK, NEW c \in TaskCallers, CallEnds(c)
  PROVE  /\ taskCall' \in [TaskCallers -> TaskCallStates]
         /\ \A d \in TaskCallers \ {c} : taskCall'[d] = taskCall[d]
         /\ taskCall'[c] = NoTaskCall /\ taskCall'[c].at = "idle"
BY DEF CallEnds, TasksTypeOK, TaskCallStates, NoTaskCall

LEMMA NoTasksYet ==
  ASSUME TasksInit PROVE TasksInv
<1> USE DEF TasksInit
<1>1. TasksTypeOK
  BY TaskBounds DEF TasksTypeOK, Stored, NoTask, TaskCallStates
<1>2. \A c \in TaskCallers : taskCall[c].at = "idle"
  BY DEF NoTaskCall
<1>3. \A t \in Tasks : store[t].state = "none" /\ store[t].history = 0 /\ store[t] = NoTask
  BY DEF NoTask
<1>4. HistoryKept
  BY <1>3 DEF HistoryKept
<1>5. ChangesInTurn /\ \A c \in TaskCallers : CallFits(c)
  BY <1>2, <1>3 DEF CallFits, ChangesInTurn, Changing, CallsAt, CallAt
<1> QED BY <1>1, <1>4, <1>5 DEF TasksInv

LEMMA Creates ==
  ASSUME TasksInv, NEW c \in TaskCallers, NEW t \in Tasks, createTask(c, t)
  PROVE  TasksInv'
<1> DEFINE new == [at |-> "store", task |-> t]
<1> USE DEF createTask
<1>1. /\ TasksTypeOK /\ taskCall[c].at = "idle"
      /\ \A d \in TaskCallers : taskCall[d].at # "idle" => taskCall[d].task # t
  BY CallFields DEF TasksInv
<1>2. /\ \A d \in TaskCallers \ {c} : taskCall'[d] = taskCall[d]
      /\ taskCall'[c] = new /\ taskCall'[c].at = "store" /\ taskCall'[c].task = t
      /\ UNCHANGED <<store, tracked, added, told, raced>>
  BY <1>1 DEF TasksTypeOK
<1>3. TasksTypeOK'
  <2>1. new \in TaskCallStates
    BY DEF TaskCallStates
  <2>2. taskCall' \in [TaskCallers -> TaskCallStates]
    BY <1>1, <2>1 DEF TasksTypeOK
  <2> QED BY <1>1, <1>2, <2>2 DEF TasksTypeOK
<1>4. /\ \A s \in Tasks, at \in {"track", "tell"} : CallsAt(at, s)' = CallsAt(at, s)
      /\ \A s \in Tasks : Changing(s)' = Changing(s)
      /\ \A d \in TaskCallers : CallAt(d, "tell") => d # c
  BY <1>1, <1>2 DEF CallsAt, Changing, CallAt
<1>5. HistoryKept'
  BY <1>2, <1>4 DEF TasksInv, HistoryKept
<1>6. ASSUME NEW d \in TaskCallers PROVE CallFits(d)'
  <2>1. CASE d = c
    BY <1>1, <1>2, <2>1 DEF CallFits
  <2>2. CASE d # c
    <3>1. taskCall'[d] = taskCall[d] /\ CallFits(d)
      BY <1>2, <2>2 DEF TasksInv
    <3> QED BY <1>1, <1>2, <2>2, <3>1 DEF CallFits
  <2> QED BY <2>1, <2>2
<1>7. ChangesInTurn'
  BY <1>2, <1>4 DEF TasksInv, ChangesInTurn, CallsAt, CallAt
<1> QED BY <1>3, <1>5, <1>6, <1>7 DEF TasksInv

LEMMA StoresTask ==
  ASSUME TasksInv, NEW c \in TaskCallers, StoreTask(c)
  PROVE  TasksInv'
<1> USE DEF StoreTask
<1>1. PICK t \in Tasks :
        /\ TasksTypeOK /\ taskCall[c].at = "store" /\ t = taskCall[c].task /\ store[t] = NoTask
        /\ \A d \in TaskCallers \ {c} : taskCall[d].at # "idle" => taskCall[d].task # t
  BY CallFields DEF TasksInv, CallFits, CallAt
<1>2. /\ taskCall' \in [TaskCallers -> TaskCallStates]
      /\ \A d \in TaskCallers \ {c} : taskCall'[d] = taskCall[d]
      /\ taskCall'[c].at = "track" /\ taskCall'[c].task = t
  BY <1>1, CallMoves DEF CallAt
<1>3. PICK new \in Stored : /\ store' = [store EXCEPT ![t] = new] /\ new # NoTask
                            /\ new.state = "Submitted" /\ new.history = 0
  <2>1. [NoTask EXCEPT !.state = "Submitted"] = [state |-> "Submitted", history |-> 0]
    BY DEF NoTask
  <2>2. [state |-> "Submitted", history |-> 0] \in Stored
    BY TaskBounds DEF Stored, TaskStateNames
  <2>3. [state |-> "Submitted", history |-> 0] # NoTask
    BY DEF NoTask
  <2> QED BY <1>1, <2>1, <2>2, <2>3
<1>4. /\ \A s \in Tasks \ {t} : store'[s] = store[s]
      /\ store'[t] = new /\ UNCHANGED <<tracked, added, told, raced>>
  BY <1>1, <1>3 DEF TasksTypeOK
<1>5. TasksTypeOK'
  <2>1. store' \in [Tasks -> Stored]
    BY <1>1, <1>3 DEF TasksTypeOK
  <2> QED BY <1>1, <1>2, <1>4, <2>1 DEF TasksTypeOK
<1>6. /\ \A s \in Tasks \ {t} : CallsAt("track", s)' = CallsAt("track", s)
      /\ CallsAt("track", t)' = {c} /\ CallsAt("tell", t)' = {}
      /\ \A s \in Tasks : CallsAt("tell", s)' = CallsAt("tell", s) /\ Changing(s)' = Changing(s)
      /\ c \notin CallsAt("tell", t)
  BY <1>1, <1>2 DEF CallsAt, Changing, CallAt
<1>7. HistoryKept'
  <2>1. store[t].history = added[t] /\ added[t] = 0 /\ tracked[t] = 0
    BY <1>1, TaskFields DEF TasksInv, HistoryKept
  <2>2. store'[t].history = added'[t] /\ tracked'[t] = 0 /\ CallsAt("track", t)' # {}
    BY <1>3, <1>4, <1>6, <2>1
  <2>3. \A s \in Tasks \ {t} :
          /\ store'[s] = store[s] /\ added'[s] = added[s] /\ tracked'[s] = tracked[s]
          /\ CallsAt("track", s)' = CallsAt("track", s)
    BY <1>4, <1>6
  <2>4. \A s \in Tasks \ {t} :
          /\ store'[s].history = added'[s]
          /\ tracked'[s] = IF store'[s] = NoTask \/ CallsAt("track", s)' # {} THEN 0 ELSE 1
    BY <2>3 DEF TasksInv, HistoryKept
  <2> QED BY <2>2, <2>4 DEF HistoryKept
<1>8. ASSUME NEW d \in TaskCallers PROVE CallFits(d)'
  <2>1. CASE d = c
    BY <1>1, <1>2, <1>3, <1>4, <2>1 DEF CallFits
  <2>2. CASE d # c
    <3>1. /\ taskCall'[d] = taskCall[d] /\ CallFits(d)
          /\ taskCall[d].at # "idle" => taskCall[d].task \in Tasks \ {t}
      BY <1>1, <1>2, <2>2, CallFields DEF TasksInv
    <3> QED BY <1>1, <1>2, <1>4, <2>2, <3>1 DEF CallFits
  <2> QED BY <2>1, <2>2
<1>9. ChangesInTurn'
  <2>1. /\ CallsAt("tell", t) = {} /\ \A d \in Changing(t) : FALSE
        /\ \A s \in Tasks : \A d \in CallsAt("tell", s) : taskCall'[d] = taskCall[d]
    BY <1>1, <1>2 DEF CallsAt, CallAt, Changing
  <2>2. ASSUME NEW s \in Tasks \ raced
        PROVE  /\ \A d, e \in Changing(s) : d = e
               /\ \A d \in CallsAt("tell", s) : store'[s].state = taskCall'[d].to
               /\ CallsAt("tell", s) = {} /\ store'[s].state \notin {"none", "Submitted"} =>
                    told[s] = store'[s].state
    <3>1. CASE s = t
      BY <1>3, <1>4, <2>1, <3>1
    <3>2. CASE s # t
      BY <1>4, <2>1, <3>2 DEF TasksInv, ChangesInTurn
    <3> QED BY <3>1, <3>2
  <2> QED BY <1>4, <1>6, <2>2 DEF ChangesInTurn
<1> QED BY <1>5, <1>7, <1>8, <1>9 DEF TasksInv

LEMMA Lists ==
  ASSUME TasksInv, NEW c \in TaskCallers, trackContextTask(c)
  PROVE  TasksInv'
<1> USE DEF trackContextTask
<1>1. PICK t \in Tasks :
        /\ TasksTypeOK /\ taskCall[c].at = "track" /\ t = taskCall[c].task /\ store[t] # NoTask
        /\ \A d \in TaskCallers \ {c} : taskCall[d].at = "track" => taskCall[d].task # t
  BY CallFields DEF TasksInv, CallFits, CallAt
<1>2. /\ taskCall' \in [TaskCallers -> TaskCallStates]
      /\ \A d \in TaskCallers \ {c} : taskCall'[d] = taskCall[d]
      /\ taskCall'[c].at = "idle"
  BY <1>1, CallReturns
<1>3. c \in CallsAt("track", t)
  BY <1>1 DEF CallsAt, CallAt
<1>4. /\ \A s \in Tasks \ {t} : tracked'[s] = tracked[s]
      /\ tracked'[t] = 1 /\ tracked' \in [Tasks -> Nat]
      /\ UNCHANGED <<store, added, told, raced>>
  <2>1. tracked[t] = 0
    BY <1>1, <1>3 DEF TasksInv, HistoryKept
  <2> QED BY <1>1, <2>1 DEF TasksTypeOK
<1>5. TasksTypeOK'
  BY <1>1, <1>2, <1>4 DEF TasksTypeOK
<1>6. /\ \A s \in Tasks \ {t} : CallsAt("track", s)' = CallsAt("track", s)
      /\ CallsAt("track", t)' = {}
  <2>1. \A d \in TaskCallers, s \in Tasks \ {t} :
          taskCall'[d].at = "track" /\ taskCall'[d].task = s
            <=> taskCall[d].at = "track" /\ taskCall[d].task = s
    BY <1>1, <1>2
  <2>2. \A d \in TaskCallers : ~(taskCall'[d].at = "track" /\ taskCall'[d].task = t)
    BY <1>1, <1>2
  <2> QED BY <2>1, <2>2 DEF CallsAt, CallAt
<1>7. \A s \in Tasks : /\ CallsAt("tell", s)' = CallsAt("tell", s)
                       /\ Changing(s)' = Changing(s) /\ c \notin CallsAt("tell", s)
  BY <1>1, <1>2 DEF CallsAt, CallAt, Changing
<1>8. HistoryKept'
  <2>1. \A s \in Tasks \ {t} :
          /\ store'[s] = store[s] /\ added'[s] = added[s] /\ tracked'[s] = tracked[s]
          /\ CallsAt("track", s)' = CallsAt("track", s)
    BY <1>4, <1>6
  <2>2. store'[t] = store[t] /\ added'[t] = added[t] /\ store[t].history = added[t]
    BY <1>1, <1>4 DEF TasksInv, HistoryKept
  <2>3. \A s \in Tasks \ {t} :
          /\ store'[s].history = added'[s]
          /\ tracked'[s] = IF store'[s] = NoTask \/ CallsAt("track", s)' # {} THEN 0 ELSE 1
    BY <2>1 DEF TasksInv, HistoryKept
  <2> QED BY <1>1, <1>4, <1>6, <2>2, <2>3 DEF HistoryKept
<1>9. ASSUME NEW d \in TaskCallers PROVE CallFits(d)'
  <2>1. CASE d = c
    BY <1>2, <2>1 DEF CallFits
  <2>2. CASE d # c
    <3>1. taskCall'[d] = taskCall[d] /\ CallFits(d)
      BY <1>2, <2>2 DEF TasksInv
    <3> QED BY <1>2, <1>4, <2>2, <3>1 DEF CallFits
  <2> QED BY <2>1, <2>2
<1>10. ChangesInTurn'
  <2>1. \A s \in Tasks : \A d \in CallsAt("tell", s) : taskCall'[d] = taskCall[d]
    BY <1>2, <1>7 DEF CallsAt
  <2> QED BY <1>4, <1>7, <2>1 DEF TasksInv, ChangesInTurn
<1> QED BY <1>5, <1>8, <1>9, <1>10 DEF TasksInv

LEMMA Begins ==
  ASSUME TasksInv, NEW c \in TaskCallers, NEW t \in Tasks, NEW at \in {"read", "write"},
         NEW to \in TaskStateNames, NEW cancels \in BOOLEAN, BeginsChange(c, t, at, to, cancels)
  PROVE  TasksInv'
<1> USE DEF BeginsChange
<1>1. TasksTypeOK /\ taskCall[c].at = "idle" /\ store[t] # NoTask /\ store[t] \in Stored
  BY CallFields DEF TasksInv, TasksTypeOK
<1>2. PICK new \in TaskCallStates :
        /\ taskCall' = [taskCall EXCEPT ![c] = new]
        /\ new.at = at /\ new.task = t
  <2>1. [at |-> at, task |-> t, to |-> to, seen |-> store[t], cancels |-> cancels] \in TaskCallStates
    BY <1>1 DEF TaskCallStates
  <2> QED BY <2>1
<1>3. /\ \A d \in TaskCallers \ {c} : taskCall'[d] = taskCall[d]
      /\ taskCall'[c].at = at /\ taskCall'[c].task = t
      /\ taskCall' \in [TaskCallers -> TaskCallStates]
      /\ UNCHANGED <<store, tracked, added, told>>
  BY <1>1, <1>2 DEF TasksTypeOK
<1>4. raced \subseteq raced' /\ raced' \subseteq Tasks
  BY <1>1 DEF TasksTypeOK
<1>5. TasksTypeOK'
  BY <1>1, <1>3, <1>4 DEF TasksTypeOK
<1>6. \A s \in Tasks : /\ CallsAt("track", s)' = CallsAt("track", s)
                       /\ CallsAt("tell", s)' = CallsAt("tell", s)
                       /\ c \notin CallsAt("tell", s)
  BY <1>1, <1>3 DEF CallsAt, CallAt
<1>7. HistoryKept'
  BY <1>3, <1>6 DEF TasksInv, HistoryKept
<1>8. ASSUME NEW d \in TaskCallers PROVE CallFits(d)'
  <2>1. CASE d = c
    BY <1>1, <1>3, <2>1 DEF CallFits
  <2>2. CASE d # c
    <3>1. taskCall'[d] = taskCall[d] /\ CallFits(d)
      BY <1>3, <2>2 DEF TasksInv
    <3>2. taskCall[d].at = "store" => taskCall[d].task # t
      BY <1>1, <3>1 DEF CallFits
    <3> QED BY <1>1, <1>3, <2>2, <3>1, <3>2 DEF CallFits
  <2> QED BY <2>1, <2>2
<1>9. ASSUME NEW s \in Tasks \ raced' PROVE \A d, e \in Changing(s)' : d = e
  <2>1. \A d, e \in Changing(s) : d = e
    BY <1>4 DEF TasksInv, ChangesInTurn
  <2>2. CASE s # t
    <3>1. Changing(s)' = Changing(s)
      BY <1>1, <1>3, <2>2 DEF Changing
    <3> QED BY <2>1, <3>1
  <2>3. CASE s = t
    <3>1. Changing(s) = {}
      BY <2>3
    <3>2. Changing(s)' \subseteq {c}
      BY <1>3, <3>1 DEF Changing
    <3> QED BY <3>2
  <2> QED BY <2>2, <2>3
<1>10. ChangesInTurn'
  <2>1. \A s \in Tasks : \A d \in CallsAt("tell", s) : taskCall'[d] = taskCall[d]
    BY <1>3, <1>6 DEF CallsAt
  <2> QED BY <1>3, <1>4, <1>6, <1>9, <2>1 DEF TasksInv, ChangesInTurn
<1> QED BY <1>5, <1>7, <1>8, <1>10 DEF TasksInv

LEMMA ChecksCancel ==
  ASSUME TasksInv, NEW c \in TaskCallers, CheckCancel(c)
  PROVE  TasksInv'
<1> USE DEF CheckCancel
<1>1. TasksTypeOK /\ taskCall[c].at = "read"
  BY DEF TasksInv, CallAt
<1>2. /\ taskCall' \in [TaskCallers -> TaskCallStates]
      /\ \A d \in TaskCallers \ {c} : taskCall'[d] = taskCall[d]
      /\ \/ taskCall'[c].at = "write" /\ taskCall'[c].task = taskCall[c].task
         \/ taskCall'[c].at = "idle"
  BY <1>1, CallMoves, CallReturns DEF CallAt
<1>3. TasksTypeOK' /\ UNCHANGED <<store, tracked, added, told, raced>>
  BY <1>1, <1>2 DEF TasksTypeOK
<1>4. \A s \in Tasks : /\ CallsAt("track", s)' = CallsAt("track", s)
                       /\ CallsAt("tell", s)' = CallsAt("tell", s)
                       /\ c \notin CallsAt("tell", s) /\ Changing(s)' \subseteq Changing(s)
  BY <1>1, <1>2 DEF CallsAt, CallAt, Changing
<1>5. HistoryKept'
  BY <1>3, <1>4 DEF TasksInv, HistoryKept
<1>6. ASSUME NEW d \in TaskCallers PROVE CallFits(d)'
  <2>1. CASE d = c
    BY <1>1, <1>2, <1>3, <2>1 DEF TasksInv, CallFits
  <2>2. CASE d # c
    <3>1. taskCall'[d] = taskCall[d] /\ CallFits(d)
      BY <1>2, <2>2 DEF TasksInv
    <3> QED BY <1>1, <1>2, <1>3, <2>2, <3>1 DEF CallFits
  <2> QED BY <2>1, <2>2
<1>7. ChangesInTurn'
  <2>1. \A s \in Tasks : \A d \in CallsAt("tell", s) : taskCall'[d] = taskCall[d]
    BY <1>2, <1>4 DEF CallsAt
  <2> QED BY <1>3, <1>4, <2>1 DEF TasksInv, ChangesInTurn
<1> QED BY <1>3, <1>5, <1>6, <1>7 DEF TasksInv

LEMMA WritesStatus ==
  ASSUME TasksInv, NEW c \in TaskCallers, update_status(c)
  PROVE  TasksInv'
<1> USE DEF update_status
<1>1. PICK t \in Tasks, to \in TaskStateNames :
        /\ TasksTypeOK /\ taskCall[c].at = "write"
        /\ t = taskCall[c].task /\ to = taskCall[c].to /\ store[t] # NoTask
  BY CallFields DEF TasksInv, CallFits, CallAt
<1>2. /\ taskCall' \in [TaskCallers -> TaskCallStates]
      /\ \A d \in TaskCallers \ {c} : taskCall'[d] = taskCall[d]
      /\ taskCall'[c].at = "tell" /\ taskCall'[c].task = t /\ taskCall'[c].to = to
  BY <1>1, CallMoves DEF CallAt
<1>3. /\ \A s \in Tasks \ {t} : store'[s] = store[s]
      /\ store'[t] \in Stored /\ store'[t] # NoTask
      /\ store'[t].state = to /\ store'[t].history = store[t].history
      /\ UNCHANGED <<tracked, added, told, raced>>
  <2>1. store[t] \in [state: TaskStateNames, history: 0..MaxAdded]
    BY <1>1 DEF TasksTypeOK, Stored
  <2>2. /\ [store[t] EXCEPT !.state = to] \in [state: TaskStateNames, history: 0..MaxAdded]
        /\ [store[t] EXCEPT !.state = to].state = to
        /\ [store[t] EXCEPT !.state = to].history = store[t].history
    BY <2>1
  <2>3. store'[t] = [store[t] EXCEPT !.state = to] /\ \A s \in Tasks \ {t} : store'[s] = store[s]
    BY <1>1 DEF TasksTypeOK
  <2>4. to # NoTask.state
    BY DEF NoTask, TaskStateNames, Terminal
  <2> QED BY <2>2, <2>3, <2>4 DEF Stored
<1>4. TasksTypeOK'
  <2>1. DOMAIN store' = Tasks /\ store' = [s \in Tasks |-> store'[s]]
    BY <1>1 DEF TasksTypeOK
  <2>2. store' \in [Tasks -> Stored]
    BY <1>1, <1>3, <2>1 DEF TasksTypeOK
  <2> QED BY <1>1, <1>2, <1>3, <2>2 DEF TasksTypeOK
<1>5. \A s \in Tasks : CallsAt("track", s)' = CallsAt("track", s) /\ Changing(s)' = Changing(s)
  BY <1>1, <1>2 DEF CallsAt, CallAt, Changing
<1>6. HistoryKept'
  BY <1>1, <1>3, <1>5 DEF TasksInv, HistoryKept
<1>7. ASSUME NEW d \in TaskCallers PROVE CallFits(d)'
  <2>1. CASE d = c
    BY <1>1, <1>2, <1>3, <2>1 DEF CallFits
  <2>2. CASE d # c
    <3>1. /\ taskCall'[d] = taskCall[d] /\ CallFits(d)
          /\ taskCall[d].at # "idle" => taskCall[d].task \in Tasks
      BY <1>1, <1>2, <2>2, CallFields DEF TasksInv
    <3> QED BY <1>1, <1>2, <1>3, <2>2, <3>1 DEF CallFits
  <2> QED BY <2>1, <2>2
<1>8. ASSUME NEW s \in Tasks \ raced
      PROVE  /\ \A d \in CallsAt("tell", s)' : store'[s].state = taskCall'[d].to
             /\ CallsAt("tell", s)' = {} /\ store'[s].state \notin {"none", "Submitted"} =>
                  told[s] = store'[s].state
  <2>1. CASE s = t
    <3>1. c \in Changing(s) /\ c \in CallsAt("tell", s)'
      BY <1>1, <1>2, <2>1 DEF Changing, CallsAt, CallAt
    <3>2. CallsAt("tell", s)' \subseteq Changing(s)'
      BY DEF Changing, CallsAt, CallAt
    <3>3. CallsAt("tell", s)' = {c}
      BY <1>5, <3>1, <3>2 DEF TasksInv, ChangesInTurn
    <3> QED BY <1>2, <1>3, <2>1, <3>3
  <2>2. CASE s # t
    <3>1. CallsAt("tell", s)' = CallsAt("tell", s) /\ c \notin CallsAt("tell", s)
      BY <1>1, <1>2, <2>2 DEF CallsAt, CallAt
    <3>2. \A d \in CallsAt("tell", s) : taskCall'[d] = taskCall[d]
      BY <1>2, <3>1 DEF CallsAt
    <3>3. /\ \A d \in CallsAt("tell", s) : store[s].state = taskCall[d].to
          /\ CallsAt("tell", s) = {} /\ store[s].state \notin {"none", "Submitted"} =>
               told[s] = store[s].state
      BY DEF TasksInv, ChangesInTurn
    <3>4. store'[s] = store[s] /\ told' = told
      BY <1>3, <2>2
    <3> QED BY <3>1, <3>2, <3>3, <3>4
  <2> QED BY <2>1, <2>2
<1>9. ChangesInTurn'
  BY <1>3, <1>5, <1>8 DEF TasksInv, ChangesInTurn
<1> QED BY <1>4, <1>6, <1>7, <1>9 DEF TasksInv

LEMMA TellsChange ==
  ASSUME TasksInv, NEW c \in TaskCallers, TellChange(c)
  PROVE  TasksInv'
<1> USE DEF TellChange
<1>1. PICK t \in Tasks, to \in TaskStateNames :
        /\ TasksTypeOK /\ taskCall[c].at = "tell"
        /\ t = taskCall[c].task /\ to = taskCall[c].to /\ store[t] # NoTask
  BY CallFields DEF TasksInv, CallFits, CallAt
<1>2. /\ taskCall' \in [TaskCallers -> TaskCallStates]
      /\ \A d \in TaskCallers \ {c} : taskCall'[d] = taskCall[d]
      /\ taskCall'[c].at = "idle"
  BY <1>1, CallReturns
<1>3. /\ told' \in [Tasks -> TaskStateNames \cup {"none"}]
      /\ \A s \in Tasks \ {t} : told'[s] = told[s]
      /\ told'[t] = to /\ UNCHANGED <<store, tracked, added, raced>>
  BY <1>1 DEF TasksTypeOK
<1>4. TasksTypeOK'
  BY <1>1, <1>2, <1>3 DEF TasksTypeOK
<1>5. \A s \in Tasks : /\ CallsAt("track", s)' = CallsAt("track", s)
                       /\ Changing(s)' \subseteq Changing(s)
                       /\ CallsAt("tell", s)' = CallsAt("tell", s) \ {c}
  BY <1>1, <1>2 DEF CallsAt, CallAt, Changing
<1>6. HistoryKept'
  BY <1>3, <1>5 DEF TasksInv, HistoryKept
<1>7. ASSUME NEW d \in TaskCallers PROVE CallFits(d)'
  <2>1. CASE d = c
    BY <1>2, <2>1 DEF CallFits
  <2>2. CASE d # c
    <3>1. taskCall'[d] = taskCall[d] /\ CallFits(d)
      BY <1>2, <2>2 DEF TasksInv
    <3> QED BY <1>2, <1>3, <2>2, <3>1 DEF CallFits
  <2> QED BY <2>1, <2>2
<1>8. ASSUME NEW s \in Tasks \ raced
      PROVE  /\ \A d \in CallsAt("tell", s)' : store[s].state = taskCall'[d].to
             /\ CallsAt("tell", s)' = {} /\ store[s].state \notin {"none", "Submitted"} =>
                  told'[s] = store[s].state
  <2>1. /\ \A d \in CallsAt("tell", s) : store[s].state = taskCall[d].to
        /\ CallsAt("tell", s) = {} /\ store[s].state \notin {"none", "Submitted"} =>
             told[s] = store[s].state
    BY DEF TasksInv, ChangesInTurn
  <2>2. \A d \in CallsAt("tell", s)' : d \in CallsAt("tell", s) /\ taskCall'[d] = taskCall[d]
    BY <1>2, <1>5 DEF CallsAt
  <2>3. CASE s = t
    <3>1. store[s].state = to
      BY <1>1, <2>1, <2>3 DEF CallsAt, CallAt
    <3> QED BY <1>3, <2>1, <2>2, <2>3, <3>1
  <2>4. CASE s # t
    <3>1. c \notin CallsAt("tell", s)
      BY <1>1, <2>4 DEF CallsAt
    <3> QED BY <1>3, <1>5, <2>1, <2>2, <2>4, <3>1
  <2> QED BY <2>3, <2>4
<1>9. ChangesInTurn'
  BY <1>3, <1>5, <1>8 DEF TasksInv, ChangesInTurn
<1> QED BY <1>4, <1>6, <1>7, <1>9 DEF TasksInv

LEMMA AddsMessage ==
  ASSUME TasksInv, NEW t \in Tasks, addMessage(t)
  PROVE  TasksInv'
<1> USE DEF addMessage
<1>1. TasksTypeOK /\ store[t].history = added[t] /\ store[t] # NoTask
  BY DEF TasksInv, HistoryKept
<1>2. /\ store'[t] \in Stored /\ store'[t] # NoTask
      /\ store'[t].state = store[t].state /\ store'[t].history = added'[t]
      /\ \A s \in Tasks \ {t} : store'[s] = store[s] /\ added'[s] = added[s]
  <2>1. store[t] \in [state: TaskStateNames, history: 0..MaxAdded]
    BY <1>1 DEF TasksTypeOK, Stored
  <2>2. added[t] + 1 \in 0..MaxAdded /\ store[t].history + 1 = added[t] + 1
    BY <1>1, TaskBounds DEF TasksTypeOK
  <2>3. /\ [store[t] EXCEPT !.history = @ + 1] \in [state: TaskStateNames, history: 0..MaxAdded]
        /\ [store[t] EXCEPT !.history = @ + 1].state = store[t].state
        /\ [store[t] EXCEPT !.history = @ + 1].history = added[t] + 1
    BY <2>1, <2>2
  <2>4. /\ store'[t] = [store[t] EXCEPT !.history = @ + 1] /\ added'[t] = added[t] + 1
        /\ \A s \in Tasks \ {t} : store'[s] = store[s] /\ added'[s] = added[s]
    BY <1>1 DEF TasksTypeOK
  <2>5. store[t].state # NoTask.state
    BY <2>1 DEF NoTask, TaskStateNames, Terminal
  <2> QED BY <2>3, <2>4, <2>5 DEF Stored
<1>3. TasksTypeOK'
  <2>1. store' = [s \in Tasks |-> store'[s]]
    BY <1>1 DEF TasksTypeOK
  <2>2. store' \in [Tasks -> Stored]
    BY <1>1, <1>2, <2>1 DEF TasksTypeOK
  <2>3. added' \in [Tasks -> 0..MaxAdded]
    BY <1>1, TaskBounds DEF TasksTypeOK
  <2> QED BY <1>1, <2>2, <2>3 DEF TasksTypeOK
<1>4. /\ \A s \in Tasks : store'[s].state = store[s].state /\ (store'[s] = NoTask <=> store[s] = NoTask)
      /\ \A s \in Tasks : store'[s].history = added'[s]
  BY <1>1, <1>2 DEF TasksInv, HistoryKept
<1>5. \A s \in Tasks, at \in {"track", "tell"} : CallsAt(at, s)' = CallsAt(at, s)
                                                 /\ Changing(s)' = Changing(s)
  BY DEF CallsAt, CallAt, Changing
<1>6. HistoryKept'
  BY <1>4, <1>5 DEF TasksInv, HistoryKept
<1>7. ASSUME NEW d \in TaskCallers PROVE CallFits(d)'
  <2>1. CallFits(d) /\ (taskCall[d].at # "idle" => taskCall[d].task \in Tasks)
    BY <1>1, CallFields DEF TasksInv
  <2> QED BY <1>4, <2>1 DEF CallFits
<1>8. ChangesInTurn'
  BY <1>4, <1>5 DEF TasksInv, ChangesInTurn
<1> QED BY <1>3, <1>6, <1>7, <1>8 DEF TasksInv

LEMMA TasksStay ==
  ASSUME TasksInv, UNCHANGED taskVars PROVE TasksInv'
BY DEF TasksInv, TasksTypeOK, HistoryKept, ChangesInTurn, CallFits, CallsAt, CallAt, Changing, taskVars

LEMMA TasksStep ==
  ASSUME TasksInv, [TasksNext]_taskVars PROVE TasksInv'
<1>1. ASSUME NEW t \in Tasks, addMessage(t) PROVE TasksInv'
  BY <1>1, AddsMessage
<1>2. ASSUME NEW c \in TaskCallers, TaskCallStep(c) PROVE TasksInv'
  BY <1>2, StoresTask, Lists, ChecksCancel, WritesStatus, TellsChange DEF TaskCallStep
<1>3. ASSUME NEW c \in TaskCallers, NEW t \in Tasks, createTask(c, t) PROVE TasksInv'
  BY <1>3, Creates
<1>4. ASSUME NEW c \in TaskCallers, NEW t \in Tasks, cancelTask(c, t) PROVE TasksInv'
  <2>1. "Canceled" \in TaskStateNames /\ BeginsChange(c, t, "read", "Canceled", TRUE)
    BY <1>4 DEF TaskStateNames, Terminal, cancelTask
  <2> QED BY <2>1, Begins
<1>5. ASSUME NEW c \in TaskCallers, NEW t \in Tasks, NEW to \in TaskStateNames,
             updateTaskState(c, t, to)
      PROVE  TasksInv'
  <2>1. BeginsChange(c, t, "write", to, FALSE)
    BY <1>5 DEF updateTaskState
  <2> QED BY <2>1, Begins
<1> QED BY <1>1, <1>2, <1>3, <1>4, <1>5, TasksStay DEF TasksNext

\* Store, contexts and listeners of a2a::TaskManager agree whichever calls overlap:
\* the history holds each message once, a task is listed once, and the last change
\* told is the state of the task where no two changes overlapped.
THEOREM TasksCorrect == TasksSpec => []TasksInvariant
<1>1. TasksInv => TasksInvariant
  <2>1. ASSUME TasksInv, NEW t \in Tasks, Changing(t) = {} PROVE CallsAt("tell", t) = {}
    BY <2>1 DEF Changing, CallsAt, CallAt
  <2> QED BY <2>1 DEF TasksInv, TasksInvariant, ListenersUpToDate, ChangesInTurn
<1> QED BY <1>1, NoTasksYet, TasksStep, PTL DEF TasksSpec

\* A task that has ended, and that no call is about to write, never changes its state
\* again (isValidTransition, and is_terminal in cancelTask).
THEOREM EndedForEver == TasksSpec => EndedStaysEnded
<1>1. ASSUME TasksInv, [TasksNext]_taskVars, NEW t \in Tasks,
             store[t].state \in Terminal, CallsAt("write", t) = {}
      PROVE  store'[t].state = store[t].state /\ CallsAt("write", t)' = {}
  <2>1. /\ TasksTypeOK /\ store[t] # NoTask /\ store[t].state \notin {"Submitted", "Running"}
        /\ \A c \in TaskCallers : taskCall[c].at = "write" => taskCall[c].task # t
    BY <1>1 DEF TasksInv, Terminal, NoTask, CallsAt, CallAt
  <2> DEFINE Still == store'[t].state = store[t].state /\ CallsAt("write", t)' = {}
  <2>2. ASSUME NEW s \in Tasks, addMessage(s) PROVE Still
    <3>1. store'[t].state = store[t].state
      <4>1. CASE s = t
        <5>1. store[t] \in [state: TaskStateNames, history: 0..MaxAdded]
          BY <2>1 DEF TasksTypeOK, Stored
        <5>2. store'[t] = [store[t] EXCEPT !.history = @ + 1]
          BY <2>1, <2>2, <4>1 DEF addMessage, TasksTypeOK
        <5> QED BY <5>1, <5>2
      <4>2. CASE s # t
        BY <2>1, <2>2, <4>2 DEF addMessage, TasksTypeOK
      <4> QED BY <4>1, <4>2
    <3>2. taskCall' = taskCall
      BY <2>2 DEF addMessage
    <3> QED BY <2>1, <3>1, <3>2 DEF CallsAt, CallAt
  <2>3. ASSUME NEW c \in TaskCallers, StoreTask(c) PROVE Still
    <3>1. taskCall[c].at = "store" /\ taskCall[c].task # t /\ taskCall[c].task \in Tasks
      BY <1>1, <2>1, <2>3, CallFields DEF StoreTask, CallAt, TasksInv, CallFits
    <3>2. store'[t] = store[t]
      BY <2>1, <2>3, <3>1 DEF StoreTask, TasksTypeOK
    <3>3. /\ \A d \in TaskCallers \ {c} : taskCall'[d] = taskCall[d]
          /\ taskCall'[c].at = "track"
      BY <2>1, <2>3, <3>1, CallMoves DEF StoreTask, CallAt
    <3> QED BY <2>1, <3>2, <3>3 DEF CallsAt, CallAt
  <2>4. ASSUME NEW c \in TaskCallers, trackContextTask(c) \/ TellChange(c) PROVE Still
    <3>1. /\ \A d \in TaskCallers \ {c} : taskCall'[d] = taskCall[d]
          /\ taskCall'[c].at = "idle" /\ store' = store
      BY <2>1, <2>4, CallReturns DEF trackContextTask, TellChange
    <3> QED BY <2>1, <3>1 DEF CallsAt, CallAt
  <2>5. ASSUME NEW c \in TaskCallers, CheckCancel(c) PROVE Still
    <3>1. taskCall[c].at = "read" /\ store' = store
      BY <2>5 DEF CheckCancel, CallAt
    <3>2. CASE CallEnds(c)
      <4>1. /\ \A d \in TaskCallers \ {c} : taskCall'[d] = taskCall[d]
            /\ taskCall'[c].at = "idle"
        BY <2>1, <3>2, CallReturns
      <4> QED BY <2>1, <3>1, <4>1 DEF CallsAt, CallAt
    <3>3. CASE CallTo(c, "write") /\ store[taskCall[c].task].state \notin Terminal
      <4>1. taskCall[c].task # t
        BY <1>1, <3>3
      <4>2. /\ \A d \in TaskCallers \ {c} : taskCall'[d] = taskCall[d]
            /\ taskCall'[c].task = taskCall[c].task
        BY <2>1, <3>1, <3>3, CallMoves
      <4> QED BY <2>1, <3>1, <4>1, <4>2 DEF CallsAt, CallAt
    <3> QED BY <2>5, <3>2, <3>3 DEF CheckCancel
  <2>6. ASSUME NEW c \in TaskCallers, update_status(c) PROVE Still
    <3>1. taskCall[c].at = "write" /\ taskCall[c].task # t /\ taskCall[c].task \in Tasks
      BY <2>1, <2>6, CallFields DEF update_status, CallAt
    <3>2. store'[t] = store[t]
      BY <2>1, <2>6, <3>1 DEF update_status, TasksTypeOK
    <3>3. /\ \A d \in TaskCallers \ {c} : taskCall'[d] = taskCall[d]
          /\ taskCall'[c].at = "tell"
      BY <2>1, <2>6, <3>1, CallMoves DEF update_status, CallAt
    <3> QED BY <2>1, <3>2, <3>3 DEF CallsAt, CallAt
  <2>7. ASSUME NEW c \in TaskCallers, NEW s \in Tasks, createTask(c, s) PROVE Still
    <3>1. /\ \A d \in TaskCallers \ {c} : taskCall'[d] = taskCall[d]
          /\ taskCall'[c].at = "store" /\ store' = store
      BY <2>1, <2>7 DEF createTask, TasksTypeOK
    <3> QED BY <2>1, <3>1 DEF CallsAt, CallAt
  <2>8. ASSUME NEW c \in TaskCallers, NEW s \in Tasks, cancelTask(c, s) PROVE Still
    <3>1. /\ \A d \in TaskCallers \ {c} : taskCall'[d] = taskCall[d]
          /\ taskCall'[c].at = "read" /\ store' = store
      BY <2>1, <2>8 DEF cancelTask, BeginsChange, TasksTypeOK
    <3> QED BY <2>1, <3>1 DEF CallsAt, CallAt
  <2>9. ASSUME NEW c \in TaskCallers, NEW s \in Tasks, NEW to \in TaskStateNames,
               updateTaskState(c, s, to)
        PROVE  Still
    <3>1. s # t
      BY <2>1, <2>9 DEF updateTaskState, isValidTransition
    <3>2. /\ \A d \in TaskCallers \ {c} : taskCall'[d] = taskCall[d]
          /\ taskCall'[c].task = s /\ store' = store
      BY <2>1, <2>9 DEF updateTaskState, BeginsChange, TasksTypeOK
    <3> QED BY <2>1, <3>1, <3>2 DEF CallsAt, CallAt
  <2>10. CASE UNCHANGED taskVars
    BY <2>1, <2>10 DEF taskVars, CallsAt, CallAt
  <2> QED BY <1>1, <2>2, <2>3, <2>4, <2>5, <2>6, <2>7, <2>8, <2>9, <2>10 DEF TasksNext, TaskCallStep
<1> DEFINE Stays == \A t \in Tasks : store[t].state \in Terminal /\ CallsAt("write", t) = {} =>
              store'[t].state = store[t].state /\ CallsAt("write", t)' = {}
<1>2. TasksInv /\ [TasksNext]_taskVars => [Stays]_taskVars
  BY <1>1
<1> QED BY <1>2, NoTasksYet, TasksStep, PTL DEF TasksSpec, EndedStaysEnded
=============================================================================
