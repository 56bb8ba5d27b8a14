----------------------------- MODULE Migrations -----------------------------
(***************************************************************************)
(* MigrationRunner::migrate: each server when it starts, and db_migrate,   *)
(* bring the schema up to date from a directory of their own release.  Each *)
(* migration is a transaction under one advisory lock, which executes the  *)
(* file and records its checksum.  A run that fails ends its process,      *)
(* which may be started again.  A checksum is modelled by the content it   *)
(* is of, and the order of versions by that of their file names.           *)
(***************************************************************************)
EXTENDS Integers, Sequences, FiniteSets

CONSTANTS
  Runners, NoRunner,   \* servers that start, and db_migrate
  Versions, Contents,
  Directories,         \* releases: contents by version
  MaxRuns,             \* bound: how often a process is started
  MaxBreaks,           \* bound: crashes and failing transactions
  MaxEdits             \* bound: files replaced while runners may read them

ASSUME MigrationAssumption ==
  /\ Versions \subseteq Nat /\ NoRunner \notin Runners
  /\ Directories \subseteq UNION {[S -> Contents] : S \in SUBSET Versions}
ASSUME MigrationBounds == MaxRuns \in Nat /\ MaxBreaks \in Nat
\* A release adds its files at the end.
ASSUME ReleasesGrow ==
  \A d, e \in Directories : \A v \in DOMAIN d, w \in DOMAIN e : v < w => v \in DOMAIN e

VARIABLES
  directory,   \* the files of each runner
  applied,     \* schema_migrations in the order of commits, with what was executed
  lockedBy,    \* pg_advisory_xact_lock(739214640)
  runner,      \* the runs of migrate
  edited,      \* versions whose file was replaced
  breaks
migrationVars == <<directory, applied, lockedBy, runner, edited, breaks>>

Ended == {"down", "failed", "current"}
NotStarted ==
  [at |-> "down", runs |-> 0, plan |-> <<>>, left |-> {}, version |-> 0, sql |-> "none",
   collided |-> FALSE]

MigrationInit ==
  /\ directory \in [Runners -> Directories]
  /\ applied = <<>> /\ lockedBy = NoRunner
  /\ runner = [r \in Runners |-> NotStarted] /\ edited = {} /\ breaks = 0

RunnerAt(r, at) == runner[r].at = at
Moves(r, run) == runner' = [runner EXCEPT ![r] = run]
Fails(r, collided) == Moves(r, [runner[r] EXCEPT !.at = "failed", !.collided = collided])
History == {applied[i] : i \in DOMAIN applied}
Recorded(v) == {e \in History : e.version = v}
Unlocks(r) == lockedBy' = IF lockedBy = r THEN NoRunner ELSE lockedBy
\* The migration of r is done with; the transaction ends and gives up the lock.
Advance(r) ==
  /\ Moves(r, [runner[r] EXCEPT !.at = "read", !.left = @ \ {runner[r].version}])
  /\ Unlocks(r)
-----------------------------------------------------------------------------
\* All files are read for their checksums.
discover(r) ==
  /\ runner[r].at \in {"down", "failed"} /\ runner[r].runs < MaxRuns
  /\ Moves(r, [NotStarted EXCEPT !.at = "create", !.runs = runner[r].runs + 1,
                          !.plan = directory[r], !.left = DOMAIN directory[r]])
  /\ UNCHANGED <<directory, applied, lockedBy, edited, breaks>>

\* CREATE TABLE IF NOT EXISTS, in a transaction of its own under the lock.
CreateTable(r) ==
  /\ RunnerAt(r, "create") /\ lockedBy = NoRunner
  /\ Moves(r, [runner[r] EXCEPT !.at = "read"])
  /\ UNCHANGED <<directory, applied, lockedBy, edited, breaks>>

\* Mutant: the files come in the order of the directory.
ReadAnyFile(r) ==
  /\ RunnerAt(r, "read")
  /\ \E v \in runner[r].left :
       Moves(r, [runner[r] EXCEPT !.at = "begin", !.version = v, !.sql = directory[r][v]])
  /\ UNCHANGED <<directory, applied, lockedBy, edited, breaks>>

\* Each file is read again before its transaction.
readFile(r) ==
  /\ RunnerAt(r, "read")
  /\ \E v \in runner[r].left :
       /\ \A w \in runner[r].left : v <= w
       /\ Moves(r, [runner[r] EXCEPT !.at = "begin", !.version = v, !.sql = directory[r][v]])
  /\ UNCHANGED <<directory, applied, lockedBy, edited, breaks>>
AllApplied(r) ==
  /\ RunnerAt(r, "read") /\ runner[r].left = {}
  /\ Moves(r, [runner[r] EXCEPT !.at = "current"])
  /\ UNCHANGED <<directory, applied, lockedBy, edited, breaks>>

\* Mutant: the lock is given up at once.
LocksStatement(r) ==
  /\ RunnerAt(r, "begin") /\ lockedBy = NoRunner
  /\ Moves(r, [runner[r] EXCEPT !.at = "check"])
  /\ UNCHANGED <<directory, applied, lockedBy, edited, breaks>>

Lock(r) ==
  /\ RunnerAt(r, "begin") /\ lockedBy = NoRunner /\ lockedBy' = r
  /\ Moves(r, [runner[r] EXCEPT !.at = "check"])
  /\ UNCHANGED <<directory, applied, edited, breaks>>

\* Mutant: a version that is recorded is taken for a conflict in any case.
RefusesApplied(r) ==
  /\ RunnerAt(r, "check")
  /\ IF Recorded(runner[r].version) = {}
     THEN Moves(r, [runner[r] EXCEPT !.at = "apply"]) /\ UNCHANGED lockedBy
     ELSE Fails(r, FALSE) /\ Unlocks(r)
  /\ UNCHANGED <<directory, applied, edited, breaks>>

\* A version that is recorded must have the checksum of this release.
CheckApplied(r) ==
  /\ RunnerAt(r, "check")
  /\ LET v == runner[r].version IN
       \/ Recorded(v) = {} /\ Moves(r, [runner[r] EXCEPT !.at = "apply"]) /\ UNCHANGED lockedBy
       \/ /\ Recorded(v) # {} /\ \A e \in Recorded(v) : e.checksum = runner[r].plan[v]
          /\ Advance(r)
       \/ /\ \E e \in Recorded(v) : e.checksum # runner[r].plan[v]
          /\ Fails(r, FALSE) /\ Unlocks(r)
  /\ UNCHANGED <<directory, applied, edited, breaks>>

\* The file is executed and recorded; version is the primary key.
Records(r) ==
  LET run == runner[r] IN
    applied' = Append(applied, [version |-> run.version, executed |-> run.sql,
                                checksum |-> run.plan[run.version]])
ApplyMigration(r) ==
  /\ RunnerAt(r, "apply")
  /\ \/ Recorded(runner[r].version) = {} /\ Records(r) /\ Advance(r)
     \/ Recorded(runner[r].version) # {} /\ UNCHANGED applied /\ Fails(r, TRUE) /\ Unlocks(r)
  /\ UNCHANGED <<directory, edited, breaks>>

\* A transaction fails or the process ends: what it did is rolled back, unless only
\* the acknowledgement of its commit was lost.
Breaks(r) ==
  /\ runner[r].at \notin Ended /\ breaks < MaxBreaks /\ breaks' = breaks + 1
  /\ \/ UNCHANGED applied
     \/ RunnerAt(r, "apply") /\ Recorded(runner[r].version) = {} /\ Records(r)
  /\ Fails(r, FALSE) /\ Unlocks(r)
  /\ UNCHANGED <<directory, edited>>

\* Somebody replaces a file.
FileChanges(r) ==
  /\ Cardinality(edited) < MaxEdits
  /\ \E v \in DOMAIN directory[r], c \in Contents :
       /\ directory' = [directory EXCEPT ![r][v] = c]
       /\ edited' = edited \cup {v}
  /\ UNCHANGED <<applied, lockedBy, runner, breaks>>

MigrationNext ==
  \E r \in Runners :
    \/ discover(r) \/ CreateTable(r) \/ readFile(r) \/ AllApplied(r)
    \/ Lock(r) \/ CheckApplied(r) \/ ApplyMigration(r)
    \/ Breaks(r) \/ FileChanges(r)

MigrationSpec == MigrationInit /\ [][MigrationNext]_migrationVars
-----------------------------------------------------------------------------
MigrationTypeOK ==
  /\ directory \in [Runners -> UNION {[S -> Contents] : S \in SUBSET Versions}]
  /\ applied \in Seq([version: Versions, executed: Contents, checksum: Contents])
  /\ lockedBy \in Runners \cup {NoRunner}
  /\ edited \subseteq Versions /\ breaks \in 0..MaxBreaks
  /\ \A r \in Runners : runner[r].runs <= MaxRuns

\* Servers that start together do not fail because of each other: none finds at
\* its INSERT that another one was faster (pg_advisory_xact_lock).
NobodyCollides == \A r \in Runners : ~runner[r].collided

\* "Applies VNNN__name.sql files in deterministic version order"
\* (migration_runner.h:15), each one once, although runs of older and newer
\* releases alternate and fail, as long as a release adds its files at the end.
AppliedInOrder ==
  \A i, j \in DOMAIN applied : i < j => applied[i].version < applied[j].version

\* A server that has started finds the schema of its release.
StartedMeansCurrent ==
  \A r \in Runners : RunnerAt(r, "current") =>
    \A v \in DOMAIN runner[r].plan : \E e \in Recorded(v) : e.checksum = runner[r].plan[v]

\* What is recorded is what was executed, unless a file was replaced: the checksum
\* is that of the first reading, the execution that of the second.
RecordedIsExecuted == \A e \in History : e.version \notin edited => e.checksum = e.executed

\* Whoever starts, fails and starts again in whichever release, the schema grows in
\* order, and each server that runs has its own migrations.
MigrationInvariant ==
  /\ MigrationTypeOK /\ NobodyCollides
  /\ AppliedInOrder /\ StartedMeansCurrent /\ RecordedIsExecuted

\* To those who deploy, a process is down, starting, running or failed.
ServerStatus(at) ==
  CASE at = "current" -> "running" [] at \in {"down", "failed"} -> at [] OTHER -> "starting"
Upgrade == INSTANCE SchemaUpgrade WITH
  Servers <- Runners, Releases <- Directories, files <- directory, schema <- History,
  release <- [r \in Runners |-> runner[r].plan],
  status <- [r \in Runners |-> ServerStatus(runner[r].at)],
  changed <- edited, crashes <- breaks

\* Servers of any releases that start at once take turns: each migration is executed
\* once, behind all those before it, and no server fails but by a crash or a conflict
\* of contents (migration_runner.cpp: migrate).
ImplementsUpgrade == Upgrade!Spec
=============================================================================
