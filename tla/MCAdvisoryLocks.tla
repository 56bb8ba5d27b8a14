--------------------------- MODULE MCAdvisoryLocks ---------------------------
(***************************************************************************)
(* What is kept in order by advisory locks of PostgreSQL: the budgets, and *)
(* the migrations of the schema.  They share no lock and are checked side  *)
(* by side: one of them runs, while the other stays as it was created.     *)
(***************************************************************************)
EXTENDS MCBudgetReservation, Migrations

VARIABLE part
lockVars == <<vars, migrationVars, part>>

\* An older release, a newer one, and one in which a migration was changed.
MCDirectories == {<<"a">>, <<"a", "a">>, <<"a", "b">>}

LocksInit ==
  /\ part \in {"budget", "migrations"} /\ Init /\ MigrationInit
  /\ part = "budget" => directory = [r \in Runners |-> <<"a">>]
  /\ part = "migrations" => call = [t \in Txns |-> CHOOSE c \in Calls : c.op = "policy"]

LocksNext ==
  /\ UNCHANGED part
  /\ \/ part = "budget" /\ Next /\ UNCHANGED migrationVars
     \/ part = "migrations" /\ MigrationNext /\ UNCHANGED vars

LocksSpec == LocksInit /\ [][LocksNext]_lockVars
=============================================================================
