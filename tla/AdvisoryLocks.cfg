SPECIFICATION LocksSpec
CONSTANTS
  Txns = {t1, t2, t3}
  NoTxn = NoTxn
  Requests = {q1, q2}
  Owners = {o1, o2}
  Contexts = {c1}
  Calls <- MCCalls
  NoReservation = NoReservation
  NoPolicy = NoPolicy
  DefaultLimits <- MCDefaultLimits
  LockId <- MCColliding
  DaysPerMonth = 2
  MaxDay = 1
  MaxInt = 3
  Runners = {m1, m2}
  NoRunner = NoRunner
  Versions = {1, 2}
  Contents = {"a", "b"}
  Directories <- MCDirectories
  MaxRuns = 2
  MaxBreaks = 1
  MaxEdits = 1
SYMMETRY Symmetry
INVARIANTS BudgetInvariant NoDeadlock MigrationInvariant
PROPERTIES WithinLimits ChargedOnce ImplementsAtomicBudget ImplementsUpgrade
CHECK_DEADLOCK FALSE
