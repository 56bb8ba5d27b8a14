SPECIFICATION DependenciesSpec
CONSTANTS
  Callers = {c1, c2}
  Breakers = {"a2a_backend", "a2a_orchestrator"}
  Paths <- MCPaths
  FailureThreshold = 2
  SuccessThreshold = 2
  MinRequests = 4
  MaxCount = 4
  MaxErrors = 4
  MaxTroubles = 2
  Threads = {t1, t2, t3}
  PoolSize = 2
  NoSlot = NoSlot
  MaxCalls = 1
  MaxRestarts = 1
INVARIANTS BreakerInvariant PoolInvariant
PROPERTIES ClosesAfterProbes Recovers EveryCallReturns
CHECK_DEADLOCK FALSE
