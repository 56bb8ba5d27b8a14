SPECIFICATION Spec
CONSTANTS
  Callers = {c1, c2}
  Breakers = {"a2a_backend", "a2a_orchestrator"}
  Paths <- MCPaths
  FailureThreshold = 2
  SuccessThreshold = 2
  MinRequests = 4
  MaxCount = 4
  MaxErrors = 0
  MaxTroubles = 2
INVARIANT OnlyAgentFaultsOpen
SYMMETRY Symmetry
CHECK_DEADLOCK FALSE
