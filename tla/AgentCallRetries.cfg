SPECIFICATION AgentCallsSpec
CONSTANTS
  QueryThreads = {q1}
  NoThread = NoThread
  MaxAttempts = 3
  MaxEvents <- MCMaxEvents
  MaxQueries = 1
INVARIANT NetworkErrorsRetried
CHECK_DEADLOCK FALSE
