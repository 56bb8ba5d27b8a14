SPECIFICATION GatewaySpec
CONSTANTS
  QueryThreads = {q1}
  NoThread = NoThread
  MaxAttempts = 1
  MaxEvents <- MCMaxEvents
  MaxQueries = 1
  Browsers <- MCBrowsers
INVARIANT SingleTerminalEvent
CHECK_DEADLOCK FALSE
