SPECIFICATION CallsSpec
CONSTANTS
  Tasks = {t1}
  TaskCallers = {d1, d2}
  MaxAdded = 2
  Agents = {a1}
  Callers = {k1, k2}
  Listeners = {l1}
  Skills = {"s1", "s2"}
  Profiles <- MCProfiles
  Grace = 0
  MaxMessages = 2
  MaxFaults = 0
  MaxRestarts = 1
  QueryThreads = {q1, q2}
  NoThread = NoThread
  MaxAttempts = 2
  MaxEvents <- MCMaxEvents
  MaxQueries = 1
  Browsers <- MCBrowsers
  Ids = {1, 2, 3, 4}
  Answers <- MCAnswers
  Compared = {b1, b2, b3}
  MaxStreams = 3
SYMMETRY Symmetry
INVARIANTS
  TasksInvariant RegistryInvariant AgentCallsInvariant
  GatewayInvariant ExecutorInvariant CompareInvariant ChatInvariant
PROPERTIES EndedStaysEnded ImplementsPlan
CHECK_DEADLOCK FALSE
