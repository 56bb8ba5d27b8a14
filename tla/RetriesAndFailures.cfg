SPECIFICATION PartsSpec
CONSTANTS
  Runs = {r1, r2}
  Requests = {q1}
  Owners = {o1, o2}
  Conversations = {c1, c2}
  NoOwner = NoOwner
  NoConversation = NoConversation
  Cost <- MCCost
  Orchestrated = FALSE
  SerialRetries = FALSE
  MaxFaults = 2
  MaxCrashes = 1
  Interventions = {i1}
  UndoIds = {u1, u2}
  Sessions = {h1, h2}
  MaxFailures = 1
  Servers = {s1, s2}
  Callers = {k1}
  MaxTries = 1
  MaxStops = 1
  MaxEntries = 2
  MaxConnects = 1
SYMMETRY PartsSymmetry
INVARIANTS OwnersAgree RecordsBacked OkMeansDurable InterventionInvariant FailoverInvariant
PROPERTIES RetriesNeverRewrite AbortIsFinal ImplementsLifecycle
CHECK_DEADLOCK FALSE
