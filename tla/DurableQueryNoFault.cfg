SPECIFICATION RetriesSpec
CONSTANTS
  Runs = {r1, r2}
  Requests = {q1, q2}
  Owners = {o1, o2}
  Conversations = {c1}
  NoOwner = NoOwner
  NoConversation = NoConversation
  Cost <- MCCost
  Orchestrated = FALSE
  SerialRetries = FALSE
  MaxFaults = 0
  MaxCrashes = 1
INVARIANTS RunningHasWorker RecordsAgree
PROPERTIES RunningIsSettled
CHECK_DEADLOCK FALSE
