SPECIFICATION Spec
CONSTANTS
  Runs = {r1}
  Requests = {q1}
  Owners = {o1}
  Conversations = {c1}
  NoOwner = NoOwner
  NoConversation = NoConversation
  Cost <- MCCost
  Orchestrated = FALSE
  SerialRetries = FALSE
  MaxFaults = 1
  MaxCrashes = 0
INVARIANT RunningHasWorker
CHECK_DEADLOCK FALSE
