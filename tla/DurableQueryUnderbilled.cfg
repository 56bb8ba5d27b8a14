SPECIFICATION Spec
CONSTANTS
  Runs = {r1, r2}
  Requests = {q1}
  Owners = {o1}
  Conversations = {c1}
  NoOwner = NoOwner
  NoConversation = NoConversation
  Cost <- MCCost
  Orchestrated = FALSE
  SerialRetries = TRUE
  MaxFaults = 1
  MaxCrashes = 0
INVARIANT LedgerMatchesReservation
CHECK_DEADLOCK FALSE
