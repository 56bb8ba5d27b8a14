SPECIFICATION ThreadsSpec
CONSTANTS
  Jobs = {j1}
  Workers = {w1, w2}
  MaxRounds = 3
  MaxStarts = 2
  Clients = {c1, c2}
  Listens = TRUE
  MaxRequests = 4
  MaxChanges = 1
  Agents = {a1}
  Callers = {k1}
  Listeners = {l1}
  Skills = {"s1", "s2"}
  Profiles <- MCProfiles
  Grace = 0
  MaxMessages = 1
  MaxFaults = 1
  MaxRestarts = 1
  Keys = {f1, f2}
  Raters = {r1, r2}
  MaxTroubles = 1
INVARIANTS
  SchedulerInvariant McpInvariant QualityInvariant
PROPERTIES
  CancelledStaysQuiet SchedulerProgress CallsReturn CopiesConverge QualityCatchesUp
CHECK_DEADLOCK FALSE
