------------------------ MODULE MCBudgetReservation ------------------------
EXTENDS BudgetReservation, TLC

Lim(g, d, m, s) ==
  [k \in Kinds |-> CASE k = "global" -> g [] k = "user_daily" -> d
                     [] k = "user_monthly" -> m [] k = "session" -> s]

\* The day or the month decides; the other two levels never refuse by themselves, as the
\* session is as wide as the month, and the global limit is the largest integer.
MCDefaultLimits == Lim(3, 2, 3, 3)

Reserving(o, c, q, n) == [op |-> "reserve", owner |-> o, context |-> c, request |-> q, tokens |-> n]
Setting(o, l) == [op |-> "policy", owner |-> o, limits |-> l]

\* Policies with a tighter limit, and with none.
MCCalls ==
  {Reserving(o, c, q, n) : o \in Owners, c \in Contexts, q \in Requests, n \in {1, 2}}
    \cup {Setting(o, l) : o \in Owners, l \in {Lim(3, 1, 2, 0), Lim(0, 0, 0, 0)}}

\* On day 0 the daily bucket of one owner and the session of the other share a
\* lock, and the other way round; on day 1 no lock is shared.
Colliding(b) == b[1] = "session" \/ (b[1] = "user_daily" /\ b[3] = 0)
MCColliding ==
  [b \in Buckets |->
     IF Colliding(b)
     THEN <<"shared", (b[1] = "user_daily") <=> (b[2] = CHOOSE o \in Owners : TRUE)>>
     ELSE b]

Symmetry == Permutations(Txns) \cup Permutations(Requests)
=============================================================================
