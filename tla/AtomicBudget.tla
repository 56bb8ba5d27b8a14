---------------------------- MODULE AtomicBudget ----------------------------
(***************************************************************************)
(* What PostgresBudgetRepository promises its callers: a call of reserve   *)
(* is decided and booked in one step, on all reservations made so far, and *)
(* so is a change of a policy.  There are no locks, statements or          *)
(* counters: what a level has used is what its reservations add up to.     *)
(* Two things a caller may notice: a reservation belongs to the date on    *)
(* which its call began, and the first policy of an owner may be missed by *)
(* a call that looked for one before.                                      *)
(***************************************************************************)
EXTENDS Integers, FiniteSets

CONSTANTS
  Txns, Requests, Owners, Calls,
  Kinds,          \* the four levels
  NoReservation, NoPolicy,
  DefaultLimits,  \* limits of an owner without a policy, 0 meaning unlimited
  DaysPerMonth, MaxDay, MaxInt

VARIABLES
  reserved,       \* reservations by request id
  policy,         \* limits by owner
  today,
  call,
  stage,          \* how far a call has come
  day,            \* date on which a call began
  limits,         \* limits a call has found
  result

vars == <<reserved, policy, today, call, stage, day, limits, result>>

Init ==
  /\ reserved = [q \in Requests |-> NoReservation]
  /\ policy = [o \in Owners |-> NoPolicy]
  /\ today = 0
  /\ call \in [Txns -> Calls]
  /\ stage = [t \in Txns |-> "new"]
  /\ day = [t \in Txns |-> 0]
  /\ limits = [t \in Txns |-> DefaultLimits]
  /\ result = [t \in Txns |-> "none"]

\* A reservation counts for the levels it shares with a call of that day.
Shares(row, kind, c, d) ==
  /\ row # NoReservation
  /\ kind # "global" => row.owner = c.owner
  /\ kind = "user_daily" => row.day = d
  /\ kind = "user_monthly" => row.day \div DaysPerMonth = d \div DaysPerMonth
  /\ kind = "session" => row.context = c.context

\* The tokens reserved, numbered within each request.
TokensFor(kind, c, d) ==
  UNION {{q} \X (1..reserved[q].tokens) :
    q \in {q \in Requests : Shares(reserved[q], kind, c, d)}}
Used(kind, c, d) == Cardinality(TokensFor(kind, c, d))

Exceeds(sum, limit) == sum > MaxInt \/ (limit # 0 /\ sum > limit)

TooMuch(t) ==
  \E k \in Kinds : Exceeds(Used(k, call[t], day[t]) + call[t].tokens, limits[t][k])

InForce(o) == IF policy[o] = NoPolicy THEN DefaultLimits ELSE policy[o]

Ends(t, answer) ==
  /\ stage' = [stage EXCEPT ![t] = "done"]
  /\ result' = [result EXCEPT ![t] = answer]

Begin(t) ==
  /\ stage[t] = "new" /\ call[t].op = "reserve"
  /\ stage' = [stage EXCEPT ![t] = "open"]
  /\ day' = [day EXCEPT ![t] = today]
  /\ UNCHANGED <<reserved, policy, today, call, limits, result>>

\* A request that is reserved already is not charged again.
Repeat(t) ==
  /\ stage[t] = "open"
  /\ reserved[call[t].request] # NoReservation
  /\ Ends(t, IF reserved[call[t].request].owner = call[t].owner
             THEN "idempotent" ELSE "unavailable")
  /\ UNCHANGED <<reserved, policy, today, call, day, limits>>

FindLimits(t) ==
  /\ stage[t] = "open"
  /\ stage' = [stage EXCEPT ![t] = "ready"]
  /\ limits' = [limits EXCEPT ![t] = InForce(call[t].owner)]
  /\ UNCHANGED <<reserved, policy, today, call, day, result>>

\* Until a call is answered, its owner's policy does not change under it; only
\* a first policy may be set.
Decidable(t) ==
  /\ stage[t] = "ready"
  /\ limits[t] \in {DefaultLimits, policy[call[t].owner]}
  /\ reserved[call[t].request] = NoReservation

Accept(t) ==
  /\ Decidable(t) /\ ~TooMuch(t)
  /\ reserved' = [reserved EXCEPT ![call[t].request] =
       [owner |-> call[t].owner, context |-> call[t].context,
        tokens |-> call[t].tokens, day |-> day[t]]]
  /\ Ends(t, "accepted")
  /\ UNCHANGED <<policy, today, call, day, limits>>

Refuse(t) ==
  /\ Decidable(t) /\ TooMuch(t)
  /\ Ends(t, "exceeded")
  /\ UNCHANGED <<reserved, policy, today, call, day, limits>>

SetPolicy(t) ==
  /\ stage[t] = "new" /\ call[t].op = "policy"
  /\ policy' = [policy EXCEPT ![call[t].owner] = call[t].limits]
  /\ Ends(t, "written")
  /\ UNCHANGED <<reserved, today, call, day, limits>>

\* A call that fails leaves nothing behind.
Fail(t) ==
  /\ stage[t] # "done"
  /\ Ends(t, "failed")
  /\ UNCHANGED <<reserved, policy, today, call, day, limits>>

Midnight ==
  /\ today < MaxDay
  /\ today' = today + 1
  /\ UNCHANGED <<reserved, policy, call, stage, day, limits, result>>

Next ==
  \/ Midnight
  \/ \E t \in Txns :
       \/ Begin(t) \/ Repeat(t) \/ FindLimits(t) \/ Accept(t) \/ Refuse(t)
       \/ SetPolicy(t) \/ Fail(t)

Spec == Init /\ [][Next]_vars
=============================================================================
