------------------------- MODULE BudgetReservation -------------------------
(***************************************************************************)
(* PostgresBudgetRepository: reserve and setOwnerPolicy as concurrent      *)
(* READ COMMITTED transactions.                                            *)
(*                                                                         *)
(* A statement that takes a lock or reads committed rows is a step; what a *)
(* transaction writes becomes visible when it commits, so its INSERT and   *)
(* the four counter upserts are part of the commit.  A transaction may be  *)
(* rolled back at any step, and the date may change under it.  The four    *)
(* counters are read in one step.  The row locks on counters and on the    *)
(* reservation are left out: whoever takes them holds the advisory lock of *)
(* the global bucket (GlobalLockHeld).                                     *)
(***************************************************************************)
EXTENDS Integers, FiniteSets

CONSTANTS
  Txns,           \* transactions
  NoTxn,
  Requests, Owners, Contexts,
  Calls,          \* what the transactions are called with
  NoReservation,
  NoPolicy,
  DefaultLimits,  \* limits of the environment, 0 meaning unlimited
  LockId,         \* hashtext of a bucket's key: buckets may share a lock
  DaysPerMonth,
  MaxDay,         \* bound: days until the clock stops
  MaxInt          \* largest used_tokens of a counter

Kinds == {"global", "user_daily", "user_monthly", "session"}
Limits == [Kinds -> Nat]
Days == 0..MaxDay

ReserveCalls == [op: {"reserve"}, owner: Owners, context: Contexts, request: Requests,
                 tokens: Nat]
PolicyCalls == [op: {"policy"}, owner: Owners, limits: Limits]

\* Mutant of Bucket: the key of a month has no owner.
SharedMonths(kind, owner, context, day) ==
  CASE kind = "global" -> <<kind>>
    [] kind = "user_daily" -> <<kind, owner, day>>
    [] kind = "user_monthly" -> <<kind, day \div DaysPerMonth>>
    [] kind = "session" -> <<kind, owner, context>>

\* The key of a counter: only the parts its kind depends on.
Bucket(kind, owner, context, day) ==
  CASE kind = "global" -> <<kind>>
    [] kind = "user_daily" -> <<kind, owner, day>>
    [] kind = "user_monthly" -> <<kind, owner, day \div DaysPerMonth>>
    [] kind = "session" -> <<kind, owner, context>>
Buckets == {Bucket(k, o, c, d) : k \in Kinds, o \in Owners, c \in Contexts, d \in Days}
GlobalLock == LockId[<<"global">>]

ASSUME CallAssumption == Calls \subseteq ReserveCalls \cup PolicyCalls
ASSUME LimitAssumption == DefaultLimits \in Limits /\ NoPolicy \notin Limits
ASSUME ClockAssumption == MaxDay \in Nat /\ DaysPerMonth \in Nat \ {0}
ASSUME TxnAssumption == NoTxn \notin Txns
ASSUME IntAssumption == MaxInt \in Nat
ASSUME LockAssumption == DOMAIN LockId = Buckets
ASSUME ReservationAssumption ==
  NoReservation \notin [owner: Owners, context: Contexts, tokens: Nat, day: Days]

VARIABLES
  reserved,       \* budget_reservations by request id
  counter,        \* budget_counters
  policy,         \* budget_policies by owner
  advisory,       \* holder of each advisory transaction lock
  policyLock,     \* holder of the row lock of an owner's policy
  today,
  pc, call,
  day,            \* CURRENT_DATE of the transaction
  limits,         \* effective limits
  seen,           \* counters read, by kind
  result          \* what the caller is told

tables == <<reserved, counter, policy>>
locks == <<advisory, policyLock>>
vars == <<tables, locks, today, pc, call, day, limits, seen, result>>

Reservations == [owner: Owners, context: Contexts, tokens: Nat, day: Days]
Steps == {"begin", "lock_global", "lock_daily", "lock_monthly", "lock_session", "existing",
          "policy", "counters", "decide", "commit", "write_policy", "commit_policy", "done"}
Results == {"none", "accepted", "idempotent", "unavailable", "exceeded", "written", "failed"}

BucketOf(t, kind) == Bucket(kind, call[t].owner, call[t].context, day[t])

------------------------------------------------------------------------------
Init ==
  /\ reserved = [q \in Requests |-> NoReservation]
  /\ counter = [b \in Buckets |-> 0]
  /\ policy = [o \in Owners |-> NoPolicy]
  /\ advisory = [l \in {LockId[b] : b \in Buckets} |-> NoTxn]
  /\ policyLock = [o \in Owners |-> NoTxn]
  /\ today = 0
  /\ call \in [Txns -> Calls]
  /\ pc = [t \in Txns |-> IF call[t].op = "reserve" THEN "begin" ELSE "write_policy"]
  /\ day = [t \in Txns |-> 0]
  /\ limits = [t \in Txns |-> DefaultLimits]
  /\ seen = [t \in Txns |-> [k \in Kinds |-> 0]]
  /\ result = [t \in Txns |-> "none"]

Goto(t, step) == pc' = [pc EXCEPT ![t] = step]

\* The transaction ends and its locks go with it.
Ends(t, answer) ==
  /\ Goto(t, "done")
  /\ result' = [result EXCEPT ![t] = answer]
  /\ advisory' = [l \in DOMAIN advisory |-> IF advisory[l] = t THEN NoTxn ELSE advisory[l]]
  /\ policyLock' = [o \in Owners |-> IF policyLock[o] = t THEN NoTxn ELSE policyLock[o]]

\* The date is read once, before any lock.
ReadDate(t) ==
  /\ pc[t] = "begin"
  /\ day' = [day EXCEPT ![t] = today]
  /\ Goto(t, "lock_global")
  /\ UNCHANGED <<tables, locks, today, call, limits, seen, result>>

\* pg_advisory_xact_lock, in the order of bucketsFor: waits for another
\* holder, does nothing when the transaction holds the lock already.
LockBucket(t, step, kind, next) ==
  /\ pc[t] = step
  /\ LET l == LockId[BucketOf(t, kind)] IN
       /\ advisory[l] \in {NoTxn, t}
       /\ advisory' = [advisory EXCEPT ![l] = t]
  /\ Goto(t, next)
  /\ UNCHANGED <<tables, policyLock, today, call, day, limits, seen, result>>

\* Mutant of LockGlobal: only the buckets of the owner are locked.
SkipGlobalLock(t) ==
  /\ pc[t] = "lock_global"
  /\ Goto(t, "lock_daily")
  /\ UNCHANGED <<tables, locks, today, call, day, limits, seen, result>>

LockGlobal(t) == LockBucket(t, "lock_global", "global", "lock_daily")
LockDaily(t) == LockBucket(t, "lock_daily", "user_daily", "lock_monthly")
LockMonthly(t) == LockBucket(t, "lock_monthly", "user_monthly", "lock_session")
LockSession(t) == LockBucket(t, "lock_session", "session", "existing")

\* Mutant of FindExisting: only the owner's own reservation is looked up.
FindOwn(t) ==
  /\ pc[t] = "existing"
  /\ LET row == reserved[call[t].request] IN
       IF row # NoReservation /\ row.owner = call[t].owner
       THEN Ends(t, "idempotent")
       ELSE Goto(t, "policy") /\ UNCHANGED <<result, locks>>
  /\ UNCHANGED <<tables, today, call, day, limits, seen>>

\* A reservation of the request answers at once, whoever made it.
FindExisting(t) ==
  /\ pc[t] = "existing"
  /\ LET row == reserved[call[t].request] IN
       \/ row = NoReservation /\ Goto(t, "policy") /\ UNCHANGED <<result, locks>>
       \/ row # NoReservation /\ row.owner = call[t].owner /\ Ends(t, "idempotent")
       \/ row # NoReservation /\ row.owner # call[t].owner /\ Ends(t, "unavailable")
  /\ UNCHANGED <<tables, today, call, day, limits, seen>>

\* Mutant of ReadPolicy: a plain SELECT without a row lock.
ReadPolicyUnlocked(t) ==
  /\ pc[t] = "policy"
  /\ limits' = [limits EXCEPT ![t] =
       IF policy[call[t].owner] = NoPolicy THEN @ ELSE policy[call[t].owner]]
  /\ Goto(t, "counters")
  /\ UNCHANGED <<tables, locks, today, call, day, seen, result>>

\* SELECT ... FOR UPDATE of the owner's policy.  A row that is not committed
\* yet is not seen, and nothing is locked.
ReadPolicy(t) ==
  /\ pc[t] = "policy"
  /\ LET o == call[t].owner IN
       \/ /\ policy[o] = NoPolicy
          /\ UNCHANGED <<limits, policyLock>>
       \/ /\ policy[o] # NoPolicy /\ policyLock[o] = NoTxn
          /\ policyLock' = [policyLock EXCEPT ![o] = t]
          /\ limits' = [limits EXCEPT ![t] = policy[o]]
  /\ Goto(t, "counters")
  /\ UNCHANGED <<tables, advisory, today, call, day, seen, result>>

ReadCounters(t) ==
  /\ pc[t] = "counters"
  /\ seen' = [seen EXCEPT ![t] = [k \in Kinds |-> counter[BucketOf(t, k)]]]
  /\ Goto(t, "decide")
  /\ UNCHANGED <<tables, locks, today, call, day, limits, result>>

\* Mutant of WouldExceed: no guard against overflow.
WouldExceedLimit(used, limit, requested) ==
  limit # 0 /\ (used > limit \/ requested > limit - used)

\* A limit of zero leaves the bucket unlimited, but not beyond the type.
WouldExceed(used, limit, requested) ==
  \/ requested > MaxInt - used
  \/ limit # 0 /\ (used > limit \/ requested > limit - used)

Decide(t) ==
  /\ pc[t] = "decide"
  /\ IF \E k \in Kinds : WouldExceed(seen[t][k], limits[t][k], call[t].tokens)
     THEN Ends(t, "exceeded")
     ELSE Goto(t, "commit") /\ UNCHANGED <<locks, result>>
  /\ UNCHANGED <<tables, today, call, day, limits, seen>>

\* Mutant of CommitReservation: the counters are those of the current date.
CommitToday(t) ==
  /\ pc[t] = "commit"
  /\ reserved' = [reserved EXCEPT ![call[t].request] =
       [owner |-> call[t].owner, context |-> call[t].context,
        tokens |-> call[t].tokens, day |-> day[t]]]
  /\ counter' = [b \in Buckets |->
       IF \E k \in Kinds : b = Bucket(k, call[t].owner, call[t].context, today)
       THEN counter[b] + call[t].tokens ELSE counter[b]]
  /\ Ends(t, "accepted")
  /\ UNCHANGED <<policy, today, call, day, limits, seen>>

\* The reservation and the four counter upserts become visible together.
CommitReservation(t) ==
  /\ pc[t] = "commit"
  /\ reserved' = [reserved EXCEPT ![call[t].request] =
       [owner |-> call[t].owner, context |-> call[t].context,
        tokens |-> call[t].tokens, day |-> day[t]]]
  /\ counter' = [b \in Buckets |->
       IF \E k \in Kinds : b = BucketOf(t, k) THEN counter[b] + call[t].tokens ELSE counter[b]]
  /\ Ends(t, "accepted")
  /\ UNCHANGED <<policy, today, call, day, limits, seen>>

\* setOwnerPolicy: the upsert waits for whoever holds the owner's row.
WritePolicy(t) ==
  /\ pc[t] = "write_policy"
  /\ policyLock[call[t].owner] = NoTxn
  /\ policyLock' = [policyLock EXCEPT ![call[t].owner] = t]
  /\ Goto(t, "commit_policy")
  /\ UNCHANGED <<tables, advisory, today, call, day, limits, seen, result>>

CommitPolicy(t) ==
  /\ pc[t] = "commit_policy"
  /\ policy' = [policy EXCEPT ![call[t].owner] = call[t].limits]
  /\ Ends(t, "written")
  /\ UNCHANGED <<reserved, counter, today, call, day, limits, seen>>

\* A failing statement or connection rolls the transaction back.
RollBack(t) ==
  /\ pc[t] # "done"
  /\ Ends(t, "failed")
  /\ UNCHANGED <<tables, today, call, day, limits, seen>>

Midnight ==
  /\ today < MaxDay
  /\ today' = today + 1
  /\ UNCHANGED <<tables, locks, pc, call, day, limits, seen, result>>

TxnStep(t) ==
  \/ ReadDate(t) \/ LockGlobal(t) \/ LockDaily(t) \/ LockMonthly(t) \/ LockSession(t)
  \/ FindExisting(t) \/ ReadPolicy(t) \/ ReadCounters(t) \/ Decide(t)
  \/ CommitReservation(t) \/ WritePolicy(t) \/ CommitPolicy(t)

Next == Midnight \/ \E t \in Txns : TxnStep(t) \/ RollBack(t)

Spec == Init /\ [][Next]_vars

------------------------------------------------------------------------------
(* Properties. *)

\* Every variable keeps its shape; used_tokens stays in its column's range.
TypeOK ==
  /\ reserved \in [Requests -> Reservations \cup {NoReservation}]
  /\ counter \in [Buckets -> 0..MaxInt]
  /\ policy \in [Owners -> Limits \cup {NoPolicy}]
  /\ advisory \in [{LockId[b] : b \in Buckets} -> Txns \cup {NoTxn}]
  /\ policyLock \in [Owners -> Txns \cup {NoTxn}]
  /\ today \in Days
  /\ pc \in [Txns -> Steps]
  /\ call \in [Txns -> Calls]
  /\ day \in [Txns -> Days]
  /\ limits \in [Txns -> Limits]
  /\ seen \in [Txns -> [Kinds -> 0..MaxInt]]
  /\ result \in [Txns -> Results]

\* From its first lock on a reserve holds the lock of the global bucket, so
\* that at most one reserve at a time is past it.
PastGlobalLock(t) ==
  pc[t] \in {"lock_daily", "lock_monthly", "lock_session", "existing", "policy", "counters",
             "decide", "commit"}
GlobalLockHeld == \A t \in Txns : PastGlobalLock(t) => advisory[GlobalLock] = t

\* When a reservation commits, all it was decided on is still true: the
\* request is not reserved yet (the INSERT cannot conflict), the counters are
\* the ones that were compared with the limits, and a policy row that was
\* read is still the owner's policy.
ReadsStayCurrent ==
  \A t \in Txns :
    /\ pc[t] \in {"policy", "counters", "decide", "commit"} =>
         reserved[call[t].request] = NoReservation
    /\ pc[t] \in {"decide", "commit"} => \A k \in Kinds : seen[t][k] = counter[BucketOf(t, k)]
    /\ pc[t] = "commit" => \A k \in Kinds : ~WouldExceed(seen[t][k], limits[t][k], call[t].tokens)
    /\ pc[t] \in {"counters", "decide", "commit"} /\ policyLock[call[t].owner] = t =>
         limits[t] = policy[call[t].owner]

\* The tokens reserved in a bucket, numbered within each request.
TokensIn(b) ==
  UNION {{q} \X (1..reserved[q].tokens) : q \in
    {q \in Requests :
       /\ reserved[q] # NoReservation
       /\ \E k \in Kinds : b = Bucket(k, reserved[q].owner, reserved[q].context, reserved[q].day)}}

\* Every counter is the sum of the reservations that fall into its bucket,
\* also around midnight and after rollbacks.
CountersMatchReservations == \A b \in Buckets : counter[b] = Cardinality(TokensIn(b))

\* The bucket whose lock a transaction takes next.
NextKind(t) ==
  CASE pc[t] = "lock_global" -> "global" [] pc[t] = "lock_daily" -> "user_daily"
    [] pc[t] = "lock_monthly" -> "user_monthly" [] OTHER -> "session"
LockSteps == {"lock_global", "lock_daily", "lock_monthly", "lock_session"}

\* The next step of t needs what another transaction has locked: an advisory lock,
\* or the row of its owner's policy.
Waits(t) ==
  \/ pc[t] \in LockSteps /\ advisory[LockId[BucketOf(t, NextKind(t))]] \notin {NoTxn, t}
  \/ /\ pc[t] = "policy" /\ policy[call[t].owner] # NoPolicy
     /\ policyLock[call[t].owner] # NoTxn
  \/ pc[t] = "write_policy" /\ policyLock[call[t].owner] # NoTxn

\* While a transaction has not ended, some such transaction waits for nobody: there
\* is no circle among those that wait for locks.
SomeoneGoesOn ==
  (\E t \in Txns : pc[t] # "done") => \E t \in Txns : pc[t] # "done" /\ ~Waits(t)

\* What a reservation relies on when it is decided, what counters are afterwards,
\* whatever runs beside it, and that the locks it takes stop nobody for good.
BudgetInvariant ==
  TypeOK /\ GlobalLockHeld /\ ReadsStayCurrent /\ CountersMatchReservations /\ SomeoneGoesOn

\* No accepted reservation raises a counter beyond the limit of its owner
\* that is in force, or that was when the transaction looked for a policy
\* (README: reservations are decided on four levels).
WithinLimits ==
  [][\A t \in Txns : \A k \in Kinds :
       result'[t] = "accepted" /\ result[t] = "none" =>
         LET used == counter'[BucketOf(t, k)]
             limit == limits[t][k]
         IN /\ limit # 0 => used <= limit
            /\ limits[t] \in {DefaultLimits, policy[call[t].owner]}]_vars

\* A request is charged once and for good: retries, other owners and
\* rollbacks never change its reservation, and no counter goes down.
ChargedOnce ==
  [][/\ \A q \in Requests : reserved[q] # NoReservation => reserved'[q] = reserved[q]
     /\ \A b \in Buckets : counter'[b] >= counter[b]
     /\ counter' # counter => \E q \in Requests : reserved'[q] # reserved[q]]_vars

\* To its callers the repository is AtomicBudget: a call has begun when it has
\* its date, and has its limits when it has read the policy.
Stage(step) ==
  CASE step \in {"begin", "write_policy", "commit_policy"} -> "new"
    [] step \in {"counters", "decide", "commit"} -> "ready"
    [] step = "done" -> "done"
    [] OTHER -> "open"
Atomic == INSTANCE AtomicBudget WITH stage <- [t \in Txns |-> Stage(pc[t])]

\* Calls that interleave are answered as if each of them had been decided and
\* booked in one step, on the sum of the reservations before it: no two calls
\* together go beyond a limit, and none is refused for what was not reserved
\* (postgres_budget_repository.cpp: reserve).
ImplementsAtomicBudget == Atomic!Spec

\* Transactions never wait for each other in a circle: while one of them has
\* not ended, one can go on, although locks may collide and the policy row is
\* locked under them.
NoDeadlock ==
  (\E t \in Txns : pc[t] # "done") => \E t \in Txns : ENABLED TxnStep(t)
=============================================================================
