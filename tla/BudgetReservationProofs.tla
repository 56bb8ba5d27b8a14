---------------------- MODULE BudgetReservationProofs ----------------------
(***************************************************************************)
(* Proofs about BudgetReservation, for any number of transactions, owners, *)
(* contexts and requests, any limits, and locks that may collide.          *)
(***************************************************************************)
EXTENDS BudgetReservation, FiniteSetTheorems, TLAPS

ReserveSteps == {"begin", "lock_global", "lock_daily", "lock_monthly", "lock_session",
                 "existing", "policy", "counters", "decide", "commit"}
PolicySteps == {"write_policy", "commit_policy"}

\* A transaction takes the steps of its own operation, holds a policy row only
\* from the step that locks it, and works with the default limits otherwise.
Discipline ==
  \A t \in Txns :
    /\ pc[t] \in ReserveSteps => call[t] \in ReserveCalls
    /\ pc[t] \in PolicySteps => call[t] \in PolicyCalls
    /\ \A o \in Owners : policyLock[o] = t =>
         pc[t] \in {"counters", "decide", "commit", "commit_policy"} /\ o = call[t].owner
    /\ pc[t] = "commit_policy" => policyLock[call[t].owner] = t
    /\ pc[t] \in ReserveSteps =>
         limits[t] = DefaultLimits \/ policyLock[call[t].owner] = t

IInv == TypeOK /\ GlobalLockHeld /\ Discipline /\ ReadsStayCurrent

------------------------------------------------------------------------------
(* Buckets and locks. *)

LEMMA BucketType ==
  ASSUME TypeOK, NEW t \in Txns, call[t] \in ReserveCalls, NEW k \in Kinds
  PROVE  BucketOf(t, k) \in Buckets /\ LockId[BucketOf(t, k)] \in DOMAIN advisory
<1>1. call[t].owner \in Owners /\ call[t].context \in Contexts /\ day[t] \in Days
  BY DEF TypeOK, ReserveCalls
<1>2. BucketOf(t, k) \in Buckets
  BY <1>1 DEF BucketOf, Buckets
<1> QED
  BY <1>2 DEF TypeOK

LEMMA GlobalBucket ==
  ASSUME NEW t \in Txns
  PROVE  BucketOf(t, "global") = <<"global">>
  BY DEF BucketOf, Bucket

\* Two transactions are never both past the global lock.
LEMMA Exclusion ==
  ASSUME TypeOK, GlobalLockHeld, NEW t \in Txns, NEW u \in Txns, PastGlobalLock(t), PastGlobalLock(u)
  PROVE  t = u
  BY DEF GlobalLockHeld

LEMMA GotoPc ==
  ASSUME TypeOK, NEW t \in Txns, NEW step \in Steps, Goto(t, step)
  PROVE  /\ pc' \in [Txns -> Steps]
         /\ pc'[t] = step /\ \A u \in Txns \ {t} : pc'[u] = pc[u]
  BY DEF Goto, TypeOK

\* What ends a transaction frees its locks and no other.
LEMMA EndsLocks ==
  ASSUME TypeOK, NEW t \in Txns, NEW answer \in Results, Ends(t, answer)
  PROVE  /\ pc' \in [Txns -> Steps] /\ result' \in [Txns -> Results]
         /\ advisory' \in [{LockId[b] : b \in Buckets} -> Txns \cup {NoTxn}]
         /\ policyLock' \in [Owners -> Txns \cup {NoTxn}]
         /\ pc'[t] = "done" /\ result'[t] = answer
         /\ \A u \in Txns \ {t} : pc'[u] = pc[u] /\ result'[u] = result[u]
         /\ \A l \in DOMAIN advisory : \A u \in Txns \ {t} : advisory'[l] = u <=> advisory[l] = u
         /\ \A o \in Owners : policyLock'[o] # t
         /\ \A o \in Owners : \A u \in Txns \ {t} : policyLock'[o] = u <=> policyLock[o] = u
<1>1. "done" \in Steps
  BY DEF Steps
<1> QED
  BY <1>1, GotoPc, TxnAssumption DEF Ends, TypeOK

------------------------------------------------------------------------------
(* Types. *)

LEMMA WithinRange ==
  ASSUME NEW used \in 0..MaxInt, NEW limit \in Nat, NEW requested \in Nat,
         ~WouldExceed(used, limit, requested)
  PROVE  used + requested \in 0..MaxInt /\ (limit # 0 => used + requested <= limit)
  BY IntAssumption DEF WouldExceed

\* A commit leaves every counter in the range of its column.
LEMMA CommitCounters ==
  ASSUME IInv, NEW t \in Txns, CommitReservation(t)
  PROVE  /\ counter' \in [Buckets -> 0..MaxInt]
         /\ \A k \in Kinds : LET b == BucketOf(t, k) IN
              counter'[b] = counter[b] + call[t].tokens
              /\ (limits[t][k] # 0 => counter'[b] <= limits[t][k])
         /\ \A b \in Buckets : counter'[b] >= counter[b]
<1> USE DEF IInv
<1>1. pc[t] = "commit" /\ call[t] \in ReserveCalls
  BY DEF CommitReservation, Discipline, ReserveSteps
<1>2. call[t].tokens \in Nat
  BY <1>1 DEF ReserveCalls
<1>3. ASSUME NEW k \in Kinds
      PROVE  /\ counter[BucketOf(t, k)] + call[t].tokens \in 0..MaxInt
             /\ limits[t][k] # 0 => counter[BucketOf(t, k)] + call[t].tokens <= limits[t][k]
  <2>1. ~WouldExceed(seen[t][k], limits[t][k], call[t].tokens)
        /\ seen[t][k] = counter[BucketOf(t, k)]
    BY <1>1 DEF ReadsStayCurrent
  <2>2. seen[t][k] \in 0..MaxInt /\ limits[t][k] \in Nat
    BY DEF TypeOK, Limits
  <2> QED
    BY <1>2, <2>1, <2>2, WithinRange
<1>4. counter' = [b \in Buckets |-> IF \E k \in Kinds : b = BucketOf(t, k)
                                    THEN counter[b] + call[t].tokens ELSE counter[b]]
  BY DEF CommitReservation
<1>5. \A k \in Kinds : BucketOf(t, k) \in Buckets
  BY <1>1, BucketType
<1>6. ASSUME NEW b \in Buckets
      PROVE  counter'[b] \in 0..MaxInt /\ counter'[b] >= counter[b]
  <2>1. CASE \E k \in Kinds : b = BucketOf(t, k)
    <3>1. counter'[b] = counter[b] + call[t].tokens
      BY <1>4, <2>1
    <3>2. counter[b] \in 0..MaxInt
      BY DEF TypeOK
    <3> QED
      BY <1>2, <1>3, <2>1, <3>1, <3>2, IntAssumption
  <2>2. CASE ~\E k \in Kinds : b = BucketOf(t, k)
    <3>1. counter'[b] = counter[b] /\ counter[b] \in 0..MaxInt
      BY <1>4, <2>2 DEF TypeOK
    <3> QED
      BY <3>1, IntAssumption
  <2> QED
    BY <2>1, <2>2
<1> QED
  BY <1>3, <1>4, <1>5, <1>6

\* Each step of a transaction keeps the types.
LEMMA StepType ==
  ASSUME IInv, NEW t \in Txns, TxnStep(t) \/ RollBack(t)
  PROVE  TypeOK'
<1> USE DEF IInv
<1>1. CASE ReadDate(t)
  <2>1. pc' \in [Txns -> Steps]
    BY <1>1, GotoPc DEF ReadDate, Steps
  <2> QED
    BY <1>1, <2>1 DEF ReadDate, TypeOK, tables, locks
<1>2. ASSUME NEW step \in ReserveSteps, NEW kind \in Kinds, NEW next \in Steps,
             LockBucket(t, step, kind, next)
      PROVE  TypeOK'
  <2>1. pc' \in [Txns -> Steps]
    BY <1>2, GotoPc DEF LockBucket
  <2>2. advisory' \in [{LockId[b] : b \in Buckets} -> Txns \cup {NoTxn}]
    BY <1>2 DEF LockBucket, TypeOK
  <2> QED
    BY <1>2, <2>1, <2>2 DEF LockBucket, TypeOK, tables
<1>3. CASE LockGlobal(t) \/ LockDaily(t) \/ LockMonthly(t) \/ LockSession(t)
  BY <1>2, <1>3
  DEF LockGlobal, LockDaily, LockMonthly, LockSession, ReserveSteps, Kinds, Steps
<1>4. CASE FindExisting(t)
  <2>1. CASE Goto(t, "policy") /\ UNCHANGED <<result, locks>>
    <3>1. pc' \in [Txns -> Steps]
      BY <2>1, GotoPc DEF Steps
    <3> QED
      BY <1>4, <2>1, <3>1 DEF FindExisting, TypeOK, tables, locks
  <2>2. CASE \E answer \in Results : Ends(t, answer)
    BY <1>4, <2>2, EndsLocks DEF FindExisting, TypeOK, tables
  <2> QED
    BY <1>4, <2>1, <2>2 DEF FindExisting, Results
<1>5. CASE ReadPolicy(t)
  <2>1. pc' \in [Txns -> Steps]
    BY <1>5, GotoPc DEF ReadPolicy, Steps
  <2>2. call[t] \in ReserveCalls
    BY <1>5 DEF ReadPolicy, Discipline, ReserveSteps
  <2>3. call[t].owner \in Owners
    BY <2>2 DEF ReserveCalls
  <2>4. limits' \in [Txns -> Limits]
    BY <1>5, <2>3 DEF ReadPolicy, TypeOK
  <2>5. policyLock' \in [Owners -> Txns \cup {NoTxn}]
    BY <1>5, <2>3 DEF ReadPolicy, TypeOK
  <2> QED
    BY <1>5, <2>1, <2>4, <2>5 DEF ReadPolicy, TypeOK, tables
<1>6. CASE ReadCounters(t)
  <2>1. pc' \in [Txns -> Steps]
    BY <1>6, GotoPc DEF ReadCounters, Steps
  <2>2. call[t] \in ReserveCalls
    BY <1>6 DEF ReadCounters, Discipline, ReserveSteps
  <2>3. [k \in Kinds |-> counter[BucketOf(t, k)]] \in [Kinds -> 0..MaxInt]
    BY <2>2, BucketType DEF TypeOK
  <2>4. seen' \in [Txns -> [Kinds -> 0..MaxInt]]
    BY <1>6, <2>3 DEF ReadCounters, TypeOK
  <2> QED
    BY <1>6, <2>1, <2>4 DEF ReadCounters, TypeOK, tables, locks
<1>7. CASE Decide(t)
  <2>1. CASE Goto(t, "commit") /\ UNCHANGED <<result, locks>>
    <3>1. pc' \in [Txns -> Steps]
      BY <2>1, GotoPc DEF Steps
    <3> QED
      BY <1>7, <2>1, <3>1 DEF Decide, TypeOK, tables, locks
  <2>2. CASE Ends(t, "exceeded")
    BY <1>7, <2>2, EndsLocks DEF Decide, TypeOK, tables, Results
  <2> QED
    BY <1>7, <2>1, <2>2 DEF Decide
<1>8. CASE CommitReservation(t)
  <2>1. pc[t] = "commit" /\ call[t] \in ReserveCalls
    BY <1>8 DEF CommitReservation, Discipline, ReserveSteps
  <2>2. [owner |-> call[t].owner, context |-> call[t].context,
         tokens |-> call[t].tokens, day |-> day[t]] \in Reservations
    BY <2>1 DEF ReserveCalls, Reservations, TypeOK
  <2>3. reserved' \in [Requests -> Reservations \cup {NoReservation}]
    BY <1>8, <2>2 DEF CommitReservation, TypeOK
  <2>4. Ends(t, "accepted") /\ "accepted" \in Results
    BY <1>8 DEF CommitReservation, Results
  <2> QED
    BY <1>8, <2>3, <2>4, EndsLocks, CommitCounters DEF CommitReservation, TypeOK
<1>9. CASE WritePolicy(t)
  <2>1. pc' \in [Txns -> Steps]
    BY <1>9, GotoPc DEF WritePolicy, Steps
  <2> QED
    BY <1>9, <2>1 DEF WritePolicy, TypeOK, tables
<1>10. CASE CommitPolicy(t)
  <2>1. call[t] \in PolicyCalls
    BY <1>10 DEF CommitPolicy, Discipline, PolicySteps
  <2>2. policy' \in [Owners -> Limits \cup {NoPolicy}]
    BY <1>10, <2>1 DEF CommitPolicy, TypeOK, PolicyCalls
  <2>3. Ends(t, "written") /\ "written" \in Results
    BY <1>10 DEF CommitPolicy, Results
  <2> QED
    BY <1>10, <2>2, <2>3, EndsLocks DEF CommitPolicy, TypeOK
<1>11. CASE RollBack(t)
  BY <1>11, EndsLocks DEF RollBack, TypeOK, tables, Results
<1> QED
  BY <1>1, <1>3, <1>4, <1>5, <1>6, <1>7, <1>8, <1>9, <1>10, <1>11 DEF TxnStep

------------------------------------------------------------------------------
(* Locks. *)

\* A step of t leaves the other transactions and the locks they hold alone.
OnlyMoves(t) ==
  /\ \A u \in Txns \ {t} :
       /\ pc'[u] = pc[u] /\ result'[u] = result[u] /\ limits'[u] = limits[u]
       /\ seen'[u] = seen[u] /\ day'[u] = day[u]
       /\ \A l \in DOMAIN advisory : advisory[l] = u => advisory'[l] = u
       /\ \A o \in Owners : policyLock'[o] = u <=> policyLock[o] = u
  /\ call' = call

LEMMA EndsOnlyMoves ==
  ASSUME TypeOK, NEW t \in Txns, NEW answer \in Results, Ends(t, answer),
         call' = call, day' = day, limits' = limits, seen' = seen
  PROVE  OnlyMoves(t)
<1>1. /\ \A u \in Txns \ {t} : pc'[u] = pc[u] /\ result'[u] = result[u]
      /\ \A l \in DOMAIN advisory : \A u \in Txns \ {t} : advisory'[l] = u <=> advisory[l] = u
      /\ \A o \in Owners : \A u \in Txns \ {t} : policyLock'[o] = u <=> policyLock[o] = u
  BY EndsLocks
<1> QED
  BY <1>1 DEF OnlyMoves

LEMMA GotoOnlyMoves ==
  ASSUME TypeOK, NEW t \in Txns, NEW step \in Steps, Goto(t, step),
         call' = call, day' = day, limits' = limits, seen' = seen,
         result' = result, advisory' = advisory, policyLock' = policyLock
  PROVE  OnlyMoves(t)
BY GotoPc DEF OnlyMoves

LEMMA LockOnlyMoves ==
  ASSUME TypeOK, NEW t \in Txns, NEW step, NEW kind, NEW next \in Steps,
         LockBucket(t, step, kind, next)
  PROVE  OnlyMoves(t)
<1>1. \A u \in Txns \ {t} : pc'[u] = pc[u]
  BY GotoPc DEF LockBucket
<1>2. \A l \in DOMAIN advisory : \A u \in Txns \ {t} : advisory[l] = u => advisory'[l] = u
  BY TxnAssumption DEF LockBucket, TypeOK
<1>3. /\ policyLock' = policyLock /\ call' = call /\ day' = day /\ limits' = limits
      /\ seen' = seen /\ result' = result
  BY DEF LockBucket
<1> QED
  BY <1>1, <1>2, <1>3 DEF OnlyMoves

LEMMA StepOnlyMoves ==
  ASSUME IInv, NEW t \in Txns, TxnStep(t) \/ RollBack(t)
  PROVE  OnlyMoves(t)
<1>0. TypeOK
  BY DEF IInv
<1>1. CASE ReadDate(t)
  <2>1. \A u \in Txns \ {t} : pc'[u] = pc[u] /\ day'[u] = day[u]
    BY <1>0, <1>1, GotoPc DEF ReadDate, Steps, TypeOK
  <2> QED
    BY <1>1, <2>1 DEF ReadDate, OnlyMoves, locks
<1>3. CASE LockGlobal(t) \/ LockDaily(t) \/ LockMonthly(t) \/ LockSession(t)
  BY <1>0, <1>3, LockOnlyMoves
  DEF LockGlobal, LockDaily, LockMonthly, LockSession, Steps
<1>4. CASE FindExisting(t)
  <2>0. call' = call /\ day' = day /\ limits' = limits /\ seen' = seen
    BY <1>4 DEF FindExisting
  <2>1. CASE Goto(t, "policy") /\ UNCHANGED <<result, locks>>
    BY <1>0, <2>0, <2>1, GotoOnlyMoves DEF locks, Steps
  <2>2. CASE Ends(t, "idempotent") \/ Ends(t, "unavailable")
    BY <1>0, <2>0, <2>2, EndsOnlyMoves DEF Results
  <2> QED
    BY <1>4, <2>1, <2>2 DEF FindExisting
<1>5. CASE ReadPolicy(t)
  <2>1. \A u \in Txns \ {t} : pc'[u] = pc[u]
    BY <1>0, <1>5, GotoPc DEF ReadPolicy, Steps
  <2>2. /\ call' = call /\ day' = day /\ seen' = seen /\ result' = result /\ advisory' = advisory
        /\ \A u \in Txns \ {t} : limits'[u] = limits[u]
    BY <1>0, <1>5 DEF ReadPolicy, TypeOK
  <2>3. \A o \in Owners : \A u \in Txns \ {t} : policyLock'[o] = u <=> policyLock[o] = u
    BY <1>0, <1>5, TxnAssumption DEF ReadPolicy, TypeOK
  <2> QED
    BY <2>1, <2>2, <2>3 DEF OnlyMoves
<1>6. CASE ReadCounters(t)
  <2>1. \A u \in Txns \ {t} : pc'[u] = pc[u] /\ seen'[u] = seen[u]
    BY <1>0, <1>6, GotoPc DEF ReadCounters, Steps, TypeOK
  <2> QED
    BY <1>6, <2>1 DEF ReadCounters, OnlyMoves, locks
<1>7. CASE Decide(t)
  <2>0. call' = call /\ day' = day /\ limits' = limits /\ seen' = seen
    BY <1>7 DEF Decide
  <2>1. CASE Goto(t, "commit") /\ UNCHANGED <<locks, result>>
    BY <1>0, <2>0, <2>1, GotoOnlyMoves DEF locks, Steps
  <2>2. CASE Ends(t, "exceeded")
    BY <1>0, <2>0, <2>2, EndsOnlyMoves DEF Results
  <2> QED
    BY <1>7, <2>1, <2>2 DEF Decide
<1>8. CASE CommitReservation(t) \/ CommitPolicy(t) \/ RollBack(t)
  <2>1. PICK answer \in Results : Ends(t, answer)
    BY <1>8 DEF CommitReservation, CommitPolicy, RollBack, Results
  <2>2. call' = call /\ day' = day /\ limits' = limits /\ seen' = seen
    BY <1>8 DEF CommitReservation, CommitPolicy, RollBack
  <2> QED
    BY <1>0, <2>1, <2>2, EndsOnlyMoves
<1>9. CASE WritePolicy(t)
  <2>1. \A u \in Txns \ {t} : pc'[u] = pc[u]
    BY <1>0, <1>9, GotoPc DEF WritePolicy, Steps
  <2>2. \A o \in Owners : \A u \in Txns \ {t} : policyLock'[o] = u <=> policyLock[o] = u
    BY <1>0, <1>9, TxnAssumption DEF WritePolicy, TypeOK
  <2> QED
    BY <1>9, <2>1, <2>2 DEF WritePolicy, OnlyMoves
<1> QED
  BY <1>1, <1>3, <1>4, <1>5, <1>6, <1>7, <1>8, <1>9 DEF TxnStep

------------------------------------------------------------------------------
(* The inductive invariant. *)

LEMMA StepGlobalLock ==
  ASSUME IInv, NEW t \in Txns, TxnStep(t) \/ RollBack(t)
  PROVE  GlobalLockHeld'
<1>0. TypeOK /\ GlobalLockHeld /\ Discipline
  BY DEF IInv
<1>1. ASSUME NEW u \in Txns, u # t, PastGlobalLock(u)'
      PROVE  advisory'[GlobalLock] = u
  <2>1. PastGlobalLock(u) /\ advisory[GlobalLock] = u
    BY <1>0, <1>1, StepOnlyMoves DEF OnlyMoves, PastGlobalLock, GlobalLockHeld
  <2>2. GlobalLock \in DOMAIN advisory
    <3>1. call[u] \in ReserveCalls
      BY <1>0, <2>1 DEF PastGlobalLock, Discipline, ReserveSteps
    <3>2. BucketOf(u, "global") = <<"global">> /\ LockId[BucketOf(u, "global")] \in DOMAIN advisory
      BY <1>0, <3>1, GlobalBucket, BucketType DEF Kinds
    <3> QED
      BY <3>2 DEF GlobalLock
  <2> QED
    BY <1>1, <2>1, <2>2, StepOnlyMoves DEF OnlyMoves
<1>2. ASSUME PastGlobalLock(t)'
      PROVE  advisory'[GlobalLock] = t
  <2>0. ASSUME NEW answer, Ends(t, answer)
        PROVE  FALSE
    BY <1>0, <1>2, <2>0 DEF Ends, Goto, PastGlobalLock, TypeOK
  <2>1. CASE LockGlobal(t)
    BY <1>0, <2>1, GlobalBucket, BucketType
    DEF LockGlobal, LockBucket, GlobalLock, TypeOK, Discipline, ReserveSteps, Kinds
  <2>2. ASSUME NEW step \in {"lock_daily", "lock_monthly", "lock_session"},
               NEW kind \in Kinds, NEW next, LockBucket(t, step, kind, next)
        PROVE  advisory'[GlobalLock] = t
    <3>1. PastGlobalLock(t)
      BY <2>2 DEF LockBucket, PastGlobalLock
    <3>2. advisory[GlobalLock] = t
      BY <1>0, <3>1 DEF GlobalLockHeld
    <3> QED
      BY <1>0, <2>2, <3>2 DEF LockBucket, TypeOK
  <2>3. CASE LockDaily(t) \/ LockMonthly(t) \/ LockSession(t)
    BY <2>2, <2>3 DEF LockDaily, LockMonthly, LockSession, Kinds
  <2>4. CASE ReadDate(t) \/ WritePolicy(t)
    BY <1>0, <1>2, <2>4 DEF ReadDate, WritePolicy, Goto, PastGlobalLock, TypeOK
  <2>5. CASE FindExisting(t) \/ ReadPolicy(t) \/ ReadCounters(t) \/ Decide(t)
    <3>1. PastGlobalLock(t)
      BY <2>5 DEF FindExisting, ReadPolicy, ReadCounters, Decide, PastGlobalLock
    <3>2. advisory' = advisory
      BY <2>0, <2>5 DEF FindExisting, ReadPolicy, ReadCounters, Decide, locks
    <3> QED
      BY <1>0, <3>1, <3>2 DEF GlobalLockHeld
  <2>6. CASE CommitReservation(t) \/ CommitPolicy(t) \/ RollBack(t)
    BY <2>0, <2>6 DEF CommitReservation, CommitPolicy, RollBack
  <2> QED
    BY <2>1, <2>3, <2>4, <2>5, <2>6 DEF TxnStep
<1>3. GlobalLock' = GlobalLock
  BY DEF GlobalLock
<1> QED
  BY <1>1, <1>2, <1>3 DEF GlobalLockHeld

\* The discipline of one transaction.
Disciplined(t) ==
  /\ pc[t] \in ReserveSteps => call[t] \in ReserveCalls
  /\ pc[t] \in PolicySteps => call[t] \in PolicyCalls
  /\ \A o \in Owners : policyLock[o] = t =>
       pc[t] \in {"counters", "decide", "commit", "commit_policy"} /\ o = call[t].owner
  /\ pc[t] = "commit_policy" => policyLock[call[t].owner] = t
  /\ pc[t] \in ReserveSteps =>
       limits[t] = DefaultLimits \/ policyLock[call[t].owner] = t

\* A step that takes no lock of a policy and stays within its operation.
LEMMA GotoDisciplined ==
  ASSUME TypeOK, NEW t \in Txns, Disciplined(t), NEW step \in Steps, Goto(t, step),
         pc[t] \in ReserveSteps, step \in ReserveSteps,
         pc[t] \in {"counters", "decide", "commit"} => step \in {"counters", "decide", "commit"},
         call' = call, limits' = limits, policyLock' = policyLock
  PROVE  Disciplined(t)'
<1>1. pc'[t] = step
  BY GotoPc
<1>2. step \notin PolicySteps /\ step # "commit_policy"
  BY DEF ReserveSteps, PolicySteps
<1>3. \A o \in Owners : policyLock[o] = t => step \in {"counters", "decide", "commit"} /\ o = call[t].owner
  BY DEF Disciplined, ReserveSteps
<1> QED
  BY <1>1, <1>2, <1>3 DEF Disciplined

LEMMA EndsDisciplined ==
  ASSUME TypeOK, NEW t \in Txns, NEW answer \in Results, Ends(t, answer)
  PROVE  Disciplined(t)'
BY EndsLocks DEF Disciplined, ReserveSteps, PolicySteps

LEMMA StepDiscipline ==
  ASSUME IInv, NEW t \in Txns, TxnStep(t) \/ RollBack(t)
  PROVE  Discipline'
<1>0. TypeOK /\ Disciplined(t)
  BY DEF IInv, Discipline, Disciplined
<1>1. ASSUME NEW u \in Txns, u # t
      PROVE  Disciplined(u)'
  <2>1. Disciplined(u)
    BY DEF IInv, Discipline, Disciplined
  <2>2. /\ pc'[u] = pc[u] /\ limits'[u] = limits[u] /\ call' = call
        /\ \A o \in Owners : policyLock'[o] = u <=> policyLock[o] = u
    BY <1>1, StepOnlyMoves DEF OnlyMoves
  <2>3. call[u].owner \in Owners
    BY <1>0, CallAssumption DEF TypeOK, ReserveCalls, PolicyCalls
  <2> QED
    BY <2>1, <2>2, <2>3 DEF Disciplined
<1>2. Disciplined(t)'
  <2>1. CASE ReadDate(t)
    BY <1>0, <2>1, GotoDisciplined DEF ReadDate, ReserveSteps, Steps, locks
  <2>2. ASSUME NEW step \in {"lock_global", "lock_daily", "lock_monthly", "lock_session"},
               NEW kind, NEW next \in {"lock_daily", "lock_monthly", "lock_session", "existing"},
               LockBucket(t, step, kind, next)
        PROVE  Disciplined(t)'
    BY <1>0, <2>2, GotoDisciplined DEF LockBucket, ReserveSteps, Steps
  <2>3. CASE LockGlobal(t) \/ LockDaily(t) \/ LockMonthly(t) \/ LockSession(t)
    BY <2>2, <2>3 DEF LockGlobal, LockDaily, LockMonthly, LockSession
  <2>4. CASE FindExisting(t)
    <3>1. CASE Goto(t, "policy") /\ UNCHANGED <<result, locks>>
      BY <1>0, <2>4, <3>1, GotoDisciplined DEF FindExisting, ReserveSteps, Steps, locks
    <3>2. CASE Ends(t, "idempotent") \/ Ends(t, "unavailable")
      BY <1>0, <3>2, EndsDisciplined DEF Results
    <3> QED
      BY <2>4, <3>1, <3>2 DEF FindExisting
  <2>5. CASE ReadPolicy(t)
    <3>1. pc[t] = "policy" /\ call' = call /\ call[t] \in ReserveCalls
      BY <1>0, <2>5 DEF ReadPolicy, Disciplined, ReserveSteps
    <3>2. pc'[t] = "counters"
      BY <1>0, <2>5, GotoPc DEF ReadPolicy, Steps
    <3>3. call[t].owner \in Owners
      BY <3>1 DEF ReserveCalls
    <3>4. \A o \in Owners : policyLock[o] # t
      BY <1>0, <3>1 DEF Disciplined
    <3>5. \A o \in Owners : policyLock'[o] = t => o = call[t].owner
      BY <1>0, <2>5, <3>3, <3>4 DEF ReadPolicy, TypeOK
    <3>6. limits'[t] = DefaultLimits \/ policyLock'[call[t].owner] = t
      <4>1. limits[t] = DefaultLimits
        BY <1>0, <3>1, <3>3, <3>4 DEF Disciplined, ReserveSteps
      <4> QED
        BY <1>0, <2>5, <3>3, <4>1 DEF ReadPolicy, TypeOK
    <3> QED
      BY <3>1, <3>2, <3>5, <3>6 DEF Disciplined, ReserveSteps, PolicySteps
  <2>6. CASE ReadCounters(t)
    BY <1>0, <2>6, GotoDisciplined DEF ReadCounters, ReserveSteps, Steps, locks
  <2>7. CASE Decide(t)
    <3>1. CASE Goto(t, "commit") /\ UNCHANGED <<locks, result>>
      BY <1>0, <2>7, <3>1, GotoDisciplined DEF Decide, ReserveSteps, Steps, locks
    <3>2. CASE Ends(t, "exceeded")
      BY <1>0, <3>2, EndsDisciplined DEF Results
    <3> QED
      BY <2>7, <3>1, <3>2 DEF Decide
  <2>8. CASE CommitReservation(t) \/ CommitPolicy(t) \/ RollBack(t)
    <3>1. PICK answer \in Results : Ends(t, answer)
      BY <2>8 DEF CommitReservation, CommitPolicy, RollBack, Results
    <3> QED
      BY <1>0, <3>1, EndsDisciplined
  <2>9. CASE WritePolicy(t)
    <3>1. pc[t] = "write_policy" /\ call' = call /\ call[t] \in PolicyCalls
      BY <1>0, <2>9 DEF WritePolicy, Disciplined, PolicySteps
    <3>2. pc'[t] = "commit_policy"
      BY <1>0, <2>9, GotoPc DEF WritePolicy, Steps
    <3>3. call[t].owner \in Owners
      BY <3>1 DEF PolicyCalls
    <3>4. \A o \in Owners : policyLock[o] # t
      BY <1>0, <3>1 DEF Disciplined
    <3>5. policyLock'[call[t].owner] = t
          /\ \A o \in Owners : policyLock'[o] = t => o = call[t].owner
      BY <1>0, <2>9, <3>3, <3>4 DEF WritePolicy, TypeOK
    <3> QED
      BY <3>1, <3>2, <3>5 DEF Disciplined, ReserveSteps, PolicySteps
  <2> QED
    BY <2>1, <2>3, <2>4, <2>5, <2>6, <2>7, <2>8, <2>9 DEF TxnStep
<1>3. \A u \in Txns : Disciplined(u)'
  BY <1>1, <1>2
<1> QED
  BY <1>3 DEF Discipline, Disciplined

\* What ReadsStayCurrent says of one transaction.
Current(t) ==
  /\ pc[t] \in {"policy", "counters", "decide", "commit"} =>
       reserved[call[t].request] = NoReservation
  /\ pc[t] \in {"decide", "commit"} => \A k \in Kinds : seen[t][k] = counter[BucketOf(t, k)]
  /\ pc[t] = "commit" => \A k \in Kinds : ~WouldExceed(seen[t][k], limits[t][k], call[t].tokens)
  /\ pc[t] \in {"counters", "decide", "commit"} /\ policyLock[call[t].owner] = t =>
       limits[t] = policy[call[t].owner]

\* What a step writes is protected by the locks of the transaction that
\* writes it: nothing another transaction has read changes.
LEMMA StepKeepsReads ==
  ASSUME IInv, NEW t \in Txns, TxnStep(t) \/ RollBack(t), NEW u \in Txns, u # t
  PROVE  Current(u)'
<1>0. TypeOK /\ GlobalLockHeld /\ Current(u) /\ call' = call /\ call[u].owner \in Owners
  BY StepOnlyMoves, CallAssumption
  DEF IInv, ReadsStayCurrent, Current, OnlyMoves, TypeOK, ReserveCalls, PolicyCalls
<1>1. /\ pc'[u] = pc[u] /\ limits'[u] = limits[u] /\ seen'[u] = seen[u] /\ day'[u] = day[u]
      /\ \A o \in Owners : policyLock'[o] = u <=> policyLock[o] = u
  BY StepOnlyMoves DEF OnlyMoves
<1>2. \A k \in Kinds : BucketOf(u, k)' = BucketOf(u, k)
  BY <1>0, <1>1 DEF BucketOf, Bucket
<1>3. PastGlobalLock(u) => reserved' = reserved /\ counter' = counter
  <2>1. CASE CommitReservation(t)
    <3>1. PastGlobalLock(t)
      BY <2>1 DEF CommitReservation, PastGlobalLock
    <3>2. ~PastGlobalLock(u)
      BY <1>0, <3>1, Exclusion
    <3> QED
      BY <3>2
  <2>2. CASE ~CommitReservation(t)
    BY <2>2 DEF TxnStep, RollBack, ReadDate, LockGlobal, LockDaily, LockMonthly, LockSession, LockBucket,
                FindExisting, ReadPolicy, ReadCounters, Decide, WritePolicy, CommitPolicy, tables
  <2> QED
    BY <2>1, <2>2
<1>4. policyLock[call[u].owner] = u => policy'[call[u].owner] = policy[call[u].owner]
  <2>1. CASE CommitPolicy(t)
    <3>1. policyLock[call[t].owner] = t
      BY <2>1 DEF CommitPolicy, IInv, Discipline
    <3>2. policy' = [policy EXCEPT ![call[t].owner] = call[t].limits]
      BY <2>1 DEF CommitPolicy
    <3> QED
      BY <1>0, <3>1, <3>2 DEF TypeOK
  <2>2. CASE ~CommitPolicy(t)
    BY <2>2 DEF TxnStep, RollBack, ReadDate, LockGlobal, LockDaily, LockMonthly, LockSession, LockBucket,
                FindExisting, ReadPolicy, ReadCounters, Decide, WritePolicy, CommitReservation, tables
  <2> QED
    BY <2>1, <2>2
<1>5. pc[u] \in {"policy", "counters", "decide", "commit"} => reserved' = reserved /\ counter' = counter
  BY <1>3 DEF PastGlobalLock
<1>6. pc'[u] \in {"policy", "counters", "decide", "commit"} =>
        reserved'[call'[u].request] = NoReservation
  BY <1>0, <1>1, <1>5 DEF Current
<1>7. pc'[u] \in {"decide", "commit"} =>
        \A k \in Kinds : seen'[u][k] = counter'[BucketOf(u, k)']
  BY <1>0, <1>1, <1>2, <1>5 DEF Current
<1>8. pc'[u] = "commit" =>
        \A k \in Kinds : ~WouldExceed(seen'[u][k], limits'[u][k], call'[u].tokens)
  BY <1>0, <1>1 DEF Current
<1>9. pc'[u] \in {"counters", "decide", "commit"} /\ policyLock'[call'[u].owner] = u =>
        limits'[u] = policy'[call'[u].owner]
  BY <1>0, <1>1, <1>4 DEF Current
<1> QED
  BY <1>6, <1>7, <1>8, <1>9 DEF Current, WouldExceed

\* What the transaction itself has read is up to date when it reads it.
LEMMA StepReads ==
  ASSUME IInv, NEW t \in Txns, TxnStep(t) \/ RollBack(t)
  PROVE  Current(t)'
<1>0. TypeOK /\ Current(t) /\ Disciplined(t)
  BY DEF IInv, ReadsStayCurrent, Current, Discipline, Disciplined
<1>1. ASSUME NEW step \in Steps, Goto(t, step),
             step \notin {"policy", "counters", "decide", "commit"}
      PROVE  Current(t)'
  BY <1>0, <1>1, GotoPc DEF Current
<1>2. CASE ReadDate(t)
  BY <1>1, <1>2 DEF ReadDate, Steps
<1>3. CASE LockGlobal(t) \/ LockDaily(t) \/ LockMonthly(t) \/ LockSession(t)
  BY <1>1, <1>3 DEF LockGlobal, LockDaily, LockMonthly, LockSession, LockBucket, Steps
<1>4. CASE FindExisting(t)
  <2>1. CASE reserved[call[t].request] = NoReservation /\ Goto(t, "policy")
    <3>1. pc'[t] = "policy" /\ reserved' = reserved /\ call' = call
      BY <1>0, <1>4, <2>1, GotoPc DEF FindExisting, Steps, tables
    <3> QED
      BY <2>1, <3>1 DEF Current
  <2>2. CASE Ends(t, "idempotent") \/ Ends(t, "unavailable")
    BY <1>1, <2>2 DEF Ends, Steps
  <2> QED
    BY <1>4, <2>1, <2>2 DEF FindExisting
<1>5. CASE ReadPolicy(t)
  <2>1. pc[t] = "policy" /\ pc'[t] = "counters" /\ reserved' = reserved /\ call' = call /\ policy' = policy
    BY <1>0, <1>5, GotoPc DEF ReadPolicy, Steps, tables
  <2>2. call[t] \in ReserveCalls /\ call[t].owner \in Owners
    BY <1>0, <2>1 DEF Disciplined, ReserveSteps, ReserveCalls
  <2>3. policyLock[call[t].owner] # t
    BY <1>0, <2>1, <2>2 DEF Disciplined
  <2>4. policyLock'[call[t].owner] = t => limits'[t] = policy[call[t].owner]
    BY <1>0, <1>5, <2>2, <2>3 DEF ReadPolicy, TypeOK
  <2> QED
    BY <1>0, <2>1, <2>4 DEF Current
<1>6. CASE ReadCounters(t)
  <2>1. pc[t] = "counters" /\ pc'[t] = "decide"
    BY <1>0, <1>6, GotoPc DEF ReadCounters, Steps
  <2>2. /\ reserved' = reserved /\ counter' = counter /\ policy' = policy /\ policyLock' = policyLock
        /\ call' = call /\ limits' = limits /\ day' = day
    BY <1>6 DEF ReadCounters, tables, locks
  <2>3. \A k \in Kinds : BucketOf(t, k)' = BucketOf(t, k)
    BY <2>2 DEF BucketOf, Bucket
  <2>4. \A k \in Kinds : seen'[t][k] = counter[BucketOf(t, k)]
    BY <1>0, <1>6 DEF ReadCounters, TypeOK
  <2> QED
    BY <1>0, <2>1, <2>2, <2>3, <2>4 DEF Current
<1>7. CASE Decide(t)
  <2>1. CASE Ends(t, "exceeded")
    BY <1>1, <2>1 DEF Ends, Steps
  <2>2. CASE /\ ~\E k \in Kinds : WouldExceed(seen[t][k], limits[t][k], call[t].tokens)
             /\ Goto(t, "commit") /\ UNCHANGED <<locks, result>>
    <3>1. pc[t] = "decide" /\ pc'[t] = "commit"
      BY <1>0, <1>7, <2>2, GotoPc DEF Decide, Steps
    <3>2. /\ reserved' = reserved /\ counter' = counter /\ policy' = policy /\ policyLock' = policyLock
          /\ call' = call /\ limits' = limits /\ day' = day /\ seen' = seen
      BY <1>7, <2>2 DEF Decide, tables, locks
    <3>3. \A k \in Kinds : BucketOf(t, k)' = BucketOf(t, k)
      BY <3>2 DEF BucketOf, Bucket
    <3>4. \A k \in Kinds : ~WouldExceed(seen'[t][k], limits'[t][k], call'[t].tokens)
      BY <2>2, <3>2
    <3> QED
      BY <1>0, <3>1, <3>2, <3>3, <3>4 DEF Current, WouldExceed
  <2> QED
    BY <1>7, <2>1, <2>2 DEF Decide
<1>8. CASE CommitReservation(t) \/ CommitPolicy(t) \/ RollBack(t)
  BY <1>1, <1>8 DEF CommitReservation, CommitPolicy, RollBack, Ends, Steps
<1>9. CASE WritePolicy(t)
  BY <1>1, <1>9 DEF WritePolicy, Steps
<1> QED
  BY <1>2, <1>3, <1>4, <1>5, <1>6, <1>7, <1>8, <1>9 DEF TxnStep

LEMMA InitIInv ==
  ASSUME Init
  PROVE  IInv
<1>1. call \in [Txns -> Calls]
  BY DEF Init
<1>2. TypeOK
  <2>1. counter \in [Buckets -> 0..MaxInt] /\ seen \in [Txns -> [Kinds -> 0..MaxInt]]
    BY IntAssumption DEF Init
  <2>2. today \in Days /\ day \in [Txns -> Days]
    BY ClockAssumption DEF Init, Days
  <2>3. pc \in [Txns -> Steps] /\ result \in [Txns -> Results]
    BY DEF Init, Steps, Results
  <2>4. limits \in [Txns -> Limits]
    BY LimitAssumption DEF Init
  <2> QED
    BY <1>1, <2>1, <2>2, <2>3, <2>4 DEF Init, TypeOK
<1>3. ASSUME NEW t \in Txns
      PROVE  Disciplined(t) /\ ~PastGlobalLock(t) /\ Current(t)
  <2>1. call[t] \in ReserveCalls \cup PolicyCalls
    BY <1>1, CallAssumption
  <2>2. pc[t] = IF call[t].op = "reserve" THEN "begin" ELSE "write_policy"
    BY DEF Init
  <2>3. CASE call[t] \in ReserveCalls
    <3>1. pc[t] = "begin"
      BY <2>2, <2>3 DEF ReserveCalls
    <3> QED
      BY <2>3, <3>1, TxnAssumption
      DEF Init, Disciplined, PastGlobalLock, Current, ReserveSteps, PolicySteps
  <2>4. CASE call[t] \in PolicyCalls
    <3>1. pc[t] = "write_policy"
      BY <2>2, <2>4 DEF PolicyCalls
    <3> QED
      BY <2>4, <3>1, TxnAssumption
      DEF Init, Disciplined, PastGlobalLock, Current, ReserveSteps, PolicySteps
  <2> QED
    BY <2>1, <2>3, <2>4
<1> QED
  BY <1>2, <1>3
  DEF IInv, GlobalLockHeld, Discipline, Disciplined, ReadsStayCurrent, Current

LEMMA NextIInv ==
  ASSUME IInv, [Next]_vars
  PROVE  IInv'
<1>1. ASSUME NEW t \in Txns, TxnStep(t) \/ RollBack(t)
      PROVE  IInv'
  <2>1. TypeOK' /\ GlobalLockHeld' /\ Discipline'
    BY <1>1, StepType, StepGlobalLock, StepDiscipline
  <2>2. \A u \in Txns : Current(u)'
    BY <1>1, StepReads, StepKeepsReads
  <2>3. ReadsStayCurrent'
    BY <2>2 DEF ReadsStayCurrent, Current
  <2> QED
    BY <2>1, <2>3 DEF IInv
<1>2. ASSUME /\ UNCHANGED <<tables, locks, pc, call, day, limits, seen, result>>
             /\ today' \in Days
      PROVE  IInv'
  <2>1. \A t \in Txns, k \in Kinds : BucketOf(t, k)' = BucketOf(t, k)
    BY <1>2 DEF BucketOf, Bucket
  <2>2. TypeOK'
    BY <1>2 DEF IInv, TypeOK, tables, locks
  <2>3. GlobalLockHeld' /\ Discipline'
    BY <1>2 DEF IInv, GlobalLockHeld, PastGlobalLock, GlobalLock, Discipline, tables, locks
  <2>4. ReadsStayCurrent'
    BY <1>2, <2>1 DEF IInv, ReadsStayCurrent, WouldExceed, tables, locks
  <2> QED
    BY <2>2, <2>3, <2>4 DEF IInv
<1>3. CASE Midnight
  <2>1. today' \in Days
    BY <1>3, ClockAssumption DEF IInv, TypeOK, Midnight, Days
  <2> QED
    BY <1>2, <1>3, <2>1 DEF Midnight
<1>4. CASE UNCHANGED vars
  <2>1. today' \in Days
    BY <1>4 DEF IInv, TypeOK, vars
  <2> QED
    BY <1>2, <1>4, <2>1 DEF vars
<1> QED
  BY <1>1, <1>3, <1>4 DEF Next

LEMMA IInvAlways == Spec => []IInv
<1>1. Init => IInv
  BY InitIInv
<1>2. IInv /\ [Next]_vars => IInv'
  BY NextIInv
<1> QED
  BY <1>1, <1>2, PTL DEF Spec

------------------------------------------------------------------------------
(* The theorems. *)

\* The tables keep their shape, and a counter never leaves the range of its
\* column however large the reservations are (wouldExceed's guard against
\* overflow).
THEOREM TypeCorrect == Spec => []TypeOK
<1>1. IInv => TypeOK
  BY DEF IInv
<1> QED
  BY <1>1, IInvAlways, PTL

\* reserve calls exclude each other from their first advisory lock on, even
\* when the keys of several buckets hash to one lock (lockBucket).
THEOREM LockCorrect == Spec => []GlobalLockHeld
<1>1. IInv => GlobalLockHeld
  BY DEF IInv
<1> QED
  BY <1>1, IInvAlways, PTL

\* What reserve read before deciding is still true when it commits.
THEOREM ReadsCorrect == Spec => []ReadsStayCurrent
<1>1. IInv => ReadsStayCurrent
  BY DEF IInv
<1> QED
  BY <1>1, IInvAlways, PTL

\* Only the commit of a reservation is answered with "accepted".
LEMMA AcceptedCommits ==
  ASSUME IInv, [Next]_vars, NEW t \in Txns, result'[t] = "accepted", result[t] = "none"
  PROVE  CommitReservation(t)
<1>0. TypeOK
  BY DEF IInv
<1>1. result' # result
  OBVIOUS
<1>2. PICK u \in Txns : TxnStep(u) \/ RollBack(u)
  BY <1>1 DEF Next, vars, Midnight
<1>3. u = t
  BY <1>2, StepOnlyMoves DEF OnlyMoves
<1>4. ASSUME NEW answer, answer # "accepted", Ends(t, answer)
      PROVE  FALSE
  BY <1>0, <1>4 DEF Ends, TypeOK
<1>5. ~RollBack(t) /\ ~CommitPolicy(t)
  BY <1>4 DEF RollBack, CommitPolicy
<1>6. ~FindExisting(t) /\ ~Decide(t)
  BY <1>1, <1>4 DEF FindExisting, Decide
<1>7. ~(\/ ReadDate(t) \/ LockGlobal(t) \/ LockDaily(t) \/ LockMonthly(t) \/ LockSession(t)
        \/ ReadPolicy(t) \/ ReadCounters(t) \/ WritePolicy(t))
  BY <1>1 DEF ReadDate, LockGlobal, LockDaily, LockMonthly, LockSession, LockBucket, ReadPolicy,
              ReadCounters, WritePolicy
<1> QED
  BY <1>2, <1>3, <1>5, <1>6, <1>7 DEF TxnStep

\* No accepted reservation passes a limit that is in force, whatever the
\* interleaving of reservations, policy changes and midnight.
THEOREM LimitsCorrect == Spec => WithinLimits
<1> DEFINE Respects(t) ==
      \A k \in Kinds :
        result'[t] = "accepted" /\ result[t] = "none" =>
          LET used == counter'[BucketOf(t, k)]
              limit == limits[t][k]
          IN /\ limit # 0 => used <= limit
             /\ limits[t] \in {DefaultLimits, policy[call[t].owner]}
<1>1. ASSUME IInv, [Next]_vars, NEW t \in Txns, result'[t] = "accepted", result[t] = "none",
             NEW k \in Kinds
      PROVE  /\ limits[t][k] # 0 => counter'[BucketOf(t, k)] <= limits[t][k]
             /\ limits[t] \in {DefaultLimits, policy[call[t].owner]}
  <2>1. CommitReservation(t)
    BY <1>1, AcceptedCommits
  <2>2. limits[t][k] # 0 => counter'[BucketOf(t, k)] <= limits[t][k]
    BY <1>1, <2>1, CommitCounters
  <2>3. limits[t] = DefaultLimits \/ limits[t] = policy[call[t].owner]
    BY <1>1, <2>1 DEF CommitReservation, IInv, Discipline, ReadsStayCurrent, ReserveSteps
  <2> QED
    BY <2>2, <2>3
<1>2. IInv /\ [Next]_vars => \A t \in Txns : Respects(t)
  BY <1>1
<1>3. IInv /\ [Next]_vars =>
        [\A t \in Txns : \A k \in Kinds :
           result'[t] = "accepted" /\ result[t] = "none" =>
             LET used == counter'[BucketOf(t, k)]
                 limit == limits[t][k]
             IN /\ limit # 0 => used <= limit
                /\ limits[t] \in {DefaultLimits, policy[call[t].owner]}]_vars
  BY <1>2
<1> QED
  BY <1>3, IInvAlways, PTL DEF Spec, WithinLimits

\* A request is charged at most once and never given back.
THEOREM ChargeCorrect == Spec => ChargedOnce
<1>1. ASSUME IInv, NEW t \in Txns, CommitReservation(t)
      PROVE  /\ \A q \in Requests : reserved[q] # NoReservation => reserved'[q] = reserved[q]
             /\ \A b \in Buckets : counter'[b] >= counter[b]
             /\ \E q \in Requests : reserved'[q] # reserved[q]
  <2>0. pc[t] = "commit" /\ call[t] \in ReserveCalls /\ TypeOK
    BY <1>1 DEF CommitReservation, IInv, Discipline, ReserveSteps
  <2>1. reserved[call[t].request] = NoReservation
    BY <1>1, <2>0 DEF IInv, ReadsStayCurrent
  <2>2. call[t].request \in Requests
    BY <2>0 DEF ReserveCalls
  <2> DEFINE row == [owner |-> call[t].owner, context |-> call[t].context,
                     tokens |-> call[t].tokens, day |-> day[t]]
  <2>3. row # NoReservation
    BY <2>0, ReservationAssumption DEF ReserveCalls, TypeOK
  <2>4. reserved' = [reserved EXCEPT ![call[t].request] = row]
    BY <1>1 DEF CommitReservation
  <2> HIDE DEF row
  <2>5. \A q \in Requests : reserved[q] # NoReservation => reserved'[q] = reserved[q]
    BY <2>0, <2>1, <2>4 DEF TypeOK
  <2>6. reserved'[call[t].request] # reserved[call[t].request]
    BY <2>0, <2>1, <2>2, <2>3, <2>4 DEF TypeOK
  <2> QED
    BY <1>1, <2>2, <2>5, <2>6, CommitCounters
<1>2. ASSUME [Next]_vars, ~\E t \in Txns : CommitReservation(t)
      PROVE  reserved' = reserved /\ counter' = counter
  BY <1>2 DEF Next, Midnight, TxnStep, RollBack, ReadDate, LockGlobal, LockDaily, LockMonthly, LockSession,
              LockBucket, FindExisting, ReadPolicy, ReadCounters, Decide, WritePolicy, CommitPolicy,
              tables, vars
<1>3. ASSUME IInv, reserved' = reserved, counter' = counter
      PROVE  \A b \in Buckets : counter'[b] >= counter[b]
  BY <1>3, IntAssumption DEF IInv, TypeOK
<1>4. IInv /\ [Next]_vars =>
        [/\ \A q \in Requests : reserved[q] # NoReservation => reserved'[q] = reserved[q]
         /\ \A b \in Buckets : counter'[b] >= counter[b]
         /\ counter' # counter => \E q \in Requests : reserved'[q] # reserved[q]]_vars
  BY <1>1, <1>2, <1>3
<1> QED
  BY <1>4, IInvAlways, PTL DEF Spec, ChargedOnce

------------------------------------------------------------------------------
(* The counters and the reservations. *)

\* The reservations that fall into a bucket.
FallsInto(row, b) ==
  row # NoReservation /\ \E k \in Kinds : b = Bucket(k, row.owner, row.context, row.day)

CountFits(b) == IsFiniteSet(TokensIn(b)) /\ counter[b] = Cardinality(TokensIn(b))

CountInv == IInv /\ \A b \in Buckets : CountFits(b)

\* The tokens of a bucket, one by one.
LEMMA TokensMember ==
  ASSUME NEW b, NEW x
  PROVE  x \in TokensIn(b) <=>
           \E q \in Requests : FallsInto(reserved[q], b) /\ x \in {q} \X (1..reserved[q].tokens)
BY DEF TokensIn, FallsInto

\* n tokens of a request that had none.
LEMMA NewTokens ==
  ASSUME NEW S, IsFiniteSet(S), NEW q, NEW n \in Nat, \A x \in S : x[1] # q
  PROVE  /\ IsFiniteSet(S \cup ({q} \X (1..n)))
         /\ Cardinality(S \cup ({q} \X (1..n))) = Cardinality(S) + n
<1> DEFINE T == {q} \X (1..n)
<1>1. IsFiniteSet({q}) /\ Cardinality({q}) = 1
  BY FS_Singleton
<1>2. IsFiniteSet(1..n) /\ Cardinality(1..n) = n
  BY FS_Interval
<1>3. IsFiniteSet(T) /\ Cardinality(T) = n
  <2>1. /\ IsFiniteSet({q} \X (1..n))
        /\ Cardinality({q} \X (1..n)) = Cardinality({q}) * Cardinality(1..n)
    BY <1>1, <1>2, FS_Product
  <2>2. Cardinality({q}) * Cardinality(1..n) = n
    BY <1>1, <1>2
  <2> QED
    BY <2>1, <2>2
<1>4. S \cap T = {}
  OBVIOUS
<1>5. Cardinality(S \cap T) = 0
  BY <1>4, FS_EmptySet
<1>6. Cardinality(S) \in Nat
  BY FS_CardinalityType
<1> HIDE DEF T
<1>7. IsFiniteSet(S \cup T) /\ Cardinality(S \cup T) = Cardinality(S) + Cardinality(T) - Cardinality(S \cap T)
  BY <1>3, FS_Union
<1>8. IsFiniteSet(S \cup T) /\ Cardinality(S \cup T) = Cardinality(S) + n
  BY <1>3, <1>5, <1>6, <1>7
<1> QED
  BY <1>8 DEF T

\* A commit adds its tokens to the counters of its own buckets.
LEMMA CommitCounts ==
  ASSUME CountInv, NEW t \in Txns, CommitReservation(t), NEW b \in Buckets
  PROVE  CountFits(b)'
<1> USE DEF CountInv, IInv
<1>1. pc[t] = "commit" /\ call[t] \in ReserveCalls
  BY DEF CommitReservation, Discipline, ReserveSteps
<1>2. PICK q \in Requests : q = call[t].request
  BY <1>1 DEF ReserveCalls
<1>3. PICK n \in Nat : n = call[t].tokens
  BY <1>1 DEF ReserveCalls
<1>4. PICK row \in Reservations :
        row = [owner |-> call[t].owner, context |-> call[t].context,
               tokens |-> call[t].tokens, day |-> day[t]]
  BY <1>1 DEF ReserveCalls, Reservations, TypeOK
<1>5. /\ row # NoReservation /\ row.tokens = n
      /\ reserved[q] = NoReservation
      /\ reserved' = [reserved EXCEPT ![q] = row]
  <2>1. row # NoReservation
    BY ReservationAssumption DEF Reservations
  <2> QED
    BY <1>1, <1>2, <1>3, <1>4, <2>1 DEF ReadsStayCurrent, CommitReservation
<1>6. reserved'[q] = row /\ \A p \in Requests \ {q} : reserved'[p] = reserved[p]
  BY <1>5 DEF TypeOK
<1>7. FallsInto(row, b) <=> \E k \in Kinds : b = BucketOf(t, k)
  BY <1>4, <1>5 DEF FallsInto, BucketOf
<1>8. counter'[b] = IF FallsInto(row, b) THEN counter[b] + n ELSE counter[b]
  BY <1>3, <1>7 DEF CommitReservation
<1>9. PICK S : S = TokensIn(b)
  OBVIOUS
<1>10. PICK U : U = TokensIn(b)'
  OBVIOUS
<1>11. IsFiniteSet(S) /\ counter[b] = Cardinality(S)
  BY <1>9 DEF CountFits
<1>12. \A x : x \in S <=> \E p \in Requests : FallsInto(reserved[p], b) /\ x \in {p} \X (1..reserved[p].tokens)
  BY <1>9, TokensMember
<1>13. \A x : x \in U <=> \E p \in Requests : FallsInto(reserved'[p], b) /\ x \in {p} \X (1..reserved'[p].tokens)
  BY <1>10 DEF TokensIn, FallsInto
<1>14. ~FallsInto(reserved[q], b)
  BY <1>5 DEF FallsInto
<1>15. \A x \in S : x[1] # q
  BY <1>12, <1>14
<1>16. CASE FallsInto(row, b)
  <2>1. U = S \cup ({q} \X (1..n))
    <3>1. ASSUME NEW x \in U PROVE x \in S \cup ({q} \X (1..n))
      BY <1>5, <1>6, <1>12, <1>13, <3>1
    <3>2. ASSUME NEW x \in S PROVE x \in U
      BY <1>6, <1>12, <1>13, <1>14, <3>2
    <3>3. ASSUME NEW x \in {q} \X (1..n) PROVE x \in U
      BY <1>5, <1>6, <1>13, <1>16, <3>3
    <3> QED
      BY <3>1, <3>2, <3>3
  <2>2. IsFiniteSet(U) /\ Cardinality(U) = Cardinality(S) + n
    BY <1>11, <1>15, <2>1, NewTokens
  <2> QED
    BY <1>8, <1>10, <1>11, <1>16, <2>2 DEF CountFits
<1>17. CASE ~FallsInto(row, b)
  <2>1. U = S
    <3>1. ASSUME NEW x \in U PROVE x \in S
      BY <1>6, <1>12, <1>13, <1>17, <3>1
    <3>2. ASSUME NEW x \in S PROVE x \in U
      BY <1>6, <1>12, <1>13, <1>14, <3>2
    <3> QED
      BY <3>1, <3>2
  <2> QED
    BY <1>8, <1>10, <1>11, <1>17, <2>1 DEF CountFits
<1> QED
  BY <1>16, <1>17

LEMMA InitCounts == ASSUME Init PROVE CountInv
<1>1. IInv
  BY InitIInv
<1>2. ASSUME NEW b \in Buckets PROVE CountFits(b)
  <2>1. \A q \in Requests : reserved[q] = NoReservation
    BY DEF Init
  <2>2. TokensIn(b) = {}
    BY <2>1 DEF TokensIn
  <2>3. counter[b] = 0
    BY DEF Init
  <2> QED
    BY <2>2, <2>3, FS_EmptySet DEF CountFits
<1> QED
  BY <1>1, <1>2 DEF CountInv

LEMMA NextCounts == ASSUME CountInv, [Next]_vars PROVE CountInv'
<1>1. IInv'
  BY NextIInv DEF CountInv
<1>2. ASSUME NEW t \in Txns, CommitReservation(t) PROVE \A b \in Buckets : CountFits(b)'
  BY <1>2, CommitCounts
<1>3. CASE ~\E t \in Txns : CommitReservation(t)
  <2>1. reserved' = reserved /\ counter' = counter
    BY <1>3 DEF Next, Midnight, TxnStep, RollBack, ReadDate, LockGlobal, LockDaily, LockMonthly,
       LockSession, LockBucket, FindExisting, ReadPolicy, ReadCounters, Decide, WritePolicy,
       CommitPolicy, tables, vars
  <2> QED
    BY <1>1, <2>1 DEF CountInv, CountFits, TokensIn
<1> QED
  BY <1>1, <1>2, <1>3 DEF CountInv

\* Every counter is the sum of the reservations in its bucket, whatever the
\* interleaving, around midnight and after rollbacks.
THEOREM CountersCorrect == Spec => []CountersMatchReservations
<1>1. CountInv => CountersMatchReservations
  BY DEF CountInv, CountFits, CountersMatchReservations
<1>2. CountInv /\ [Next]_vars => CountInv'
  BY NextCounts
<1> QED
  BY <1>1, <1>2, InitCounts, PTL DEF Spec

------------------------------------------------------------------------------
(* No owner and no policy allows more than a ceiling. *)

PoliciesWithin(k, ceiling) ==
  /\ DefaultLimits[k] \in 1..ceiling
  /\ \A c \in Calls : c.op = "policy" => c.limits[k] \in 1..ceiling

\* The limits a transaction has found, and those that others will find, are such
\* limits, and none of them has let a counter pass the ceiling.
CeilingInv(k, ceiling) ==
  /\ CountInv /\ PoliciesWithin(k, ceiling)
  /\ \A o \in Owners : policy[o] # NoPolicy => policy[o][k] \in 1..ceiling
  /\ \A t \in Txns : limits[t][k] \in 1..ceiling
  /\ \A o \in Owners, c \in Contexts, d \in Days : counter[Bucket(k, o, c, d)] <= ceiling

LEMMA CeilingOfLimits ==
  ASSUME NEW k \in Kinds, NEW ceiling \in Nat, CeilingInv(k, ceiling), [Next]_vars
  PROVE  /\ \A o \in Owners : policy'[o] # NoPolicy => policy'[o][k] \in 1..ceiling
         /\ \A t \in Txns : limits'[t][k] \in 1..ceiling
<1>0. /\ TypeOK /\ Discipline
      /\ \A o \in Owners : policy[o] # NoPolicy => policy[o][k] \in 1..ceiling
      /\ \A t \in Txns : limits[t][k] \in 1..ceiling
  BY DEF CeilingInv, CountInv, IInv
<1>1. ASSUME NEW t \in Txns, ReadPolicy(t)
      PROVE  \A u \in Txns : limits'[u][k] \in 1..ceiling
  <2>1. limits' = limits \/ \E o \in Owners :
          policy[o] # NoPolicy /\ limits' = [limits EXCEPT ![t] = policy[o]]
    <3>1. call[t].owner \in Owners
      BY <1>0, <1>1 DEF ReadPolicy, Discipline, ReserveSteps, ReserveCalls
    <3> QED
      BY <1>1, <3>1 DEF ReadPolicy
  <2> QED
    BY <1>0, <2>1 DEF CeilingInv, TypeOK
<1>2. ASSUME NEW t \in Txns, CommitPolicy(t)
      PROVE  \A o \in Owners : policy'[o] # NoPolicy => policy'[o][k] \in 1..ceiling
  <2>1. call[t] \in Calls /\ call[t].op = "policy"
    BY <1>0, <1>2 DEF CommitPolicy, Discipline, PolicySteps, PolicyCalls, TypeOK
  <2>2. call[t].limits[k] \in 1..ceiling
    BY <2>1 DEF CeilingInv, PoliciesWithin
  <2> QED
    BY <1>0, <1>2, <2>2 DEF CeilingInv, CommitPolicy, TypeOK
<1>3. ASSUME ~\E t \in Txns : ReadPolicy(t)
      PROVE  \A t \in Txns : limits'[t][k] \in 1..ceiling
  <2>1. limits' = limits
    BY <1>3 DEF Next, Midnight, TxnStep, RollBack, ReadDate, LockGlobal, LockDaily, LockMonthly,
       LockSession, LockBucket, FindExisting, ReadCounters, Decide, CommitReservation, WritePolicy,
       CommitPolicy, vars
  <2> QED
    BY <1>0, <2>1
<1>4. ASSUME ~\E t \in Txns : CommitPolicy(t)
      PROVE  \A o \in Owners : policy'[o] # NoPolicy => policy'[o][k] \in 1..ceiling
  <2>1. policy' = policy
    BY <1>4 DEF Next, Midnight, TxnStep, RollBack, ReadDate, LockGlobal, LockDaily, LockMonthly,
       LockSession, LockBucket, FindExisting, ReadPolicy, ReadCounters, Decide, CommitReservation,
       WritePolicy, tables, vars
  <2> QED
    BY <1>0, <2>1
<1>5. \A t \in Txns : limits'[t][k] \in 1..ceiling
  BY <1>1, <1>3
<1>6. \A o \in Owners : policy'[o] # NoPolicy => policy'[o][k] \in 1..ceiling
  BY <1>2, <1>4
<1> QED
  BY <1>5, <1>6

LEMMA CeilingOfCounters ==
  ASSUME NEW k \in Kinds, NEW ceiling \in Nat, CeilingInv(k, ceiling), [Next]_vars,
         NEW o \in Owners, NEW c \in Contexts, NEW d \in Days
  PROVE  counter'[Bucket(k, o, c, d)] <= ceiling
<1> DEFINE b == Bucket(k, o, c, d)
<1>0. IInv /\ TypeOK /\ counter[b] <= ceiling
  BY DEF CeilingInv, CountInv, IInv
<1>1. b \in Buckets
  BY DEF Buckets
<1>2. ASSUME NEW t \in Txns, CommitReservation(t) PROVE counter'[b] <= ceiling
  <2>1. CASE \E l \in Kinds : b = BucketOf(t, l)
    <3>1. PICK l \in Kinds : b = BucketOf(t, l)
      BY <2>1
    <3>2. b[1] = k /\ BucketOf(t, l)[1] = l
      BY DEF Bucket, BucketOf, Kinds
    <3>3. b = BucketOf(t, k)
      BY <3>1, <3>2
    <3>4. /\ counter'[b] \in 0..MaxInt
          /\ limits[t][k] # 0 => counter'[b] <= limits[t][k]
      BY <1>0, <1>1, <1>2, <3>3, CommitCounters
    <3>5. limits[t][k] \in 1..ceiling
      BY DEF CeilingInv
    <3> QED
      BY <3>4, <3>5, IntAssumption
  <2>2. CASE ~\E l \in Kinds : b = BucketOf(t, l)
    <3>1. counter'[b] = counter[b]
      BY <1>1, <1>2, <2>2 DEF CommitReservation
    <3> QED
      BY <1>0, <3>1
  <2> QED
    BY <2>1, <2>2
<1>3. CASE ~\E t \in Txns : CommitReservation(t)
  <2>1. counter' = counter
    BY <1>3 DEF Next, Midnight, TxnStep, RollBack, ReadDate, LockGlobal, LockDaily, LockMonthly,
       LockSession, LockBucket, FindExisting, ReadPolicy, ReadCounters, Decide, WritePolicy,
       CommitPolicy, tables, vars
  <2> QED
    BY <1>0, <2>1
<1> QED
  BY <1>2, <1>3

\* What policies are for: if neither the environment's limit of a level nor any
\* policy that is ever set allows more than the ceiling, then what is reserved in
\* a bucket of that level, added up over all requests, owners and days, stays
\* below it for ever (postgres_budget_repository.cpp: reserve, setOwnerPolicy).
THEOREM CeilingCorrect ==
  ASSUME NEW k \in Kinds, NEW ceiling \in Nat
  PROVE  PoliciesWithin(k, ceiling) /\ Spec =>
           [](\A o \in Owners, c \in Contexts, d \in Days :
                Cardinality(TokensIn(Bucket(k, o, c, d))) <= ceiling)
<1>1. PoliciesWithin(k, ceiling) /\ Init => CeilingInv(k, ceiling)
  <2> SUFFICES ASSUME PoliciesWithin(k, ceiling), Init PROVE CeilingInv(k, ceiling)
    OBVIOUS
  <2>1. CountInv
    BY InitCounts
  <2>2. \A o \in Owners, c \in Contexts, d \in Days : Bucket(k, o, c, d) \in Buckets
    BY DEF Buckets
  <2> QED
    BY <2>1, <2>2 DEF CeilingInv, PoliciesWithin, Init
<1>2. CeilingInv(k, ceiling) /\ [Next]_vars => CeilingInv(k, ceiling)'
  <2> SUFFICES ASSUME CeilingInv(k, ceiling), [Next]_vars PROVE CeilingInv(k, ceiling)'
    OBVIOUS
  <2>1. CountInv'
    BY NextCounts DEF CeilingInv
  <2>2. \A o \in Owners, c \in Contexts, d \in Days : counter'[Bucket(k, o, c, d)] <= ceiling
    BY CeilingOfCounters
  <2> QED
    BY <2>1, <2>2, CeilingOfLimits DEF CeilingInv
<1>3. CeilingInv(k, ceiling) =>
        \A o \in Owners, c \in Contexts, d \in Days :
          Cardinality(TokensIn(Bucket(k, o, c, d))) <= ceiling
  <2> SUFFICES ASSUME CeilingInv(k, ceiling), NEW o \in Owners, NEW c \in Contexts, NEW d \in Days
               PROVE  Cardinality(TokensIn(Bucket(k, o, c, d))) <= ceiling
    OBVIOUS
  <2>1. Bucket(k, o, c, d) \in Buckets
    BY DEF Buckets
  <2> QED
    BY <2>1 DEF CeilingInv, CountInv, CountFits
<1> QED
  BY <1>1, <1>2, <1>3, PTL DEF Spec

------------------------------------------------------------------------------
(* Waiting. *)

\* Whoever holds an advisory lock holds the one of the global bucket.
HoldersPast == \A l \in DOMAIN advisory : \A t \in Txns : advisory[l] = t => PastGlobalLock(t)

WaitInv == IInv /\ HoldersPast

LEMMA StepHolders ==
  ASSUME WaitInv, NEW t \in Txns, TxnStep(t) \/ RollBack(t)
  PROVE  HoldersPast'
<1> USE DEF WaitInv, IInv
<1>1. DOMAIN advisory' = DOMAIN advisory
  BY StepType DEF TypeOK
<1>2. ASSUME NEW answer \in Results, Ends(t, answer)
      PROVE  HoldersPast'
  <2>1. /\ \A u \in Txns \ {t} : pc'[u] = pc[u]
        /\ \A l \in DOMAIN advisory : \A u \in Txns \ {t} : advisory'[l] = u <=> advisory[l] = u
    BY <1>2, EndsLocks
  <2>2. \A l \in DOMAIN advisory : advisory'[l] # t
    BY <1>2, TxnAssumption DEF Ends
  <2> QED
    BY <1>1, <2>1, <2>2 DEF HoldersPast, PastGlobalLock
<1>3. ASSUME advisory' = advisory, NEW step \in Steps, Goto(t, step), PastGlobalLock(t) => PastGlobalLock(t)'
      PROVE  HoldersPast'
  <2>1. \A u \in Txns \ {t} : pc'[u] = pc[u]
    BY <1>3, GotoPc
  <2> QED
    BY <1>3, <2>1 DEF HoldersPast, PastGlobalLock
<1>4. ASSUME NEW step, NEW kind, NEW next \in {"lock_daily", "lock_monthly", "lock_session", "existing"},
             LockBucket(t, step, kind, next)
      PROVE  HoldersPast'
  <2>1. /\ \A u \in Txns \ {t} : pc'[u] = pc[u]
        /\ pc'[t] = next
    BY <1>4, GotoPc DEF LockBucket, Steps
  <2>2. \A l \in DOMAIN advisory : \A u \in Txns \ {t} : advisory'[l] = u => advisory[l] = u
    BY <1>4 DEF LockBucket, TypeOK
  <2>3. PastGlobalLock(t)'
    BY <2>1 DEF PastGlobalLock
  <2> QED
    BY <1>1, <2>1, <2>2, <2>3 DEF HoldersPast, PastGlobalLock
<1>5. CASE LockGlobal(t) \/ LockDaily(t) \/ LockMonthly(t) \/ LockSession(t)
  BY <1>4, <1>5 DEF LockGlobal, LockDaily, LockMonthly, LockSession
<1>6. CASE CommitReservation(t) \/ CommitPolicy(t) \/ RollBack(t)
  BY <1>2, <1>6 DEF CommitReservation, CommitPolicy, RollBack, Results
<1>7. CASE FindExisting(t) \/ Decide(t)
  <2>1. ASSUME NEW step \in {"policy", "commit"}, Goto(t, step), UNCHANGED <<result, locks>>
        PROVE  HoldersPast'
    <3>1. PastGlobalLock(t)' /\ step \in Steps
      BY <2>1, GotoPc DEF PastGlobalLock, Steps
    <3> QED
      BY <1>3, <2>1, <3>1 DEF locks
  <2> QED
    BY <1>2, <1>7, <2>1 DEF FindExisting, Decide, Results
<1>8. CASE ReadPolicy(t) \/ ReadCounters(t)
  <2>1. PICK step \in {"counters", "decide"} : Goto(t, step) /\ advisory' = advisory
    BY <1>8 DEF ReadPolicy, ReadCounters, locks
  <2>2. PastGlobalLock(t)' /\ step \in Steps
    BY <2>1, GotoPc DEF PastGlobalLock, Steps
  <2> QED
    BY <1>3, <2>1, <2>2
<1>9. CASE ReadDate(t) \/ WritePolicy(t)
  <2>1. PICK step \in {"lock_global", "commit_policy"} : Goto(t, step) /\ advisory' = advisory
    BY <1>9 DEF ReadDate, WritePolicy, locks
  <2>2. ~PastGlobalLock(t)
    BY <1>9 DEF ReadDate, WritePolicy, PastGlobalLock
  <2>3. step \in Steps
    BY DEF Steps
  <2> QED
    BY <1>3, <2>1, <2>2, <2>3
<1> QED
  BY <1>5, <1>6, <1>7, <1>8, <1>9 DEF TxnStep

\* Nobody past the global lock waits for an advisory lock, and nobody who holds a
\* policy row waits for anything.
LEMMA GoesOn == ASSUME WaitInv PROVE SomeoneGoesOn
<1> USE DEF WaitInv, IInv
<1>1. ASSUME NEW o \in Owners, policyLock[o] # NoTxn
      PROVE  \E u \in Txns : pc[u] # "done" /\ ~Waits(u)
  <2>1. PICK u \in Txns : u = policyLock[o]
    BY <1>1 DEF TypeOK
  <2>2. pc[u] \in {"counters", "decide", "commit", "commit_policy"}
    BY <2>1 DEF Discipline
  <2> QED
    BY <2>2 DEF Waits, LockSteps
<1>2. ASSUME NEW t \in Txns, pc[t] \in {"policy", "write_policy"}, Waits(t)
      PROVE  \E u \in Txns : pc[u] # "done" /\ ~Waits(u)
  <2>1. call[t].owner \in Owners
    BY <1>2 DEF Discipline, ReserveSteps, PolicySteps, ReserveCalls, PolicyCalls
  <2>2. policyLock[call[t].owner] # NoTxn
    BY <1>2 DEF Waits, LockSteps
  <2> QED
    BY <1>1, <2>1, <2>2
<1>3. ASSUME NEW t \in Txns, PastGlobalLock(t)
      PROVE  \E u \in Txns : pc[u] # "done" /\ ~Waits(u)
  <2>1. CASE pc[t] \in LockSteps
    <3>1. call[t] \in ReserveCalls
      BY <1>3 DEF PastGlobalLock, Discipline, ReserveSteps
    <3>2. NextKind(t) \in Kinds
      BY DEF NextKind, Kinds
    <3>3. PICK l \in DOMAIN advisory : l = LockId[BucketOf(t, NextKind(t))]
      BY <3>1, <3>2, BucketType
    <3>4. advisory[l] \in {NoTxn, t}
      BY <1>3, Exclusion DEF HoldersPast, TypeOK
    <3> QED
      BY <2>1, <3>3, <3>4 DEF Waits, LockSteps
  <2>2. CASE pc[t] = "policy"
    BY <1>2, <2>2
  <2>3. CASE pc[t] \in {"existing", "counters", "decide", "commit"}
    BY <2>3 DEF Waits, LockSteps
  <2> QED
    BY <1>3, <2>1, <2>2, <2>3 DEF PastGlobalLock, LockSteps
<1>4. ASSUME NEW t \in Txns, pc[t] = "lock_global", Waits(t)
      PROVE  \E u \in Txns : pc[u] # "done" /\ ~Waits(u)
  <2>1. call[t] \in ReserveCalls
    BY <1>4 DEF Discipline, ReserveSteps
  <2>2. "global" \in Kinds /\ NextKind(t) = "global"
    BY <1>4 DEF Kinds, NextKind
  <2>3. PICK l \in DOMAIN advisory : l = LockId[BucketOf(t, NextKind(t))]
    BY <2>1, <2>2, BucketType
  <2>4. PICK u \in Txns : advisory[l] = u
    BY <1>4, <2>3 DEF Waits, TypeOK
  <2> QED
    BY <1>3, <2>4 DEF HoldersPast
<1>5. ASSUME NEW t \in Txns, pc[t] # "done"
      PROVE  \E u \in Txns : pc[u] # "done" /\ ~Waits(u)
  <2>1. CASE pc[t] \in {"begin", "commit_policy"}
    BY <2>1 DEF Waits, LockSteps
  <2>2. CASE PastGlobalLock(t)
    BY <1>3, <2>2
  <2>3. CASE pc[t] \in {"lock_global", "write_policy"}
    BY <1>2, <1>4, <1>5, <2>3
  <2> QED
    BY <1>5, <2>1, <2>2, <2>3 DEF TypeOK, Steps, PastGlobalLock
<1> QED
  BY <1>5 DEF SomeoneGoesOn

\* Transactions never wait for each other in a circle, although locks may collide
\* and the policy row is locked under them: the guards of lockBucket, of the SELECT
\* ... FOR UPDATE and of setOwnerPolicy are never all closed at once.
THEOREM NoCircle == Spec => []SomeoneGoesOn
<1>1. Init => WaitInv
  BY InitIInv, TxnAssumption DEF WaitInv, HoldersPast, Init
<1>2. WaitInv /\ [Next]_vars => WaitInv'
  <2> SUFFICES ASSUME WaitInv, [Next]_vars PROVE WaitInv'
    OBVIOUS
  <2>1. IInv'
    BY NextIInv DEF WaitInv
  <2>2. ASSUME NEW t \in Txns, TxnStep(t) \/ RollBack(t) PROVE HoldersPast'
    BY <2>2, StepHolders
  <2>3. CASE Midnight \/ UNCHANGED vars
    <3>1. advisory' = advisory /\ pc' = pc
      BY <2>3 DEF Midnight, vars, locks
    <3> QED
      BY <2>1, <3>1 DEF WaitInv, HoldersPast, PastGlobalLock
  <2> QED
    BY <2>1, <2>2, <2>3 DEF Next, WaitInv
<1>3. WaitInv => SomeoneGoesOn
  BY GoesOn
<1> QED
  BY <1>1, <1>2, <1>3, PTL DEF Spec

------------------------------------------------------------------------------
(* One call at a time. *)

\* What a bucket's key stands for: the reservations of all, of an owner on a day
\* or in a month, or of an owner's session.
LEMMA KeysMeanShares ==
  ASSUME NEW t \in Txns, NEW k \in Kinds, NEW row
  PROVE  FallsInto(row, BucketOf(t, k)) <=> Atomic!Shares(row, k, call[t], day[t])
<1>1. ASSUME NEW l \in Kinds, NEW o, NEW c, NEW d, NEW p, NEW e, NEW f, Bucket(k, o, c, d) = Bucket(l, p, e, f)
      PROVE  k = l
  <2>1. Bucket(k, o, c, d)[1] = k
    BY DEF Bucket, Kinds
  <2>2. Bucket(l, p, e, f)[1] = l
    BY DEF Bucket, Kinds
  <2> QED
    BY <1>1, <2>1, <2>2
<1>2. FallsInto(row, BucketOf(t, k)) <=>
        row # NoReservation /\ BucketOf(t, k) = Bucket(k, row.owner, row.context, row.day)
  BY <1>1 DEF FallsInto, BucketOf
<1>3. CASE k = "global"
  BY <1>2, <1>3 DEF BucketOf, Bucket, Atomic!Shares
<1>4. CASE k = "user_daily"
  BY <1>2, <1>4 DEF BucketOf, Bucket, Atomic!Shares
<1>5. CASE k = "user_monthly"
  BY <1>2, <1>5 DEF BucketOf, Bucket, Atomic!Shares
<1>6. CASE k = "session"
  BY <1>2, <1>6 DEF BucketOf, Bucket, Atomic!Shares
<1> QED
  BY <1>3, <1>4, <1>5, <1>6 DEF Kinds

\* Both modules count in the same way.
LEMMA OneCardinality == ASSUME NEW S PROVE Atomic!Cardinality(S) = Cardinality(S)
BY DEF Cardinality, Atomic!Cardinality

\* A counter holds what the reservations of its level add up to.
LEMMA UsedIsCounted ==
  ASSUME CountInv, NEW t \in Txns, call[t] \in ReserveCalls, NEW k \in Kinds
  PROVE  Atomic!Used(k, call[t], day[t]) = counter[BucketOf(t, k)]
<1>1. BucketOf(t, k) \in Buckets
  BY BucketType DEF CountInv, IInv
<1>2. \A x : x \in Atomic!TokensFor(k, call[t], day[t]) <=>
        \E q \in Requests : Atomic!Shares(reserved[q], k, call[t], day[t])
                            /\ x \in {q} \X (1..reserved[q].tokens)
  BY DEF Atomic!TokensFor
<1>3. \A x : x \in Atomic!TokensFor(k, call[t], day[t]) <=> x \in TokensIn(BucketOf(t, k))
  BY <1>2, KeysMeanShares, TokensMember
<1>4. Atomic!TokensFor(k, call[t], day[t]) = TokensIn(BucketOf(t, k))
  BY <1>3
<1> QED
  BY <1>1, <1>4, OneCardinality DEF Atomic!Used, CountInv, CountFits

\* wouldExceed compares without overflow what adding would compare.
LEMMA ExceedsExactly ==
  ASSUME NEW used \in 0..MaxInt, NEW limit \in Nat, NEW requested \in Nat
  PROVE  WouldExceed(used, limit, requested) <=> Atomic!Exceeds(used + requested, limit)
BY IntAssumption DEF WouldExceed, Atomic!Exceeds

\* What a call decides on its counters is what the reservations say.
LEMMA DecidesOnAll ==
  ASSUME CountInv, NEW t \in Txns, pc[t] \in {"decide", "commit"}
  PROVE  Atomic!TooMuch(t) <=>
           \E k \in Kinds : WouldExceed(seen[t][k], limits[t][k], call[t].tokens)
<1> USE DEF CountInv, IInv
<1>1. call[t] \in ReserveCalls
  BY DEF Discipline, ReserveSteps
<1>2. call[t].tokens \in Nat
  BY <1>1 DEF ReserveCalls
<1>3. ASSUME NEW k \in Kinds
      PROVE  WouldExceed(seen[t][k], limits[t][k], call[t].tokens) <=>
               Atomic!Exceeds(Atomic!Used(k, call[t], day[t]) + call[t].tokens, limits[t][k])
  <2>1. seen[t][k] = Atomic!Used(k, call[t], day[t])
    BY <1>1, UsedIsCounted DEF ReadsStayCurrent
  <2>2. seen[t][k] \in 0..MaxInt /\ limits[t][k] \in Nat
    BY DEF TypeOK, Limits
  <2> QED
    BY <1>2, <2>1, <2>2, ExceedsExactly
<1> QED
  BY <1>3 DEF Atomic!TooMuch

\* A call that is about to be answered may be decided.
LEMMA MayBeDecided ==
  ASSUME CountInv, NEW t \in Txns, pc[t] \in {"decide", "commit"}
  PROVE  Atomic!Decidable(t)
<1> USE DEF CountInv, IInv
<1>1. limits[t] \in {DefaultLimits, policy[call[t].owner]}
  BY DEF Discipline, ReserveSteps, ReadsStayCurrent
<1>2. reserved[call[t].request] = NoReservation
  BY DEF ReadsStayCurrent
<1>3. [u \in Txns |-> Stage(pc[u])][t] = "ready"
  BY DEF Stage
<1> QED
  BY <1>1, <1>2, <1>3 DEF Atomic!Decidable

\* A step of one transaction is a step of one call.
LEMMA StageMoves ==
  ASSUME TypeOK, NEW t \in Txns, NEW step \in Steps, Goto(t, step)
  PROVE  [u \in Txns |-> Stage(pc[u])]' = [[u \in Txns |-> Stage(pc[u])] EXCEPT ![t] = Stage(step)]
<1>1. pc'[t] = step /\ \A u \in Txns \ {t} : pc'[u] = pc[u]
  BY GotoPc
<1>2. \A u \in Txns : Stage(pc'[u]) = IF u = t THEN Stage(step) ELSE Stage(pc[u])
  BY <1>1
<1> QED
  BY <1>2

LEMMA StageStays ==
  ASSUME TypeOK, NEW t \in Txns, NEW step \in Steps, Goto(t, step), Stage(step) = Stage(pc[t])
  PROVE  [u \in Txns |-> Stage(pc[u])]' = [u \in Txns |-> Stage(pc[u])]
BY StageMoves

LEMMA EndsCall ==
  ASSUME TypeOK, NEW t \in Txns, NEW answer, Ends(t, answer)
  PROVE  Atomic!Ends(t, answer)
<1>1. "done" \in Steps /\ Stage("done") = "done"
  BY DEF Steps, Stage
<1> QED
  BY <1>1, StageMoves DEF Ends, Atomic!Ends

LEMMA InitAtomic == ASSUME Init PROVE Atomic!Init
<1>1. \A t \in Txns : Stage(pc[t]) = "new"
  BY DEF Init, Stage
<1>2. [t \in Txns |-> Stage(pc[t])] = [t \in Txns |-> "new"]
  BY <1>1
<1> QED
  BY <1>2 DEF Init, Atomic!Init

\* What only moves a transaction within its stage is not noticed.
LEMMA UnnoticedSteps ==
  ASSUME CountInv, NEW t \in Txns,
         \/ LockGlobal(t) \/ LockDaily(t) \/ LockMonthly(t) \/ LockSession(t)
         \/ ReadCounters(t) \/ WritePolicy(t)
  PROVE  UNCHANGED Atomic!vars
<1> USE DEF CountInv, IInv
<1>1. PICK step \in Steps : Goto(t, step) /\ Stage(step) = Stage(pc[t])
  BY DEF LockGlobal, LockDaily, LockMonthly, LockSession, LockBucket, ReadCounters, WritePolicy, Steps, Stage
<1>2. [u \in Txns |-> Stage(pc[u])]' = [u \in Txns |-> Stage(pc[u])]
  BY <1>1, StageStays
<1>3. UNCHANGED <<reserved, policy, today, call, day, limits, result>>
  BY DEF LockGlobal, LockDaily, LockMonthly, LockSession, LockBucket, ReadCounters, WritePolicy, tables
<1> QED
  BY <1>2, <1>3 DEF Atomic!vars

LEMMA BeginsAtomic ==
  ASSUME CountInv, NEW t \in Txns, ReadDate(t)
  PROVE  Atomic!Begin(t)
<1> USE DEF CountInv, IInv
<1>1. "lock_global" \in Steps /\ Goto(t, "lock_global") /\ Stage("lock_global") = "open"
  BY DEF ReadDate, Steps, Stage
<1>2. call[t].op = "reserve"
  BY DEF ReadDate, Discipline, ReserveSteps, ReserveCalls
<1>3. [u \in Txns |-> Stage(pc[u])][t] = "new"
  BY DEF ReadDate, Stage
<1> QED
  BY <1>1, <1>2, <1>3, StageMoves DEF ReadDate, Atomic!Begin, tables

LEMMA FindsAtomic ==
  ASSUME CountInv, NEW t \in Txns, FindExisting(t)
  PROVE  Atomic!Repeat(t) \/ UNCHANGED Atomic!vars
<1> USE DEF CountInv, IInv
<1>1. [u \in Txns |-> Stage(pc[u])][t] = "open" /\ Stage(pc[t]) = "open"
  BY DEF FindExisting, Stage
<1>2. CASE Goto(t, "policy") /\ UNCHANGED <<result, locks>>
  <2>1. "policy" \in Steps /\ Stage("policy") = "open"
    BY DEF Steps, Stage
  <2> QED
    BY <1>1, <1>2, <2>1, StageStays DEF FindExisting, Atomic!vars, tables
<1>3. ASSUME reserved[call[t].request] # NoReservation,
             Ends(t, IF reserved[call[t].request].owner = call[t].owner
                     THEN "idempotent" ELSE "unavailable")
      PROVE  Atomic!Repeat(t)
  BY <1>1, <1>3, EndsCall DEF FindExisting, Atomic!Repeat, tables
<1> QED
  BY <1>2, <1>3 DEF FindExisting

LEMMA LooksAtomic ==
  ASSUME CountInv, NEW t \in Txns, ReadPolicy(t)
  PROVE  Atomic!FindLimits(t)
<1> USE DEF CountInv, IInv
<1>1. "counters" \in Steps /\ Goto(t, "counters") /\ Stage("counters") = "ready"
  BY DEF ReadPolicy, Steps, Stage
<1>2. [u \in Txns |-> Stage(pc[u])][t] = "open"
  BY DEF ReadPolicy, Stage
<1>3. limits' = [limits EXCEPT ![t] = Atomic!InForce(call[t].owner)]
  <2>1. CASE policy[call[t].owner] = NoPolicy
    <3>1. policyLock[call[t].owner] # t
      <4>1. pc[t] = "policy" /\ call[t].owner \in Owners
        BY DEF ReadPolicy, Discipline, ReserveSteps, ReserveCalls
      <4> QED
        BY <4>1 DEF Discipline
    <3>2. limits[t] = DefaultLimits /\ limits' = limits
      BY <2>1, <3>1 DEF ReadPolicy, Discipline, ReserveSteps
    <3> QED
      BY <2>1, <3>2 DEF Atomic!InForce, TypeOK
  <2>2. CASE policy[call[t].owner] # NoPolicy
    BY <2>2 DEF ReadPolicy, Atomic!InForce
  <2> QED
    BY <2>1, <2>2
<1> QED
  BY <1>1, <1>2, <1>3, StageMoves DEF ReadPolicy, Atomic!FindLimits, tables

LEMMA DecidesAtomic ==
  ASSUME CountInv, NEW t \in Txns, Decide(t)
  PROVE  Atomic!Refuse(t) \/ UNCHANGED Atomic!vars
<1> USE DEF CountInv, IInv
<1>1. pc[t] = "decide" /\ Atomic!Decidable(t)
  BY MayBeDecided DEF Decide
<1>2. CASE \E k \in Kinds : WouldExceed(seen[t][k], limits[t][k], call[t].tokens)
  <2>1. Atomic!TooMuch(t) /\ Ends(t, "exceeded")
    BY <1>1, <1>2, DecidesOnAll DEF Decide
  <2> QED
    BY <1>1, <2>1, EndsCall DEF Decide, Atomic!Refuse, tables
<1>3. CASE ~\E k \in Kinds : WouldExceed(seen[t][k], limits[t][k], call[t].tokens)
  <2>1. "commit" \in Steps /\ Goto(t, "commit") /\ Stage("commit") = Stage(pc[t])
    BY <1>1, <1>3 DEF Decide, Steps, Stage
  <2> QED
    BY <1>3, <2>1, StageStays DEF Decide, Atomic!vars, tables
<1> QED
  BY <1>2, <1>3

LEMMA CommitsAtomic ==
  ASSUME CountInv, NEW t \in Txns, CommitReservation(t)
  PROVE  Atomic!Accept(t)
<1> USE DEF CountInv, IInv
<1>1. pc[t] = "commit" /\ Atomic!Decidable(t)
  BY MayBeDecided DEF CommitReservation
<1>2. ~Atomic!TooMuch(t)
  BY <1>1, DecidesOnAll DEF ReadsStayCurrent
<1>3. Atomic!Ends(t, "accepted")
  BY EndsCall DEF CommitReservation
<1> QED
  BY <1>1, <1>2, <1>3 DEF CommitReservation, Atomic!Accept

LEMMA SetsAtomic ==
  ASSUME CountInv, NEW t \in Txns, CommitPolicy(t)
  PROVE  Atomic!SetPolicy(t)
<1> USE DEF CountInv, IInv
<1>1. call[t].op = "policy"
  BY DEF CommitPolicy, Discipline, PolicySteps, PolicyCalls
<1>2. [u \in Txns |-> Stage(pc[u])][t] = "new"
  BY DEF CommitPolicy, Stage
<1>3. Atomic!Ends(t, "written")
  BY EndsCall DEF CommitPolicy
<1> QED
  BY <1>1, <1>2, <1>3 DEF CommitPolicy, Atomic!SetPolicy

LEMMA FailsAtomic ==
  ASSUME CountInv, NEW t \in Txns, RollBack(t)
  PROVE  Atomic!Fail(t)
<1> USE DEF CountInv, IInv
<1>1. [u \in Txns |-> Stage(pc[u])][t] # "done"
  BY DEF RollBack, Stage
<1>2. Atomic!Ends(t, "failed")
  BY EndsCall DEF RollBack
<1> QED
  BY <1>1, <1>2 DEF RollBack, Atomic!Fail, tables

LEMMA NextAtomic ==
  ASSUME CountInv, [Next]_vars
  PROVE  [Atomic!Next]_Atomic!vars
<1>1. CASE Midnight
  <2>1. [u \in Txns |-> Stage(pc[u])]' = [u \in Txns |-> Stage(pc[u])]
    BY <1>1 DEF Midnight
  <2>2. Atomic!Midnight
    BY <1>1, <2>1 DEF Midnight, Atomic!Midnight, tables
  <2> QED
    BY <2>2 DEF Atomic!Next
<1>2. ASSUME NEW t \in Txns, TxnStep(t) \/ RollBack(t)
      PROVE  [Atomic!Next]_Atomic!vars
  <2>1. \/ UNCHANGED Atomic!vars
        \/ Atomic!Begin(t) \/ Atomic!Repeat(t) \/ Atomic!FindLimits(t) \/ Atomic!Accept(t)
        \/ Atomic!Refuse(t) \/ Atomic!SetPolicy(t) \/ Atomic!Fail(t)
    BY <1>2, UnnoticedSteps, BeginsAtomic, FindsAtomic, LooksAtomic, DecidesAtomic,
       CommitsAtomic, SetsAtomic, FailsAtomic DEF TxnStep
  <2> QED
    BY <2>1 DEF Atomic!Next
<1>3. CASE UNCHANGED vars
  <2>1. [u \in Txns |-> Stage(pc[u])]' = [u \in Txns |-> Stage(pc[u])]
    BY <1>3 DEF vars
  <2> QED
    BY <1>3, <2>1 DEF vars, tables, Atomic!vars
<1> QED
  BY <1>1, <1>2, <1>3 DEF Next

\* The lock protocol makes reserve and setOwnerPolicy atomic: whatever interleaves,
\* each call is decided on all reservations made before it, and on no others, and
\* on the limits in force; none is refused or accepted for a counter that differs
\* from what was reserved.
THEOREM AtomicCorrect == Spec => ImplementsAtomicBudget
<1>1. CountInv /\ [Next]_vars => CountInv' /\ [Atomic!Next]_Atomic!vars
  BY NextCounts, NextAtomic
<1>2. Init => CountInv /\ Atomic!Init
  BY InitCounts, InitAtomic
<1> QED
  BY <1>1, <1>2, PTL DEF Spec, ImplementsAtomicBudget, Atomic!Spec

\* All that a reservation relies on, for any number of transactions: types and
\* ranges, mutual exclusion, reads that stay current, counters that are sums, and
\* no circle of transactions that wait for each other.
THEOREM BudgetCorrect == Spec => []BudgetInvariant
BY TypeCorrect, LockCorrect, ReadsCorrect, CountersCorrect, NoCircle, PTL DEF BudgetInvariant

=============================================================================
