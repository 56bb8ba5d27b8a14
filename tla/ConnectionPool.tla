--------------------------- MODULE ConnectionPool ---------------------------
(***************************************************************************)
(* PostgresStore::executeTransaction and its lease coordinator: threads    *)
(* share a fixed number of connections.  A step is what happens under the  *)
(* coordinator's mutex, or between two uses of it; the notification of a   *)
(* waiting thread comes after the mutex is unlocked.  Transactions do not  *)
(* nest: no callback of the repositories starts another one.               *)
(***************************************************************************)
EXTENDS Integers, FiniteSets

CONSTANTS
  Threads,
  PoolSize,      \* NEXUSAI_POSTGRES_POOL_SIZE
  NoSlot,
  MaxCalls,      \* bound: calls of one thread
  MaxRestarts    \* bound: restarts of PostgreSQL

Slots == 0..(PoolSize - 1)

ASSUME SizeAssumption == PoolSize \in 1..10
ASSUME SlotAssumption == NoSlot \notin Slots
ASSUME ThreadAssumption == IsFiniteSet(Threads)
ASSUME PoolBounds == MaxCalls \in Nat /\ MaxRestarts \in Nat

VARIABLES
  leased,        \* flags of the coordinator
  connection,    \* connections_: absent, open, broken unnoticed, known to be closed
  pc,
  slot,          \* the index a thread holds
  calls, restarts
poolVars == <<leased, connection, pc, slot, calls, restarts>>

Connections == {"none", "open", "stale", "closed"}
\* A woken thread takes the mutex again and evaluates the predicate anew.
Unleased == {"idle", "acquire", "waiting", "woken"}
Leased == {"connect", "execute", "reset", "release"}
Steps == Unleased \cup Leased \cup {"notify"}

Goto(t, step) == pc' = [pc EXCEPT ![t] = step]
Free == {i \in Slots : ~leased[i]}
Waiting == {t \in Threads : pc[t] = "waiting"}

PoolInit ==
  /\ leased = [i \in Slots |-> FALSE]
  /\ connection = [i \in Slots |-> "open"]
  /\ pc = [t \in Threads |-> "idle"]
  /\ slot = [t \in Threads |-> NoSlot]
  /\ calls = [t \in Threads |-> 0]
  /\ restarts = 0

PoolCall(t) ==
  /\ pc[t] = "idle" /\ calls[t] < MaxCalls
  /\ calls' = [calls EXCEPT ![t] = @ + 1]
  /\ Goto(t, "acquire")
  /\ UNCHANGED <<leased, connection, slot, restarts>>

TakeSlot(t) ==
  \E i \in Free :
    /\ \A j \in Free : i <= j
    /\ leased' = [leased EXCEPT ![i] = TRUE]
    /\ slot' = [slot EXCEPT ![t] = i]
    /\ Goto(t, "connect")

\* Mutant: a thread that was notified does not look again.
TakesWhenWoken(t) ==
  /\ pc[t] \in {"acquire", "woken"}
  /\ \/ TakeSlot(t)
     \/ Free = {} /\ Goto(t, IF pc[t] = "woken" THEN "lost" ELSE "waiting")
                  /\ UNCHANGED <<leased, slot>>
  /\ UNCHANGED <<connection, calls, restarts>>

Acquire(t) ==
  /\ pc[t] \in {"acquire", "woken"}
  /\ \/ TakeSlot(t)
     \/ Free = {} /\ Goto(t, "waiting") /\ UNCHANGED <<leased, slot>>
  /\ UNCHANGED <<connection, calls, restarts>>

SpuriousWakeup(t) ==
  /\ pc[t] = "waiting"
  /\ Goto(t, "woken")
  /\ UNCHANGED <<leased, connection, slot, calls, restarts>>

\* Mutant: an exception thrown before the transaction skips the release.
ForgetsLease(t) ==
  /\ pc[t] = "connect"
  /\ \/ /\ connection[slot[t]] \in {"open", "stale"}
        /\ Goto(t, "execute")
        /\ UNCHANGED <<connection, slot>>
     \/ /\ connection[slot[t]] \in {"none", "closed"}
        /\ \/ /\ connection' = [connection EXCEPT ![slot[t]] = "open"]
              /\ Goto(t, "execute") /\ UNCHANGED slot
           \/ Goto(t, "idle") /\ slot' = [slot EXCEPT ![t] = NoSlot] /\ UNCHANGED connection
  /\ UNCHANGED <<leased, calls, restarts>>

\* A connection that is absent or known to be closed is opened again, which
\* fails while PostgreSQL is unavailable.
EnsureConnection(t) ==
  /\ pc[t] = "connect"
  /\ \/ /\ connection[slot[t]] \in {"open", "stale"}
        /\ Goto(t, "execute")
        /\ UNCHANGED connection
     \/ /\ connection[slot[t]] \in {"none", "closed"}
        /\ \/ connection' = [connection EXCEPT ![slot[t]] = "open"] /\ Goto(t, "execute")
           \/ UNCHANGED connection /\ Goto(t, "release")
  /\ UNCHANGED <<leased, slot, calls, restarts>>

\* The transaction commits, or fails with an SQL error or an exception of the
\* callback, all of which leave the connection alone.
Execute(t) ==
  /\ pc[t] = "execute" /\ connection[slot[t]] = "open"
  /\ Goto(t, "release")
  /\ UNCHANGED <<leased, connection, slot, calls, restarts>>

\* A broken connection, or any failure that is no SQL error.
ExecuteFails(t) ==
  /\ pc[t] = "execute"
  /\ Goto(t, "reset")
  /\ UNCHANGED <<leased, connection, slot, calls, restarts>>

\* The restart shows as an SQL error, after which the connection is closed.
ExecuteCloses(t) ==
  /\ pc[t] = "execute" /\ connection[slot[t]] = "stale"
  /\ connection' = [connection EXCEPT ![slot[t]] = "closed"]
  /\ Goto(t, "release")
  /\ UNCHANGED <<leased, slot, calls, restarts>>

\* Mutant: the lease is given back before the connection is reset.
ReleaseThenReset(t) ==
  /\ pc[t] = "reset"
  /\ IF leased[slot[t]]
     THEN leased' = [leased EXCEPT ![slot[t]] = FALSE] /\ UNCHANGED <<pc, connection>>
     ELSE /\ connection' = [connection EXCEPT ![slot[t]] = "none"]
          /\ Goto(t, "release") /\ UNCHANGED leased
  /\ UNCHANGED <<slot, calls, restarts>>

Reset(t) ==
  /\ pc[t] = "reset"
  /\ connection' = [connection EXCEPT ![slot[t]] = "none"]
  /\ Goto(t, "release")
  /\ UNCHANGED <<leased, slot, calls, restarts>>

\* Mutant: nobody is notified.
ReleaseSilently(t) ==
  /\ pc[t] = "release"
  /\ leased' = [leased EXCEPT ![slot[t]] = FALSE]
  /\ slot' = [slot EXCEPT ![t] = NoSlot]
  /\ Goto(t, "idle")
  /\ UNCHANGED <<connection, calls, restarts>>

Release(t) ==
  /\ pc[t] = "release"
  /\ leased' = [leased EXCEPT ![slot[t]] = FALSE]
  /\ slot' = [slot EXCEPT ![t] = NoSlot]
  /\ Goto(t, "notify")
  /\ UNCHANGED <<connection, calls, restarts>>

\* Mutant: waiting threads are notified only of the first free connection.
NotifyFirstFree(t) ==
  /\ pc[t] = "notify"
  /\ IF Waiting = {} \/ Cardinality(Free) > 1
     THEN Goto(t, "idle")
     ELSE \E w \in Waiting : pc' = [pc EXCEPT ![t] = "idle", ![w] = "woken"]
  /\ UNCHANGED <<leased, connection, slot, calls, restarts>>

\* The call returns when it has notified one waiting thread, if there is any.
Notify(t) ==
  /\ pc[t] = "notify"
  /\ IF Waiting = {}
     THEN Goto(t, "idle")
     ELSE \E w \in Waiting : pc' = [pc EXCEPT ![t] = "idle", ![w] = "woken"]
  /\ UNCHANGED <<leased, connection, slot, calls, restarts>>

ServerRestarts ==
  /\ restarts < MaxRestarts
  /\ restarts' = restarts + 1
  /\ connection' = [i \in Slots |-> IF connection[i] = "open" THEN "stale" ELSE connection[i]]
  /\ UNCHANGED <<leased, pc, slot, calls>>

ThreadStep(t) ==
  \/ Acquire(t) \/ EnsureConnection(t)
  \/ Execute(t) \/ ExecuteFails(t) \/ ExecuteCloses(t)
  \/ Reset(t) \/ Release(t) \/ Notify(t)
PoolNext ==
  \/ \E t \in Threads : PoolCall(t) \/ SpuriousWakeup(t) \/ ThreadStep(t)
  \/ ServerRestarts

PoolSpec == PoolInit /\ [][PoolNext]_poolVars
\* Threads run, and a statement or a connection attempt returns.  No wake-up is
\* owed to a waiting thread but the notifications.
PoolFairness == \A t \in Threads : WF_poolVars(ThreadStep(t))
FairPoolSpec == PoolSpec /\ PoolFairness
------------------------------------------------------------------------------
\* Types.  No thread ever finds that the connection it was promised is gone
\* ("lost an available lease", postgres_store.cpp:131).
PoolTypeOK ==
  /\ leased \in [Slots -> BOOLEAN]
  /\ connection \in [Slots -> Connections]
  /\ pc \in [Threads -> Steps]
  /\ slot \in [Threads -> Slots \cup {NoSlot}]
  /\ \A t \in Threads : (pc[t] \in Leased) <=> (slot[t] # NoSlot)
  /\ calls \in [Threads -> 0..MaxCalls] /\ restarts \in 0..MaxRestarts

\* A lease belongs to exactly one thread inside executeTransaction: no two
\* threads use one connection, and no way out of it keeps a lease.
LeasesMatchHolders ==
  /\ \A i \in Slots : leased[i] => \E t \in Threads : slot[t] = i
  /\ \A t \in Threads : slot[t] # NoSlot => leased[slot[t]]
  /\ \A t, u \in Threads : slot[t] = slot[u] /\ t # u => slot[t] = NoSlot

\* A transaction runs on a connection that nobody resets under it.
InUseIsConnected ==
  \A t \in Threads : pc[t] = "execute" => connection[slot[t]] \in {"open", "stale"}

\* Each connection has one user at most, and each user a connection that stays.
LeaseInvariant == PoolTypeOK /\ LeasesMatchHolders /\ InUseIsConnected

\* While threads wait, there is for every free connection a thread that is
\* about to notify one of them, or one that will look for a connection: no
\* notification is lost although it is sent without the mutex.
NoLostWakeup ==
  Waiting # {} =>
    Cardinality(Free) <= Cardinality({t \in Threads : pc[t] \in {"notify", "acquire", "woken"}})

\* Leases belong to their holders, none is lost, and none that is free keeps a
\* thread waiting.
PoolInvariant == LeaseInvariant /\ NoLostWakeup

\* Each call gets its connection and returns, whatever fails.
EveryCallReturns == \A t \in Threads : pc[t] # "idle" ~> pc[t] = "idle"
=============================================================================
