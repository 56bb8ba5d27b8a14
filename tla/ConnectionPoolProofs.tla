------------------------ MODULE ConnectionPoolProofs ------------------------
(***************************************************************************)
(* The conjunction of the checked invariants is inductive.  Only           *)
(* NoLostWakeup needs counting: a step moves at most one connection into   *)
(* Free, and then the thread that put it there into Pending.               *)
(***************************************************************************)
EXTENDS ConnectionPool, FiniteSetTheorems, TLAPS

Inv == PoolTypeOK /\ LeasesMatchHolders /\ InUseIsConnected /\ NoLostWakeup

Pending == {t \in Threads : pc[t] \in {"notify", "acquire", "woken"}}

LEMMA FreeFinite == IsFiniteSet(Free) /\ Cardinality(Free) \in Nat
<1>1. IsFiniteSet(Slots)
  BY SizeAssumption, FS_Interval DEF Slots
<1>2. Free \in SUBSET Slots
  BY DEF Free
<1> QED BY <1>1, <1>2, FS_Subset, FS_CardinalityType

LEMMA PendingFinite == IsFiniteSet(Pending) /\ Cardinality(Pending) \in Nat
<1>1. Pending \in SUBSET Threads
  BY DEF Pending
<1> QED BY <1>1, ThreadAssumption, FS_Subset, FS_CardinalityType

\* More members are no fewer.
LEMMA Grows ==
  ASSUME NEW S, NEW T, IsFiniteSet(T), S \subseteq T
  PROVE  Cardinality(S) <= Cardinality(T)
BY FS_Subset

LEMMA Initially == PoolInit => Inv
<1> SUFFICES ASSUME PoolInit PROVE Inv
  OBVIOUS
<1>1. PoolTypeOK
  BY PoolBounds, SlotAssumption
     DEF PoolInit, PoolTypeOK, Connections, Steps, Unleased, Leased
<1>2. LeasesMatchHolders
  BY DEF PoolInit, LeasesMatchHolders
<1>3. InUseIsConnected
  BY DEF PoolInit, InUseIsConnected
<1>4. Waiting = {}
  BY DEF PoolInit, Waiting
<1> QED BY <1>1, <1>2, <1>3, <1>4 DEF Inv, NoLostWakeup

\* A step that frees nothing, keeps who is pending, or adds to it, and lets
\* nobody start to wait keeps NoLostWakeup.
LEMMA NothingFreed ==
  ASSUME Inv, Free' \subseteq Free, Pending \subseteq Pending', Waiting' \subseteq Waiting
  PROVE  NoLostWakeup'
<1>1. CASE Waiting = {}
  <2>1. Waiting' = {}
    BY <1>1
  <2> QED BY <2>1 DEF NoLostWakeup
<1>2. CASE Waiting # {}
  <2>1. Cardinality(Free) <= Cardinality(Pending)
    BY <1>2 DEF Inv, NoLostWakeup, Pending
  <2>2. Cardinality(Free') <= Cardinality(Free)
    BY FreeFinite, Grows
  <2>3. IsFiniteSet(Pending') /\ Cardinality(Pending') \in Nat
    BY PendingFinite, ThreadAssumption, FS_Subset, FS_CardinalityType DEF Pending
  <2>4. IsFiniteSet(Free') /\ Cardinality(Free') \in Nat
    BY FreeFinite, FS_Subset, FS_CardinalityType
  <2>5. Cardinality(Pending) <= Cardinality(Pending')
    BY <2>3, Grows
  <2>6. Cardinality(Free') <= Cardinality(Pending')
    BY <2>1, <2>2, <2>3, <2>4, <2>5, FreeFinite, PendingFinite
  <2> QED BY <2>6 DEF NoLostWakeup, Pending
<1> QED BY <1>1, <1>2

LEMMA CallKeeps == ASSUME Inv, NEW t \in Threads, PoolCall(t) PROVE Inv'
<1>1. PoolTypeOK'
  BY PoolBounds
     DEF Inv, PoolTypeOK, PoolCall, Goto, Steps, Unleased, Leased
<1>2. LeasesMatchHolders' /\ InUseIsConnected'
  BY DEF Inv, PoolTypeOK, LeasesMatchHolders, InUseIsConnected, PoolCall, Goto
<1>3. Free' \subseteq Free /\ Pending \subseteq Pending' /\ Waiting' \subseteq Waiting
  BY DEF Inv, PoolTypeOK, PoolCall, Goto, Free, Pending, Waiting
<1> QED BY <1>1, <1>2, <1>3, NothingFreed DEF Inv

LEMMA SpuriousKeeps == ASSUME Inv, NEW t \in Threads, SpuriousWakeup(t) PROVE Inv'
<1>1. PoolTypeOK'
  BY DEF Inv, PoolTypeOK, SpuriousWakeup, Goto, Steps, Unleased, Leased
<1>2. LeasesMatchHolders' /\ InUseIsConnected'
  BY DEF Inv, PoolTypeOK, LeasesMatchHolders, InUseIsConnected, SpuriousWakeup, Goto
<1>3. Free' \subseteq Free /\ Pending \subseteq Pending' /\ Waiting' \subseteq Waiting
  BY DEF Inv, PoolTypeOK, SpuriousWakeup, Goto, Free, Pending, Waiting
<1> QED BY <1>1, <1>2, <1>3, NothingFreed DEF Inv

\* A thread with a connection works on it, or finds it broken: nobody else
\* holds that connection, so what becomes of it concerns nobody else.
LEMMA WorkKeeps ==
  ASSUME Inv, NEW t \in Threads,
         EnsureConnection(t) \/ Execute(t) \/ ExecuteFails(t) \/ ExecuteCloses(t) \/ Reset(t)
  PROVE  Inv'
<1> USE DEF Inv, EnsureConnection, Execute, ExecuteFails, ExecuteCloses, Reset, Goto
<1>1. slot[t] \in Slots /\ \A u \in Threads : slot[u] = slot[t] => u = t
  BY DEF PoolTypeOK, LeasesMatchHolders, Leased
<1>2. PoolTypeOK'
  BY <1>1 DEF PoolTypeOK, Steps, Unleased, Leased, Connections
<1>3. LeasesMatchHolders'
  BY DEF LeasesMatchHolders
<1>4. InUseIsConnected'
  <2> SUFFICES ASSUME NEW u \in Threads, pc'[u] = "execute"
               PROVE  connection'[slot'[u]] \in {"open", "stale"}
    BY DEF InUseIsConnected
  <2>1. CASE u = t
    BY <2>1, <1>1 DEF PoolTypeOK
  <2>2. CASE u # t
    <3>1. pc[u] = "execute" /\ slot'[u] = slot[u] /\ slot[u] # slot[t] /\ slot[u] \in Slots
      BY <2>2, <1>1 DEF PoolTypeOK, Leased
    <3>2. connection'[slot[u]] = connection[slot[u]]
      BY <3>1, <1>1 DEF PoolTypeOK
    <3> QED BY <3>1, <3>2 DEF InUseIsConnected
  <2> QED BY <2>1, <2>2
<1>5. Free' \subseteq Free /\ Pending \subseteq Pending' /\ Waiting' \subseteq Waiting
  BY DEF PoolTypeOK, Free, Pending, Waiting
<1> QED BY <1>2, <1>3, <1>4, <1>5, NothingFreed

\* A thread that looks for a connection is pending no longer: it takes one, or
\* there is none to be notified of.
LEMMA AcquireKeeps == ASSUME Inv, NEW t \in Threads, Acquire(t) PROVE Inv'
<1>1. CASE TakeSlot(t)
  <2> USE <1>1 DEF Inv, Acquire, TakeSlot, Goto
  <2>1. PICK i \in Free : /\ leased' = [leased EXCEPT ![i] = TRUE]
                          /\ slot' = [slot EXCEPT ![t] = i]
                          /\ pc' = [pc EXCEPT ![t] = "connect"]
    OBVIOUS
  <2>2. i \in Slots /\ ~leased[i] /\ slot[t] = NoSlot /\ i # NoSlot
    BY <2>1, SlotAssumption DEF Free, PoolTypeOK, Leased
  <2>3. PoolTypeOK'
    BY <2>1, <2>2 DEF PoolTypeOK, Steps, Unleased, Leased
  <2>4. LeasesMatchHolders'
    <3>1. \A u \in Threads : slot[u] # i
      BY <2>2 DEF LeasesMatchHolders
    <3>2. slot'[t] = i /\ \A u \in Threads : u # t => slot'[u] = slot[u]
      BY <2>1 DEF PoolTypeOK
    <3>3. leased'[i] /\ \A j \in Slots : j # i => leased'[j] = leased[j]
      BY <2>1, <2>2 DEF PoolTypeOK
    <3>4. \A u \in Threads : slot'[u] # NoSlot => leased'[slot'[u]]
      BY <3>1, <3>2, <3>3 DEF LeasesMatchHolders, PoolTypeOK
    <3>5. \A j \in Slots : leased'[j] => \E u \in Threads : slot'[u] = j
      <4> SUFFICES ASSUME NEW j \in Slots, leased'[j]
                   PROVE  \E u \in Threads : slot'[u] = j
        OBVIOUS
      <4>1. CASE j = i
        BY <4>1, <3>2
      <4>2. CASE j # i
        <5>1. PICK u \in Threads : slot[u] = j
          BY <4>2, <3>3 DEF LeasesMatchHolders
        <5>2. u # t
          BY <5>1, <2>2, SlotAssumption
        <5> QED BY <5>1, <5>2, <3>2
      <4> QED BY <4>1, <4>2
    <3>6. \A u, v \in Threads : slot'[u] = slot'[v] /\ u # v => slot'[u] = NoSlot
      BY <3>1, <3>2 DEF LeasesMatchHolders
    <3> QED BY <3>4, <3>5, <3>6 DEF LeasesMatchHolders
  <2>5. InUseIsConnected'
    BY <2>1, <2>2 DEF PoolTypeOK, InUseIsConnected, Leased
  <2>6. NoLostWakeup'
    <3>1. Free' = Free \ {i} /\ Pending' = Pending \ {t} /\ t \in Pending /\ Waiting' = Waiting
      BY <2>1, <2>2 DEF PoolTypeOK, Free, Pending, Waiting
    <3>2. Cardinality(Free') = Cardinality(Free) - 1
      BY <3>1, <2>1, FreeFinite, FS_RemoveElement
    <3>3. Cardinality(Pending') = Cardinality(Pending) - 1
      BY <3>1, PendingFinite, FS_RemoveElement
    <3>4. Waiting' # {} => Cardinality(Free') <= Cardinality(Pending')
      BY <3>1, <3>2, <3>3, FreeFinite, PendingFinite DEF NoLostWakeup, Pending
    <3> QED BY <3>4 DEF NoLostWakeup, Pending
  <2> QED BY <2>3, <2>4, <2>5, <2>6
<1>2. CASE Free = {} /\ Goto(t, "waiting") /\ UNCHANGED <<leased, slot>>
  <2> USE <1>2 DEF Inv, Acquire, Goto
  <2>1. PoolTypeOK'
    BY DEF PoolTypeOK, Steps, Unleased, Leased
  <2>2. LeasesMatchHolders' /\ InUseIsConnected'
    BY DEF PoolTypeOK, LeasesMatchHolders, InUseIsConnected
  <2>3. Free' = {} /\ Cardinality(Free') = 0
    BY FS_EmptySet DEF Free
  <2>4. Pending' \in SUBSET Threads
    BY DEF Pending
  <2>5. Cardinality(Pending') \in Nat
    BY <2>4, ThreadAssumption, FS_Subset, FS_CardinalityType
  <2>6. Cardinality(Free') <= Cardinality(Pending')
    BY <2>3, <2>5
  <2> QED BY <2>1, <2>2, <2>6 DEF NoLostWakeup, Pending
<1> QED BY <1>1, <1>2 DEF Acquire

\* The connection that becomes free has its own notification.
LEMMA ReleaseKeeps == ASSUME Inv, NEW t \in Threads, Release(t) PROVE Inv'
<1> USE DEF Inv, Release, Goto
<1>1. slot[t] \in Slots /\ leased[slot[t]] /\ \A u \in Threads : slot[u] = slot[t] => u = t
  BY DEF PoolTypeOK, LeasesMatchHolders, Leased
<1>2. PoolTypeOK'
  BY <1>1 DEF PoolTypeOK, Steps, Unleased, Leased
<1>3. LeasesMatchHolders'
  BY <1>1, SlotAssumption DEF PoolTypeOK, LeasesMatchHolders
<1>4. InUseIsConnected'
  BY <1>1 DEF PoolTypeOK, InUseIsConnected
<1>5. NoLostWakeup'
  <2>1. Free' = Free \cup {slot[t]} /\ slot[t] \notin Free
    BY <1>1 DEF PoolTypeOK, Free
  <2>2. Pending' = Pending \cup {t} /\ t \notin Pending /\ Waiting' = Waiting
    BY DEF PoolTypeOK, Pending, Waiting
  <2>3. Cardinality(Free') = Cardinality(Free) + 1
    BY <2>1, FreeFinite, FS_AddElement
  <2>4. Cardinality(Pending') = Cardinality(Pending) + 1
    BY <2>2, PendingFinite, FS_AddElement
  <2>5. Waiting' # {} => Cardinality(Free') <= Cardinality(Pending')
    BY <2>2, <2>3, <2>4, FreeFinite, PendingFinite DEF NoLostWakeup, Pending
  <2> QED BY <2>5 DEF NoLostWakeup, Pending
<1> QED BY <1>2, <1>3, <1>4, <1>5

\* The thread that is woken is pending in place of the one that woke it.
LEMMA NotifyKeeps == ASSUME Inv, NEW t \in Threads, Notify(t) PROVE Inv'
<1> USE DEF Inv, Notify, Goto
<1>1. PoolTypeOK'
  BY DEF PoolTypeOK, Steps, Unleased, Leased, Waiting
<1>2. LeasesMatchHolders' /\ InUseIsConnected'
  BY DEF PoolTypeOK, LeasesMatchHolders, InUseIsConnected, Waiting
<1>3. NoLostWakeup'
  <2>1. CASE Waiting = {}
    <3>1. Waiting' = {}
      BY <2>1 DEF PoolTypeOK, Waiting
    <3> QED BY <3>1 DEF NoLostWakeup
  <2>2. CASE Waiting # {}
    <3>1. PICK w \in Waiting : pc' = [pc EXCEPT ![t] = "idle", ![w] = "woken"]
      BY <2>2
    <3>2. w \in Threads /\ w # t /\ w \notin Pending /\ t \in Pending
      BY <3>1 DEF Waiting, Pending
    <3>3. Pending' = (Pending \ {t}) \cup {w} /\ Free' = Free
      BY <3>1, <3>2 DEF PoolTypeOK, Pending, Free
    <3>4. IsFiniteSet(Pending \ {t}) /\ Cardinality(Pending \ {t}) = Cardinality(Pending) - 1
      BY <3>2, PendingFinite, FS_RemoveElement
    <3>5. w \notin Pending \ {t}
      BY <3>2
    <3>6. Cardinality(Pending') = Cardinality(Pending \ {t}) + 1
      BY <3>3, <3>4, <3>5, FS_AddElement
    <3>7. Cardinality(Pending') = Cardinality(Pending)
      BY <3>4, <3>6, PendingFinite
    <3>8. Cardinality(Free') <= Cardinality(Pending')
      BY <2>2, <3>3, <3>7 DEF NoLostWakeup, Pending
    <3> QED BY <3>8 DEF NoLostWakeup, Pending
  <2> QED BY <2>1, <2>2
<1> QED BY <1>1, <1>2, <1>3

\* PostgreSQL goes away unnoticed: the connections look as open as before.
LEMMA RestartKeeps == ASSUME Inv, ServerRestarts PROVE Inv'
<1> USE DEF Inv, ServerRestarts
<1>1. PoolTypeOK'
  BY PoolBounds DEF PoolTypeOK, Connections
<1>2. LeasesMatchHolders'
  BY DEF LeasesMatchHolders
<1>3. InUseIsConnected'
  BY DEF PoolTypeOK, InUseIsConnected, Leased
<1>4. Free' \subseteq Free /\ Pending \subseteq Pending' /\ Waiting' \subseteq Waiting
  BY DEF Free, Pending, Waiting
<1> QED BY <1>1, <1>2, <1>3, <1>4, NothingFreed

LEMMA StutterKeeps == ASSUME Inv, UNCHANGED poolVars PROVE Inv'
BY DEF Inv, PoolTypeOK, LeasesMatchHolders, InUseIsConnected, NoLostWakeup, Waiting, Free, poolVars

LEMMA Inductive == PoolSpec => []Inv
<1>1. PoolInit => Inv
  BY Initially
<1>2. Inv /\ [PoolNext]_poolVars => Inv'
  BY CallKeeps, SpuriousKeeps, WorkKeeps, AcquireKeeps, ReleaseKeeps, NotifyKeeps,
     RestartKeeps, StutterKeeps DEF PoolNext, ThreadStep
<1> QED BY <1>1, <1>2, PTL DEF PoolSpec

\* Every field keeps its type, and a thread that is promised a connection
\* always finds one (PostgresPoolLeaseCoordinator::acquire).
THEOREM TypeCorrect == PoolSpec => []PoolTypeOK
<1>1. Inv => PoolTypeOK
  BY DEF Inv
<1> QED BY <1>1, Inductive, PTL

\* No two threads use one connection and no path through executeTransaction
\* loses one, for any number of threads and connections.
THEOREM LeaseCorrect == PoolSpec => []LeasesMatchHolders
<1>1. Inv => LeasesMatchHolders
  BY DEF Inv
<1> QED BY <1>1, Inductive, PTL

\* A connection is reset only by the thread that holds its lease.
THEOREM InUseCorrect == PoolSpec => []InUseIsConnected
<1>1. Inv => InUseIsConnected
  BY DEF Inv
<1> QED BY <1>1, Inductive, PTL

\* Leases, holders and connections fit together.
THEOREM LeasesCorrect == PoolSpec => []LeaseInvariant
<1>1. PoolTypeOK /\ LeasesMatchHolders /\ InUseIsConnected => LeaseInvariant
  BY DEF LeaseInvariant
<1> QED BY <1>1, TypeCorrect, LeaseCorrect, InUseCorrect, PTL

\* One notification for each release is enough, although it is sent after the
\* mutex is given up and other threads may take the connection first.
THEOREM WakeupCorrect == PoolSpec => []NoLostWakeup
<1>1. Inv => NoLostWakeup
  BY DEF Inv
<1> QED BY <1>1, Inductive, PTL

\* For any number of threads and connections, and whatever fails, connections are
\* leased to one thread at a time, come back, and wake up whoever waits for them.
THEOREM PoolCorrect == PoolSpec => []PoolInvariant
<1>1. LeaseInvariant /\ NoLostWakeup => PoolInvariant
  BY DEF PoolInvariant
<1> QED BY <1>1, LeasesCorrect, WakeupCorrect, PTL
=============================================================================
