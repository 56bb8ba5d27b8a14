---------------------------- MODULE CallsProofs ----------------------------
(***************************************************************************)
(* Proofs about the calls that take many steps: the plan executor, the     *)
(* agent calls with the gateway in front of them, the chat of the browser  *)
(* and the failover of the client; for any plans, threads, agents, streams *)
(* and servers.                                                            *)
(***************************************************************************)
EXTENDS Gateway, ChatStore, TaskExecutor, ClientFailover, SequenceTheorems,
        FiniteSetTheorems, WellFoundedInduction, TLAPS

------------------------------------------------------------------------------
(* TaskExecutor: the edges of a plan. *)

\* Every set of naturals that is not empty has a least element: the first
\* pending future, and the first layer of a circle.
LEMMA Least ==
  ASSUME NEW T \in SUBSET Nat, T # {}
  PROVE  \E x \in T : \A y \in T : x <= y
<1>1. PICK x \in T : \A y \in T : ~ (<<y, x>> \in OpToRel(<, Nat))
  BY NatLessThanWellFounded, WFMin
<1>2. \A y \in T : ~(y < x)
  BY <1>1 DEF OpToRel
<1> QED
  BY <1>2

\* First takes a member of the set (the order in which futures are collected).
LEMMA FirstIsMember ==
  ASSUME NEW S \in SUBSET Ids, S # {}
  PROVE  First(S) \in S
<1>1. \E i \in S : \A j \in S : i <= j
  BY Least, IdAssumption
<1> QED
  BY <1>1 DEF First

\* What is planned: ids of the model's answer, as many as it has entries at most.
LEMMA PlanFinite ==
  ASSUME tasks \in Seq(Entries)
  PROVE  /\ Planned \in SUBSET Ids /\ IsFiniteSet(Planned)
         /\ Len(tasks) \in Nat /\ Cardinality(Planned) <= Len(tasks)
         /\ IsFiniteSet((DOMAIN tasks) \X Ids)
<1>1. /\ DOMAIN tasks = 1..Len(tasks) /\ Len(tasks) \in Nat
      /\ \A n \in DOMAIN tasks : tasks[n] \in Entries
  BY LenProperties, ElementOfSeq
<1>2. Planned \in SUBSET Ids
  BY <1>1 DEF Planned, IdsOf, Entries
<1>3. IsFiniteSet(DOMAIN tasks) /\ Cardinality(DOMAIN tasks) = Len(tasks)
  BY <1>1, FS_Interval
<1>4. Cardinality(Planned) <= Len(tasks)
  <2> DEFINE f == [n \in DOMAIN tasks |-> tasks[n].id]
  <2>1. f \in Surjection(DOMAIN tasks, Planned)
    BY <1>1 DEF Surjection, Planned, IdsOf
  <2> QED
    BY <2>1, <1>3, FS_Surjection
<1>5. IsFiniteSet(Planned)
  BY <1>2, IdAssumption, FS_Subset
<1>6. IsFiniteSet((DOMAIN tasks) \X Ids)
  BY <1>3, IdAssumption, FS_Product
<1> QED
  BY <1>1, <1>2, <1>4, <1>5, <1>6

\* The edges are counted by naturals, and there are none exactly if i depends on
\* nothing in S.
LEMMA EdgesCounted ==
  ASSUME tasks \in Seq(Entries), NEW S \in SUBSET Ids, NEW i
  PROVE  /\ IsFiniteSet(EdgesFrom(S, i)) /\ Cardinality(EdgesFrom(S, i)) \in Nat
         /\ Cardinality(EdgesFrom(S, i)) = 0 <=> DepsOf(i) \cap S = {}
<1>1. IsFiniteSet((DOMAIN tasks) \X Ids)
  BY PlanFinite
<1>2. EdgesFrom(S, i) \in SUBSET ((DOMAIN tasks) \X Ids)
  BY DEF EdgesFrom
<1>3. IsFiniteSet(EdgesFrom(S, i))
  BY <1>1, <1>2, FS_Subset
<1>4. EdgesFrom(S, i) = {} <=> DepsOf(i) \cap S = {}
  <2>1. ASSUME NEW e \in EdgesFrom(S, i)
        PROVE  e[2] \in DepsOf(i) \cap S
    BY <2>1 DEF EdgesFrom, DepsOf
  <2>2. ASSUME NEW d \in DepsOf(i) \cap S
        PROVE  EdgesFrom(S, i) # {}
    <3>1. PICK n \in DOMAIN tasks : tasks[n].id = i /\ d \in tasks[n].deps
      BY <2>2 DEF DepsOf
    <3>2. <<n, d>> \in EdgesFrom(S, i)
      BY <3>1, <2>2 DEF EdgesFrom
    <3> QED
      BY <3>2
  <2> QED
    BY <2>1, <2>2
<1> QED
  BY <1>3, <1>4, FS_CardinalityType, FS_EmptySet

\* The edges from two sets of ids without a common one add up.
LEMMA EdgesAdd ==
  ASSUME tasks \in Seq(Entries), NEW S \in SUBSET Ids, NEW T \in SUBSET Ids, NEW i,
         S \cap T = {}
  PROVE  Cardinality(EdgesFrom(S \cup T, i))
           = Cardinality(EdgesFrom(S, i)) + Cardinality(EdgesFrom(T, i))
<1>1. EdgesFrom(S \cup T, i) = EdgesFrom(S, i) \cup EdgesFrom(T, i)
  BY DEF EdgesFrom
<1>2. EdgesFrom(S, i) \cap EdgesFrom(T, i) = {}
  BY DEF EdgesFrom
<1>3. IsFiniteSet(EdgesFrom(S, i)) /\ IsFiniteSet(EdgesFrom(T, i))
  BY EdgesCounted
<1>4. Cardinality(EdgesFrom(S, i)) \in Nat /\ Cardinality(EdgesFrom(T, i)) \in Nat
  BY EdgesCounted
<1>5. Cardinality(EdgesFrom(S, i) \cup EdgesFrom(T, i))
        = Cardinality(EdgesFrom(S, i)) + Cardinality(EdgesFrom(T, i))
            - Cardinality(EdgesFrom(S, i) \cap EdgesFrom(T, i))
  BY <1>3, FS_Union
<1>6. Cardinality(EdgesFrom(S, i) \cap EdgesFrom(T, i)) = 0
  BY <1>2, FS_EmptySet, Zenon
<1>7. Cardinality(EdgesFrom(S \cup T, i))
        = Cardinality(EdgesFrom(S, i)) + Cardinality(EdgesFrom(T, i)) - 0
  BY <1>1, <1>5, <1>6, Zenon
<1> QED
  BY <1>4, <1>7
------------------------------------------------------------------------------
(* topologicalLayers: the degrees are those of the edges that are left. *)

\* Dependencies are on subtasks of the plan (parsePlanResponse).
DepsPlanned == \A n \in DOMAIN tasks : tasks[n].deps \subseteq Planned

\* Layers are disjoint; each member is behind all it depends on, the last of
\* which is in the layer before.
LayersFit ==
  /\ \A m, n \in DOMAIN layers : m # n => layers[m] \cap layers[n] = {}
  /\ \A n \in DOMAIN layers : \A i \in layers[n] :
       /\ \A d \in DepsOf(i) : \E m \in DOMAIN layers : m < n /\ d \in layers[m]
       /\ n > 1 => \E d \in DepsOf(i) : d \in layers[n - 1]

\* While the layers are made: the degree counts the dependencies that are in no
\* layer, and those without any are in a layer or ready.
ReadyFits ==
  /\ \A i \in Planned : degree[i] = Cardinality(EdgesFrom(Planned \ Emitted, i))
  /\ \A i \in Planned : degree[i] = 0 <=> i \in Emitted \cup ready
  /\ ready \cap Emitted = {}
  /\ layers # <<>> => \A i \in ready : \E d \in DepsOf(i) : d \in layers[Len(layers)]

EndFits ==
  /\ pc = "thrown" => Circular \/ Cardinality(Planned) < Len(tasks)
  /\ Sorted => ~Circular /\ Emitted = Planned /\ Cardinality(Planned) = Len(tasks)

SortInv == DepsPlanned /\ LayersFit /\ (pc = "sort" => ReadyFits) /\ EndFits

\* What the layers are made of: sets of planned subtasks.
LEMMA LayersTyped ==
  ASSUME TypeOK
  PROVE  /\ DOMAIN layers = 1..Len(layers) /\ Len(layers) \in Nat
         /\ \A n \in DOMAIN layers : layers[n] \subseteq Planned /\ layers[n] \subseteq Emitted
         /\ Emitted \subseteq Planned /\ Planned \in SUBSET Ids
         /\ tasks \in Seq(Entries)
<1>1. layers \in Seq(SUBSET Planned) /\ tasks \in Seq(Entries)
  BY DEF TypeOK
<1>2. /\ DOMAIN layers = 1..Len(layers) /\ Len(layers) \in Nat
      /\ \A n \in DOMAIN layers : layers[n] \subseteq Planned
  BY <1>1, LenProperties, ElementOfSeq
<1>3. Planned \in SUBSET Ids
  BY <1>1, PlanFinite
<1> QED
  BY <1>1, <1>2, <1>3 DEF Emitted

\* Dependencies of a subtask are planned ones.
LEMMA DepsInPlan ==
  ASSUME DepsPlanned, NEW i
  PROVE  DepsOf(i) \subseteq Planned
BY DEF DepsPlanned, DepsOf

\* The layers of a plan make no circle: a least layer that meets one would hold
\* a subtask that depends on an earlier layer.
LEMMA LayersBreakCircles ==
  ASSUME TypeOK, LayersFit, Emitted = Planned
  PROVE  ~Circular
<1> SUFFICES ASSUME NEW S \in SUBSET Planned, S # {}, \A i \in S : DepsOf(i) \cap S # {}
             PROVE  FALSE
  BY DEF Circular
<1> DEFINE T == {n \in DOMAIN layers : layers[n] \cap S # {}}
<1>1. T \in SUBSET Nat
  BY LayersTyped
<1>2. T # {}
  BY DEF Emitted
<1>3. PICK n \in T : \A m \in T : n <= m
  BY <1>1, <1>2, Least
<1>4. PICK i \in S : i \in layers[n]
  OBVIOUS
<1>5. PICK d \in S : d \in DepsOf(i)
  OBVIOUS
<1>6. PICK m \in DOMAIN layers : m < n /\ d \in layers[m]
  BY <1>4, <1>5 DEF LayersFit
<1>7. m \in T
  BY <1>6
<1>8. n <= m /\ m \in Nat /\ n \in Nat
  BY <1>1, <1>3, <1>7
<1> QED
  BY <1>6, <1>8

\* One more layer: what was ready.
LEMMA EmitKeepsSort ==
  ASSUME TypeOK, SortInv, EmitLayer
  PROVE  /\ SortInv' /\ degree' \in [Planned -> Nat] /\ ready' \subseteq Planned
         /\ layers' \in Seq(SUBSET Planned)
<1> DEFINE Left == Planned \ Emitted
<1>1. /\ pc = "sort" /\ pc' = "sort" /\ layers' = Append(layers, ready)
      /\ degree' = [i \in Planned |-> degree[i] - Cardinality(EdgesFrom(ready, i))]
      /\ ready' = {i \in Planned : degree[i] # 0 /\ degree'[i] = 0}
      /\ tasks' = tasks
  BY DEF EmitLayer
<1>2. /\ Planned' = Planned
      /\ \A i : DepsOf(i)' = DepsOf(i)
      /\ \A S, i : EdgesFrom(S, i)' = EdgesFrom(S, i)
  BY <1>1 DEF Planned, IdsOf, DepsOf, EdgesFrom
<1>3. /\ DOMAIN layers = 1..Len(layers) /\ Len(layers) \in Nat
      /\ \A n \in DOMAIN layers : layers[n] \subseteq Planned /\ layers[n] \subseteq Emitted
      /\ Emitted \subseteq Planned /\ Planned \in SUBSET Ids
      /\ tasks \in Seq(Entries)
  BY LayersTyped
<1>4. ready \subseteq Planned /\ layers \in Seq(SUBSET Planned) /\ degree \in [Planned -> Nat]
  BY DEF TypeOK
<1>5. /\ layers' \in Seq(SUBSET Planned) /\ DOMAIN layers' = 1..Len(layers) + 1
      /\ Len(layers') = Len(layers) + 1
      /\ \A n \in DOMAIN layers : layers'[n] = layers[n]
      /\ layers'[Len(layers) + 1] = ready
  BY <1>1, <1>3, <1>4
<1>6. Emitted' = Emitted \cup ready
  <2>1. Emitted' = {i \in Planned : \E n \in 1..Len(layers) + 1 : i \in layers'[n]}
    BY <1>2, <1>5 DEF Emitted
  <2>2. \A i : (\E n \in 1..Len(layers) + 1 : i \in layers'[n])
                 <=> i \in ready \/ \E n \in DOMAIN layers : i \in layers[n]
    BY <1>3, <1>5
  <2> QED
    BY <2>1, <2>2, <1>4 DEF Emitted
<1>7. ReadyFits /\ LayersFit /\ DepsPlanned
  BY <1>1 DEF SortInv
<1>8. ready \subseteq Left /\ (Planned \ (Emitted \cup ready)) = Left \ ready
  BY <1>4, <1>7 DEF ReadyFits
<1>9. \A i \in Planned :
        /\ degree'[i] = Cardinality(EdgesFrom(Left \ ready, i))
        /\ degree'[i] \in Nat
        /\ Cardinality(EdgesFrom(ready, i)) \in Nat
        /\ degree[i] = degree'[i] + Cardinality(EdgesFrom(ready, i))
  <2> SUFFICES ASSUME NEW i \in Planned
               PROVE  /\ degree'[i] = Cardinality(EdgesFrom(Left \ ready, i))
                      /\ degree'[i] \in Nat
                      /\ Cardinality(EdgesFrom(ready, i)) \in Nat
                      /\ degree[i] = degree'[i] + Cardinality(EdgesFrom(ready, i))
    OBVIOUS
  <2>1. Left \ ready \in SUBSET Ids /\ ready \in SUBSET Ids
    BY <1>3, <1>4
  <2>2. /\ Cardinality(EdgesFrom(Left \ ready, i)) \in Nat
        /\ Cardinality(EdgesFrom(ready, i)) \in Nat
    BY <2>1, <1>3, EdgesCounted
  <2>3. Cardinality(EdgesFrom((Left \ ready) \cup ready, i))
          = Cardinality(EdgesFrom(Left \ ready, i)) + Cardinality(EdgesFrom(ready, i))
    <3>1. (Left \ ready) \cap ready = {}
      OBVIOUS
    <3> HIDE DEF Left
    <3> QED
      BY <2>1, <3>1, <1>3, EdgesAdd
  <2>4. (Left \ ready) \cup ready = Left
    BY <1>8
  <2>5. degree[i] = Cardinality(EdgesFrom(Left, i))
    BY <1>7 DEF ReadyFits
  <2>6. degree[i] = Cardinality(EdgesFrom(Left \ ready, i)) + Cardinality(EdgesFrom(ready, i))
    BY <2>3, <2>4, <2>5, Zenon
  <2>7. degree'[i] = degree[i] - Cardinality(EdgesFrom(ready, i))
    BY <1>1
  <2> HIDE DEF Left
  <2> QED
    BY <2>2, <2>6, <2>7
<1>10. degree' \in [Planned -> Nat]
  BY <1>1, <1>9
<1>11. \A i \in Planned : degree'[i] = 0 <=> i \in Emitted' \cup ready'
  <2> SUFFICES ASSUME NEW i \in Planned PROVE degree'[i] = 0 <=> i \in Emitted' \cup ready'
    OBVIOUS
  <2>1. degree[i] = 0 <=> i \in Emitted \cup ready
    BY <1>7 DEF ReadyFits
  <2>2. degree[i] = 0 => degree'[i] = 0
    BY <1>9
  <2> QED
    BY <1>1, <1>6, <2>1, <2>2
<1>12. \A i \in ready' : \E d \in DepsOf(i) : d \in ready
  <2> SUFFICES ASSUME NEW i \in ready' PROVE DepsOf(i) \cap ready # {}
    OBVIOUS
  <2>1. i \in Planned /\ Cardinality(EdgesFrom(ready, i)) # 0
    BY <1>1, <1>9
  <2>2. ready \in SUBSET Ids
    BY <1>3, <1>4
  <2> QED
    BY <2>1, <2>2, <1>3, EdgesCounted
<1>13. ReadyFits'
  <2>1. \A i \in Planned : degree'[i] = Cardinality(EdgesFrom(Planned \ Emitted, i))'
    BY <1>2, <1>6, <1>8, <1>9
  <2>2. ready' \cap Emitted' = {}
    <3>1. \A i \in Emitted' : degree[i] = 0
      BY <1>3, <1>4, <1>6, <1>7 DEF ReadyFits
    <3> QED
      BY <3>1, <1>1
  <2>3. \A i \in ready' : \E d \in DepsOf(i)' : d \in layers'[Len(layers')]
    BY <1>2, <1>5, <1>12
  <2> QED
    BY <2>1, <2>2, <2>3, <1>2, <1>11 DEF ReadyFits
<1>14. LayersFit'
  <2>1. \A m, n \in DOMAIN layers' : m # n => layers'[m] \cap layers'[n] = {}
    BY <1>3, <1>5, <1>7 DEF LayersFit, ReadyFits
  <2>2. ASSUME NEW n \in DOMAIN layers', NEW i \in layers'[n]
        PROVE  /\ \A d \in DepsOf(i) : \E m \in DOMAIN layers' : m < n /\ d \in layers'[m]
               /\ n > 1 => \E d \in DepsOf(i) : d \in layers'[n - 1]
    <3>1. CASE n \in DOMAIN layers
      <4>1. i \in layers[n]
        BY <3>1, <1>5
      <4>2. \A d \in DepsOf(i) : \E m \in DOMAIN layers : m < n /\ d \in layers[m]
        BY <3>1, <4>1, <1>7 DEF LayersFit
      <4>3. n > 1 => \E d \in DepsOf(i) : d \in layers[n - 1]
        BY <3>1, <4>1, <1>7 DEF LayersFit
      <4>4. n > 1 => n - 1 \in DOMAIN layers
        BY <3>1, <1>3
      <4>5. DOMAIN layers \subseteq DOMAIN layers'
        BY <1>3, <1>5
      <4> QED
        BY <4>2, <4>3, <4>4, <4>5, <1>5
    <3>2. CASE n \notin DOMAIN layers
      <4>1. n = Len(layers) + 1 /\ i \in ready
        BY <3>2, <1>3, <1>5
      <4>2. DepsOf(i) \subseteq Emitted
        <5>1. degree[i] = 0 /\ degree[i] = Cardinality(EdgesFrom(Left, i))
          BY <4>1, <1>4, <1>7 DEF ReadyFits
        <5>2. Left \in SUBSET Ids
          BY <1>3
        <5>3. DepsOf(i) \cap Left = {}
          <6> HIDE DEF Left
          <6> QED
            BY <5>1, <5>2, <1>3, EdgesCounted
        <5> QED
          BY <5>3, <1>7, DepsInPlan
      <4>3. \A d \in DepsOf(i) : \E m \in DOMAIN layers : d \in layers[m]
        BY <4>2 DEF Emitted
      <4>4. \A m \in DOMAIN layers : m \in DOMAIN layers' /\ m < n /\ layers'[m] = layers[m]
        BY <4>1, <1>3, <1>5
      <4>5. n > 1 => \E d \in DepsOf(i) : d \in layers'[n - 1]
        <5> SUFFICES ASSUME n > 1 PROVE \E d \in DepsOf(i) : d \in layers'[n - 1]
          OBVIOUS
        <5>1. layers # <<>> /\ n - 1 = Len(layers) /\ n - 1 \in DOMAIN layers
          BY <4>1, <1>3
        <5> QED
          BY <5>1, <4>1, <1>5, <1>7 DEF ReadyFits
      <4> QED
        BY <4>3, <4>4, <4>5
    <3> QED
      BY <3>1, <3>2
  <2> QED
    BY <2>1, <2>2, <1>2 DEF LayersFit
<1>15. DepsPlanned' /\ EndFits'
  BY <1>1, <1>2, <1>7 DEF DepsPlanned, EndFits, Sorted
<1> QED
  BY <1>1, <1>5, <1>10, <1>13, <1>14, <1>15 DEF SortInv

\* The plan is refused or executed.
LEMMA EndKeepsSort ==
  ASSUME TypeOK, SortInv, EndSort
  PROVE  SortInv'
<1>1. /\ pc = "sort" /\ ready = {} /\ tasks' = tasks /\ layers' = layers
      /\ degree' = degree /\ ready' = ready
      /\ pc' = IF Cardinality(Emitted) < Len(tasks) THEN "thrown" ELSE "layer"
  BY DEF EndSort, sorting
<1>2. /\ Planned' = Planned /\ Emitted' = Emitted /\ Circular' = Circular
      /\ DepsPlanned' = DepsPlanned /\ LayersFit' = LayersFit
  BY <1>1 DEF Planned, IdsOf, Emitted, Circular, DepsOf, DepsPlanned, LayersFit
<1>3. ReadyFits /\ LayersFit /\ DepsPlanned
  BY <1>1 DEF SortInv
<1>4. Emitted \subseteq Planned /\ Planned \in SUBSET Ids /\ tasks \in Seq(Entries)
  BY LayersTyped
<1>5. /\ IsFiniteSet(Planned) /\ Len(tasks) \in Nat /\ Cardinality(Planned) <= Len(tasks)
      /\ Cardinality(Planned) \in Nat
      /\ IsFiniteSet(Emitted) /\ Cardinality(Emitted) \in Nat
      /\ Cardinality(Emitted) <= Cardinality(Planned)
      /\ Cardinality(Emitted) = Cardinality(Planned) => Emitted = Planned
  BY <1>4, PlanFinite, FS_Subset, FS_CardinalityType
<1>6. CASE Cardinality(Emitted) < Len(tasks)
  <2>1. ASSUME Emitted # Planned
        PROVE  Circular
    <3> DEFINE S == Planned \ Emitted
    <3>1. S # {} /\ S \in SUBSET Planned /\ S \in SUBSET Ids
      BY <2>1, <1>4
    <3>2. ASSUME NEW i \in S
          PROVE  DepsOf(i) \cap S # {}
      <4>1. degree[i] # 0 /\ degree[i] = Cardinality(EdgesFrom(S, i))
        BY <1>1, <1>3 DEF ReadyFits
      <4> HIDE DEF S
      <4> QED
        BY <4>1, <3>1, <1>4, EdgesCounted
    <3> QED
      BY <3>1, <3>2 DEF Circular
  <2>2. Emitted = Planned => Cardinality(Planned) < Len(tasks)
    BY <1>6
  <2>3. EndFits'
    BY <2>1, <2>2, <1>1, <1>2, <1>6 DEF EndFits, Sorted
  <2> QED
    BY <2>3, <1>1, <1>2, <1>3, <1>6 DEF SortInv
<1>7. CASE ~(Cardinality(Emitted) < Len(tasks))
  <2>1. Emitted = Planned /\ Cardinality(Planned) = Len(tasks)
    BY <1>5, <1>7
  <2>2. ~Circular
    BY <2>1, <1>3, LayersBreakCircles
  <2>3. EndFits'
    BY <2>1, <2>2, <1>1, <1>2, <1>7 DEF EndFits, Sorted
  <2> QED
    BY <2>3, <1>1, <1>2, <1>3, <1>7 DEF SortInv
<1> QED
  BY <1>6, <1>7

\* The sorted plan stays as it is.
LEMMA SortStays ==
  ASSUME SortInv, UNCHANGED sorting, pc' = "sort" <=> pc = "sort",
         pc' = "thrown" <=> pc = "thrown"
  PROVE  /\ SortInv' /\ Planned' = Planned /\ Emitted' = Emitted /\ Sorted' = Sorted
<1>1. tasks' = tasks /\ layers' = layers /\ degree' = degree /\ ready' = ready
  BY DEF sorting
<1>2. /\ Planned' = Planned /\ Emitted' = Emitted /\ Circular' = Circular
      /\ DepsPlanned' = DepsPlanned /\ LayersFit' = LayersFit
  BY <1>1 DEF Planned, IdsOf, Emitted, Circular, DepsOf, DepsPlanned, LayersFit
<1>3. ReadyFits => ReadyFits'
  BY <1>1, <1>2 DEF ReadyFits, EdgesFrom, DepsOf
<1>4. Sorted' = Sorted
  BY DEF Sorted
<1> QED
  BY <1>1, <1>2, <1>3, <1>4 DEF SortInv, EndFits
------------------------------------------------------------------------------
(* TaskExecutor: what has been made of each subtask. *)

Fresh(i) == worker[i] = "idle" /\ result[i] = "none" /\ progress[i] = "none"
Open(i) == worker[i] # "idle" /\ result[i] = "none" /\ progress[i] = "start"
Recorded(i) ==
  /\ worker[i] # "idle" /\ result[i] # "none"
  /\ progress[i] = IF result[i] = "ok" THEN "complete" ELSE "failed"
TimedOut(i) ==
  /\ worker[i] = "idle" /\ result[i] = "timeout"
  /\ progress[i] = "none" \/ (progress[i] = "start" /\ Layer = {i})
Collecting == pc \in {"collect", "waiting", "join"}

\* The subtasks of earlier layers are answered and their calls over, those of
\* later ones untouched, and the current layer is as far as the program counter
\* says.
SubtaskFits(i, n) ==
  /\ n < at => Recorded(i) /\ worker[i] # "running"
  /\ n > at => IF pc = "done" THEN TimedOut(i) /\ progress[i] = "none" ELSE Fresh(i)
  /\ n = at =>
       /\ pc = "layer" => Fresh(i)
       /\ pc \in {"single", "call"} =>
            worker[i] = "idle" /\ result[i] = "none" /\ progress[i] = "start" /\ Layer = {i}
       /\ pc = "calling" => Open(i) /\ Layer = {i}
       /\ pc = "start" => IF i \in pending THEN Open(i) ELSE Fresh(i)
       /\ Collecting => IF i \in pending THEN Open(i) ELSE Recorded(i)
       /\ pc = "done" => TimedOut(i)

SubtasksFit == Sorted => \A n \in DOMAIN layers : \A i \in layers[n] : SubtaskFits(i, n)
Unstarted == ~Sorted => at = 1 /\ \A i \in Planned : Fresh(i)
PendingFits ==
  pending # {} => pc \in {"start", "collect", "waiting"} /\ pending \subseteq Layer

ExecInv == TypeOK /\ SortInv /\ Unstarted /\ PendingFits /\ SubtasksFit

LEMMA ExecInit == Init => ExecInv
<1> SUFFICES ASSUME Init PROVE ExecInv
  OBVIOUS
<1>1. PICK answer \in Answers : tasks = parsePlanResponse(answer)
  BY DEF Init
<1>2. /\ DOMAIN answer = 1..Len(answer) /\ Len(answer) \in Nat
      /\ \A n \in DOMAIN answer : answer[n] \in Entries
  BY AnswerAssumption, LenProperties, ElementOfSeq
<1>3. /\ DOMAIN tasks = 1..Len(answer)
      /\ tasks = [n \in 1..Len(answer) |->
                    [id |-> answer[n].id, deps |-> answer[n].deps \cap IdsOf(answer)]]
  <2>1. \A S : \A e \in Entries : [e EXCEPT !.deps = @ \cap S]
                                = [id |-> e.id, deps |-> e.deps \cap S]
    BY DEF Entries
  <2>2. tasks = [n \in DOMAIN answer |-> [answer[n] EXCEPT !.deps = @ \cap IdsOf(answer)]]
    BY <1>1 DEF parsePlanResponse
  <2> QED
    BY <2>1, <2>2, <1>2
<1>4. \A n \in 1..Len(answer) :
        /\ tasks[n] \in Entries /\ tasks[n].id = answer[n].id
        /\ tasks[n].deps \subseteq IdsOf(answer)
  BY <1>2, <1>3 DEF Entries
<1>5. Planned = IdsOf(answer)
  BY <1>2, <1>3, <1>4 DEF Planned, IdsOf
<1>6. DepsPlanned
  BY <1>3, <1>4, <1>5 DEF DepsPlanned
<1>7. tasks \in Seq(Entries)
  BY <1>2, <1>3, <1>4
<1>8. /\ degree = [i \in Planned |-> InDegree(tasks, i)]
      /\ ready = {i \in Planned : degree[i] = 0}
      /\ layers = <<>> /\ at = 1 /\ pending = {}
      /\ worker = [i \in Planned |-> "idle"]
      /\ result = [i \in Planned |-> "none"]
      /\ progress = [i \in Planned |-> "none"]
      /\ clock = "early" /\ pc = "sort"
  BY DEF Init
<1>9. Planned \in SUBSET Ids
  BY <1>7, PlanFinite
<1>10. Emitted = {} /\ Planned \ Emitted = Planned
  BY <1>8 DEF Emitted
<1>11. \A i \in Planned : degree[i] = Cardinality(EdgesFrom(Planned, i))
  <2> SUFFICES ASSUME NEW i \in Planned
               PROVE  {e \in (DOMAIN tasks) \X Ids :
                          tasks[e[1]].id = i /\ e[2] \in tasks[e[1]].deps}
                        = EdgesFrom(Planned, i)
    BY <1>8 DEF InDegree
  <2>1. ASSUME NEW e \in (DOMAIN tasks) \X Ids, e[2] \in tasks[e[1]].deps
        PROVE  e \in (DOMAIN tasks) \X Planned
    BY <2>1, <1>6 DEF DepsPlanned
  <2>2. (DOMAIN tasks) \X Planned \subseteq (DOMAIN tasks) \X Ids
    BY <1>9
  <2> QED
    BY <2>1, <2>2 DEF EdgesFrom
<1>12. ReadyFits
  BY <1>8, <1>10, <1>11 DEF ReadyFits
<1>13. degree \in [Planned -> Nat]
  BY <1>7, <1>8, <1>9, <1>11, EdgesCounted
<1>14. TypeOK
  BY <1>7, <1>8, <1>13 DEF TypeOK, Calls, Results, Steps
<1>15. LayersFit /\ EndFits
  BY <1>8 DEF LayersFit, EndFits, Sorted
<1>16. Unstarted /\ PendingFits /\ SubtasksFit
  BY <1>8 DEF Unstarted, PendingFits, SubtasksFit, Sorted, Fresh
<1> QED
  BY <1>6, <1>12, <1>14, <1>15, <1>16 DEF ExecInv, SortInv

\* What the invariant says of the current layer.
LEMMA ExecFacts ==
  ASSUME ExecInv
  PROVE  /\ DOMAIN layers = 1..Len(layers) /\ Len(layers) \in Nat /\ at \in Nat \ {0}
         /\ at <= Len(layers) => Layer \subseteq Planned /\ at \in DOMAIN layers
         /\ Planned \in SUBSET Ids /\ pending \subseteq Planned
         /\ worker \in [Planned -> Calls] /\ result \in [Planned -> Results]
         /\ progress \in [Planned -> {"none", "start", "complete", "failed"}]
         /\ \A n \in DOMAIN layers : \A i \in layers[n] :
              i \in Planned /\ (i \in Layer /\ at <= Len(layers) => n = at)
<1>1. TypeOK /\ LayersFit
  BY DEF ExecInv, SortInv
<1>2. /\ DOMAIN layers = 1..Len(layers) /\ Len(layers) \in Nat /\ at \in Nat \ {0}
      /\ \A n \in DOMAIN layers : layers[n] \subseteq Planned
      /\ Planned \in SUBSET Ids
  BY <1>1, LayersTyped DEF TypeOK
<1>3. at <= Len(layers) => at \in DOMAIN layers
  BY <1>2
<1>4. \A n \in DOMAIN layers : \A i \in layers[n] : i \in Layer /\ at <= Len(layers) => n = at
  BY <1>1, <1>3 DEF LayersFit, Layer
<1> QED
  BY <1>1, <1>2, <1>3, <1>4 DEF TypeOK, Layer

\* The subtasks whose future is collected next.
LEMMA FirstPending ==
  ASSUME ExecInv, pending # {}, pc \in {"collect", "waiting"}
  PROVE  /\ First(pending) \in pending /\ First(pending) \in Planned
         /\ First(pending) \in Layer /\ Open(First(pending))
         /\ at \in DOMAIN layers
<1>1. First(pending) \in pending /\ First(pending) \in Planned
  BY ExecFacts, FirstIsMember
<1>2. pc \in {"collect", "waiting"} /\ pending \subseteq Layer /\ at <= Len(layers)
  BY DEF ExecInv, PendingFits, TypeOK
<1>3. at \in DOMAIN layers
  BY <1>2, ExecFacts
<1>4. SubtaskFits(First(pending), at)
  BY <1>1, <1>2, <1>3 DEF ExecInv, SubtasksFit, Sorted, Layer
<1> QED
  BY <1>1, <1>2, <1>3, <1>4 DEF SubtaskFits, Collecting

\* The deadline has passed before a layer.
LEMMA TimeOutRestKeeps ==
  ASSUME ExecInv, TimeOutRest
  PROVE  ExecInv'
<1>1. /\ pc = "layer" /\ pc' = "done" /\ at <= Len(layers)
      /\ result' = Marked(Remaining, "timeout", result)
      /\ tasks' = tasks /\ degree' = degree /\ ready' = ready /\ layers' = layers
      /\ at' = at /\ pending' = pending /\ worker' = worker /\ progress' = progress
      /\ clock' = clock
  BY DEF TimeOutRest, sorting
<1>2. /\ TypeOK /\ SortInv /\ Unstarted /\ PendingFits /\ SubtasksFit
  BY DEF ExecInv
<1>3. /\ DOMAIN layers = 1..Len(layers) /\ Len(layers) \in Nat /\ at \in Nat \ {0}
      /\ at <= Len(layers) => Layer \subseteq Planned /\ at \in DOMAIN layers
      /\ Planned \in SUBSET Ids /\ pending \subseteq Planned
      /\ worker \in [Planned -> Calls] /\ result \in [Planned -> Results]
      /\ progress \in [Planned -> {"none", "start", "complete", "failed"}]
      /\ \A n \in DOMAIN layers : \A i \in layers[n] :
           i \in Planned /\ (i \in Layer /\ at <= Len(layers) => n = at)
  BY ExecFacts
<1>4. SortInv' /\ Planned' = Planned /\ Emitted' = Emitted /\ Sorted' = Sorted
  BY <1>1, <1>2, SortStays DEF sorting
<1>5. /\ result' \in [Planned -> Results]
      /\ \A i \in Planned : result'[i] = IF i \in Remaining THEN "timeout" ELSE result[i]
  BY <1>1, <1>3 DEF Marked, Results
<1>6. \A n \in DOMAIN layers : \A i \in layers[n] :
        n >= at /\ result[i] = "none" => i \in Remaining
  BY <1>3 DEF Remaining
<1>7. \A i \in Remaining : result[i] = "none"
  BY DEF Remaining
<1>10. TypeOK'
  BY <1>1, <1>2, <1>3, <1>4, <1>5 DEF TypeOK, Steps
<1>11. Unstarted' /\ PendingFits'
  BY <1>1, <1>2, <1>4 DEF Unstarted, PendingFits, Sorted, Layer, Fresh
<1>12. SubtasksFit'
  <2> SUFFICES ASSUME Sorted, NEW n \in DOMAIN layers, NEW i \in layers[n]
               PROVE  SubtaskFits(i, n)'
    BY <1>1, <1>4 DEF SubtasksFit
  <2>1. SubtaskFits(i, n) /\ n \in Nat /\ i \in Planned
    BY <1>2, <1>3 DEF SubtasksFit
  <2>2. i \in Layer /\ at <= Len(layers) => n = at
    BY <1>3
  <2>3. n >= at /\ result[i] = "none" => i \in Remaining
    BY <1>6
  <2>4. /\ result'[i] = IF i \in Remaining THEN "timeout" ELSE result[i]
        /\ i \in Remaining => result[i] = "none"
    BY <2>1, <1>5, <1>7
  <2>5. at \in Nat
    BY <1>3
  <2> QED
    BY <1>1, <2>1, <2>2, <2>3, <2>4, <2>5 DEF SubtaskFits, Layer, Fresh, Open,
      Recorded, TimedOut, Collecting
<1> QED
  BY <1>4, <1>10, <1>11, <1>12 DEF ExecInv

\* The deadline has passed before the call of a single subtask.
LEMMA TimeOutSingleKeeps ==
  ASSUME ExecInv, TimeOutSingle
  PROVE  ExecInv'
<1>1. /\ pc = "single" /\ pc' = "done"
      /\ result' = Marked(Remaining, "timeout", result)
      /\ tasks' = tasks /\ degree' = degree /\ ready' = ready /\ layers' = layers
      /\ at' = at /\ pending' = pending /\ worker' = worker /\ progress' = progress
      /\ clock' = clock
  BY DEF TimeOutSingle, sorting
<1>2. /\ TypeOK /\ SortInv /\ Unstarted /\ PendingFits /\ SubtasksFit
  BY DEF ExecInv
<1>3. /\ DOMAIN layers = 1..Len(layers) /\ Len(layers) \in Nat /\ at \in Nat \ {0}
      /\ at <= Len(layers) => Layer \subseteq Planned /\ at \in DOMAIN layers
      /\ Planned \in SUBSET Ids /\ pending \subseteq Planned
      /\ worker \in [Planned -> Calls] /\ result \in [Planned -> Results]
      /\ progress \in [Planned -> {"none", "start", "complete", "failed"}]
      /\ \A n \in DOMAIN layers : \A i \in layers[n] :
           i \in Planned /\ (i \in Layer /\ at <= Len(layers) => n = at)
  BY ExecFacts
<1>4. SortInv' /\ Planned' = Planned /\ Emitted' = Emitted /\ Sorted' = Sorted
  BY <1>1, <1>2, SortStays DEF sorting
<1>5. /\ result' \in [Planned -> Results]
      /\ \A i \in Planned : result'[i] = IF i \in Remaining THEN "timeout" ELSE result[i]
  BY <1>1, <1>3 DEF Marked, Results
<1>6. \A n \in DOMAIN layers : \A i \in layers[n] :
        n >= at /\ result[i] = "none" => i \in Remaining
  BY <1>3 DEF Remaining
<1>7. \A i \in Remaining : result[i] = "none"
  BY DEF Remaining
<1>10. TypeOK'
  BY <1>1, <1>2, <1>3, <1>4, <1>5 DEF TypeOK, Steps
<1>11. Unstarted' /\ PendingFits'
  BY <1>1, <1>2, <1>4 DEF Unstarted, PendingFits, Sorted, Layer, Fresh
<1>12. SubtasksFit'
  <2> SUFFICES ASSUME Sorted, NEW n \in DOMAIN layers, NEW i \in layers[n]
               PROVE  SubtaskFits(i, n)'
    BY <1>1, <1>4 DEF SubtasksFit
  <2>1. SubtaskFits(i, n) /\ n \in Nat /\ i \in Planned
    BY <1>2, <1>3 DEF SubtasksFit
  <2>2. i \in Layer /\ at <= Len(layers) => n = at
    BY <1>3
  <2>3. n >= at /\ result[i] = "none" => i \in Remaining
    BY <1>6
  <2>4. /\ result'[i] = IF i \in Remaining THEN "timeout" ELSE result[i]
        /\ i \in Remaining => result[i] = "none"
    BY <2>1, <1>5, <1>7
  <2>5. at \in Nat
    BY <1>3
  <2> QED
    BY <1>1, <2>1, <2>2, <2>3, <2>4, <2>5 DEF SubtaskFits, Layer, Fresh, Open,
      Recorded, TimedOut, Collecting
<1> QED
  BY <1>4, <1>10, <1>11, <1>12 DEF ExecInv

\* A layer of one subtask is begun.
LEMMA StartSingleKeeps ==
  ASSUME ExecInv, StartSingle
  PROVE  ExecInv'
<1>1. /\ pc = "layer" /\ pc' = "single" /\ at <= Len(layers) /\ Cardinality(Layer) = 1
      /\ progress' = Marked(Layer, "start", progress)
      /\ tasks' = tasks /\ degree' = degree /\ ready' = ready /\ layers' = layers
      /\ at' = at /\ pending' = pending /\ worker' = worker /\ result' = result
      /\ clock' = clock
  BY DEF StartSingle, sorting
<1>2. /\ TypeOK /\ SortInv /\ Unstarted /\ PendingFits /\ SubtasksFit
  BY DEF ExecInv
<1>3. /\ DOMAIN layers = 1..Len(layers) /\ Len(layers) \in Nat /\ at \in Nat \ {0}
      /\ at <= Len(layers) => Layer \subseteq Planned /\ at \in DOMAIN layers
      /\ Planned \in SUBSET Ids /\ pending \subseteq Planned
      /\ worker \in [Planned -> Calls] /\ result \in [Planned -> Results]
      /\ progress \in [Planned -> {"none", "start", "complete", "failed"}]
      /\ \A n \in DOMAIN layers : \A i \in layers[n] :
           i \in Planned /\ (i \in Layer /\ at <= Len(layers) => n = at)
  BY ExecFacts
<1>4. SortInv' /\ Planned' = Planned /\ Emitted' = Emitted /\ Sorted' = Sorted
  BY <1>1, <1>2, SortStays DEF sorting
<1>5. /\ progress' \in [Planned -> {"none", "start", "complete", "failed"}]
      /\ \A i \in Planned : progress'[i] = IF i \in Layer THEN "start" ELSE progress[i]
  BY <1>1, <1>3 DEF Marked
<1>6. \A i \in Layer : Layer = {i}
  <2>1. IsFiniteSet(Layer)
    BY <1>1, <1>3, IdAssumption, FS_Subset
  <2>2. \E i : Layer = {i}
    BY <2>1, <1>1, FS_Singleton
  <2> QED
    BY <2>2
<1>10. TypeOK'
  BY <1>1, <1>2, <1>3, <1>4, <1>5 DEF TypeOK, Steps
<1>11. Unstarted' /\ PendingFits'
  BY <1>1, <1>2, <1>4 DEF Unstarted, PendingFits, Sorted, Layer, Fresh
<1>12. SubtasksFit'
  <2> SUFFICES ASSUME Sorted, NEW n \in DOMAIN layers, NEW i \in layers[n]
               PROVE  SubtaskFits(i, n)'
    BY <1>1, <1>4 DEF SubtasksFit
  <2>1. SubtaskFits(i, n) /\ n \in Nat /\ i \in Planned
    BY <1>2, <1>3 DEF SubtasksFit
  <2>2. i \in Layer /\ at <= Len(layers) => n = at
    BY <1>3
  <2> QED
    BY <1>1, <1>3, <2>1, <2>2, <1>5, <1>6 DEF SubtaskFits, Layer, Fresh, Open,
      Recorded, TimedOut, Collecting
<1> QED
  BY <1>4, <1>10, <1>11, <1>12 DEF ExecInv

\* Time is left for the call of a single subtask.
LEMMA TimeLeftKeeps ==
  ASSUME ExecInv, TimeLeft
  PROVE  ExecInv'
<1>1. /\ pc = "single" /\ pc' = "call" /\ pending' = pending
      /\ tasks' = tasks /\ degree' = degree /\ ready' = ready /\ layers' = layers
      /\ at' = at /\ worker' = worker /\ result' = result /\ progress' = progress
      /\ clock' = clock
  BY DEF TimeLeft, sorting
<1>2. /\ TypeOK /\ SortInv /\ Unstarted /\ PendingFits /\ SubtasksFit
  BY DEF ExecInv
<1>3. /\ DOMAIN layers = 1..Len(layers) /\ Len(layers) \in Nat /\ at \in Nat \ {0}
      /\ at <= Len(layers) => Layer \subseteq Planned /\ at \in DOMAIN layers
      /\ Planned \in SUBSET Ids /\ pending \subseteq Planned
      /\ worker \in [Planned -> Calls] /\ result \in [Planned -> Results]
      /\ progress \in [Planned -> {"none", "start", "complete", "failed"}]
      /\ \A n \in DOMAIN layers : \A i \in layers[n] :
           i \in Planned /\ (i \in Layer /\ at <= Len(layers) => n = at)
  BY ExecFacts
<1>4. SortInv' /\ Planned' = Planned /\ Emitted' = Emitted /\ Sorted' = Sorted
  BY <1>1, <1>2, SortStays DEF sorting
<1>10. TypeOK'
  BY <1>1, <1>2, <1>3, <1>4 DEF TypeOK, Steps
<1>11. Unstarted' /\ PendingFits'
  BY <1>1, <1>2, <1>4 DEF Unstarted, PendingFits, Sorted, Layer, Fresh
<1>12. SubtasksFit'
  <2> SUFFICES ASSUME Sorted, NEW n \in DOMAIN layers, NEW i \in layers[n]
               PROVE  SubtaskFits(i, n)'
    BY <1>1, <1>4 DEF SubtasksFit
  <2>1. SubtaskFits(i, n) /\ n \in Nat /\ i \in Planned
    BY <1>2, <1>3 DEF SubtasksFit
  <2>2. i \in Layer /\ at <= Len(layers) => n = at
    BY <1>3
  <2> QED
    BY <1>1, <1>3, <2>1, <2>2 DEF SubtaskFits, Layer, Fresh, Open,
      Recorded, TimedOut, Collecting
<1> QED
  BY <1>4, <1>10, <1>11, <1>12 DEF ExecInv

\* The call of a single subtask begins.
LEMMA CallSingleKeeps ==
  ASSUME ExecInv, CallSingle
  PROVE  ExecInv'
<1>1. /\ pc = "call" /\ pc' = "calling"
      /\ worker' = Marked(Layer, "running", worker)
      /\ tasks' = tasks /\ degree' = degree /\ ready' = ready /\ layers' = layers
      /\ at' = at /\ pending' = pending /\ progress' = progress /\ result' = result
      /\ clock' = clock
  BY DEF CallSingle, sorting
<1>2. /\ TypeOK /\ SortInv /\ Unstarted /\ PendingFits /\ SubtasksFit
  BY DEF ExecInv
<1>3. /\ DOMAIN layers = 1..Len(layers) /\ Len(layers) \in Nat /\ at \in Nat \ {0}
      /\ at <= Len(layers) => Layer \subseteq Planned /\ at \in DOMAIN layers
      /\ Planned \in SUBSET Ids /\ pending \subseteq Planned
      /\ worker \in [Planned -> Calls] /\ result \in [Planned -> Results]
      /\ progress \in [Planned -> {"none", "start", "complete", "failed"}]
      /\ \A n \in DOMAIN layers : \A i \in layers[n] :
           i \in Planned /\ (i \in Layer /\ at <= Len(layers) => n = at)
  BY ExecFacts
<1>4. SortInv' /\ Planned' = Planned /\ Emitted' = Emitted /\ Sorted' = Sorted
  BY <1>1, <1>2, SortStays DEF sorting
<1>5. /\ worker' \in [Planned -> Calls]
      /\ \A i \in Planned : worker'[i] = IF i \in Layer THEN "running" ELSE worker[i]
  BY <1>1, <1>3 DEF Marked, Calls
<1>6. at <= Len(layers)
  BY <1>1, <1>2 DEF TypeOK
<1>10. TypeOK'
  BY <1>1, <1>2, <1>3, <1>4, <1>5 DEF TypeOK, Steps
<1>11. Unstarted' /\ PendingFits'
  BY <1>1, <1>2, <1>4 DEF Unstarted, PendingFits, Sorted, Layer, Fresh
<1>12. SubtasksFit'
  <2> SUFFICES ASSUME Sorted, NEW n \in DOMAIN layers, NEW i \in layers[n]
               PROVE  SubtaskFits(i, n)'
    BY <1>1, <1>4 DEF SubtasksFit
  <2>1. SubtaskFits(i, n) /\ n \in Nat /\ i \in Planned
    BY <1>2, <1>3 DEF SubtasksFit
  <2>2. i \in Layer /\ at <= Len(layers) => n = at
    BY <1>3
  <2> QED
    BY <1>1, <1>3, <2>1, <2>2, <1>5, <1>6 DEF SubtaskFits, Layer, Fresh, Open,
      Recorded, TimedOut, Collecting
<1> QED
  BY <1>4, <1>10, <1>11, <1>12 DEF ExecInv

\* A layer of several subtasks is begun.
LEMMA StartLayerKeeps ==
  ASSUME ExecInv, StartLayer
  PROVE  ExecInv'
<1>1. /\ pc = "layer" /\ pc' = "start" /\ at <= Len(layers) /\ pending' = pending
      /\ tasks' = tasks /\ degree' = degree /\ ready' = ready /\ layers' = layers
      /\ at' = at /\ worker' = worker /\ result' = result /\ progress' = progress
      /\ clock' = clock
  BY DEF StartLayer, sorting
<1>2. /\ TypeOK /\ SortInv /\ Unstarted /\ PendingFits /\ SubtasksFit
  BY DEF ExecInv
<1>3. /\ DOMAIN layers = 1..Len(layers) /\ Len(layers) \in Nat /\ at \in Nat \ {0}
      /\ at <= Len(layers) => Layer \subseteq Planned /\ at \in DOMAIN layers
      /\ Planned \in SUBSET Ids /\ pending \subseteq Planned
      /\ worker \in [Planned -> Calls] /\ result \in [Planned -> Results]
      /\ progress \in [Planned -> {"none", "start", "complete", "failed"}]
      /\ \A n \in DOMAIN layers : \A i \in layers[n] :
           i \in Planned /\ (i \in Layer /\ at <= Len(layers) => n = at)
  BY ExecFacts
<1>4. SortInv' /\ Planned' = Planned /\ Emitted' = Emitted /\ Sorted' = Sorted
  BY <1>1, <1>2, SortStays DEF sorting
<1>5. pending = {}
  BY <1>1, <1>2 DEF PendingFits
<1>10. TypeOK'
  BY <1>1, <1>2, <1>3, <1>4 DEF TypeOK, Steps
<1>11. Unstarted' /\ PendingFits'
  BY <1>1, <1>2, <1>4 DEF Unstarted, PendingFits, Sorted, Layer, Fresh
<1>12. SubtasksFit'
  <2> SUFFICES ASSUME Sorted, NEW n \in DOMAIN layers, NEW i \in layers[n]
               PROVE  SubtaskFits(i, n)'
    BY <1>1, <1>4 DEF SubtasksFit
  <2>1. SubtaskFits(i, n) /\ n \in Nat /\ i \in Planned
    BY <1>2, <1>3 DEF SubtasksFit
  <2>2. i \in Layer /\ at <= Len(layers) => n = at
    BY <1>3
  <2> QED
    BY <1>1, <1>3, <1>5, <2>1, <2>2 DEF SubtaskFits, Layer, Fresh, Open,
      Recorded, TimedOut, Collecting
<1> QED
  BY <1>4, <1>10, <1>11, <1>12 DEF ExecInv

\* One more subtask of the layer is started.
LEMMA StartSubtaskKeeps ==
  ASSUME ExecInv, StartSubtask
  PROVE  ExecInv'
<1>1. /\ pc = "start" /\ pc' = pc /\ pending # Layer /\ result' = result
      /\ tasks' = tasks /\ degree' = degree /\ ready' = ready /\ layers' = layers
      /\ at' = at /\ clock' = clock
  BY DEF StartSubtask, sorting
<1>2. /\ TypeOK /\ SortInv /\ Unstarted /\ PendingFits /\ SubtasksFit
  BY DEF ExecInv
<1>3. /\ DOMAIN layers = 1..Len(layers) /\ Len(layers) \in Nat /\ at \in Nat \ {0}
      /\ at <= Len(layers) => Layer \subseteq Planned /\ at \in DOMAIN layers
      /\ Planned \in SUBSET Ids /\ pending \subseteq Planned
      /\ worker \in [Planned -> Calls] /\ result \in [Planned -> Results]
      /\ progress \in [Planned -> {"none", "start", "complete", "failed"}]
      /\ \A n \in DOMAIN layers : \A i \in layers[n] :
           i \in Planned /\ (i \in Layer /\ at <= Len(layers) => n = at)
  BY ExecFacts
<1>4. SortInv' /\ Planned' = Planned /\ Emitted' = Emitted /\ Sorted' = Sorted
  BY <1>1, <1>2, SortStays DEF sorting
<1>5. at <= Len(layers) /\ pending \subseteq Layer
  BY <1>1, <1>2 DEF TypeOK, PendingFits
<1>6. PICK k \in Layer \ pending :
        /\ k \in Planned
        /\ worker' = [worker EXCEPT ![k] = "running"]
        /\ progress' = [progress EXCEPT ![k] = "start"]
        /\ pending' = pending \cup {k}
  <2>1. Layer \ pending # {} /\ Layer \ pending \in SUBSET Planned
    BY <1>1, <1>3, <1>5
  <2>2. First(Layer \ pending) \in Layer \ pending
    BY <2>1, <1>3, FirstIsMember
  <2> QED
    BY <2>1, <2>2 DEF StartSubtask
<1>7. /\ worker' \in [Planned -> Calls]
      /\ progress' \in [Planned -> {"none", "start", "complete", "failed"}]
      /\ \A i \in Planned :
           /\ worker'[i] = IF i = k THEN "running" ELSE worker[i]
           /\ progress'[i] = IF i = k THEN "start" ELSE progress[i]
  BY <1>3, <1>6 DEF Calls
<1>10. TypeOK'
  BY <1>1, <1>2, <1>3, <1>4, <1>5, <1>6, <1>7 DEF TypeOK, Steps
<1>11. Unstarted' /\ PendingFits'
  BY <1>1, <1>2, <1>4, <1>5, <1>6, <1>7 DEF Unstarted, PendingFits, Sorted, Layer, Fresh
<1>12. SubtasksFit'
  <2> SUFFICES ASSUME Sorted, NEW n \in DOMAIN layers, NEW i \in layers[n]
               PROVE  SubtaskFits(i, n)'
    BY <1>1, <1>4 DEF SubtasksFit
  <2>1. SubtaskFits(i, n) /\ n \in Nat /\ i \in Planned
    BY <1>2, <1>3 DEF SubtasksFit
  <2>2. i \in Layer /\ at <= Len(layers) => n = at
    BY <1>3
  <2> QED
    BY <1>1, <1>3, <2>1, <2>2, <1>5, <1>6, <1>7 DEF SubtaskFits, Layer, Fresh, Open,
      Recorded, TimedOut, Collecting
<1> QED
  BY <1>4, <1>10, <1>11, <1>12 DEF ExecInv

\* All of the layer are started.
LEMMA AllStartedKeeps ==
  ASSUME ExecInv, AllStarted
  PROVE  ExecInv'
<1>1. /\ pc = "start" /\ pc' = "collect" /\ pending = Layer /\ pending' = pending
      /\ tasks' = tasks /\ degree' = degree /\ ready' = ready /\ layers' = layers
      /\ at' = at /\ worker' = worker /\ result' = result /\ progress' = progress
      /\ clock' = clock
  BY DEF AllStarted, sorting
<1>2. /\ TypeOK /\ SortInv /\ Unstarted /\ PendingFits /\ SubtasksFit
  BY DEF ExecInv
<1>3. /\ DOMAIN layers = 1..Len(layers) /\ Len(layers) \in Nat /\ at \in Nat \ {0}
      /\ at <= Len(layers) => Layer \subseteq Planned /\ at \in DOMAIN layers
      /\ Planned \in SUBSET Ids /\ pending \subseteq Planned
      /\ worker \in [Planned -> Calls] /\ result \in [Planned -> Results]
      /\ progress \in [Planned -> {"none", "start", "complete", "failed"}]
      /\ \A n \in DOMAIN layers : \A i \in layers[n] :
           i \in Planned /\ (i \in Layer /\ at <= Len(layers) => n = at)
  BY ExecFacts
<1>4. SortInv' /\ Planned' = Planned /\ Emitted' = Emitted /\ Sorted' = Sorted
  BY <1>1, <1>2, SortStays DEF sorting
<1>10. TypeOK'
  BY <1>1, <1>2, <1>3, <1>4 DEF TypeOK, Steps
<1>11. Unstarted' /\ PendingFits'
  BY <1>1, <1>2, <1>4 DEF Unstarted, PendingFits, Sorted, Layer, Fresh
<1>12. SubtasksFit'
  <2> SUFFICES ASSUME Sorted, NEW n \in DOMAIN layers, NEW i \in layers[n]
               PROVE  SubtaskFits(i, n)'
    BY <1>1, <1>4 DEF SubtasksFit
  <2>1. SubtaskFits(i, n) /\ n \in Nat /\ i \in Planned
    BY <1>2, <1>3 DEF SubtasksFit
  <2>2. i \in Layer /\ at <= Len(layers) => n = at
    BY <1>3
  <2> QED
    BY <1>1, <1>3, <2>1, <2>2 DEF SubtaskFits, Layer, Fresh, Open,
      Recorded, TimedOut, Collecting
<1> QED
  BY <1>4, <1>10, <1>11, <1>12 DEF ExecInv

\* All futures are collected.
LEMMA EndCollectKeeps ==
  ASSUME ExecInv, EndCollect
  PROVE  ExecInv'
<1>1. /\ pc = "collect" /\ pc' = "join" /\ pending = {} /\ pending' = pending
      /\ tasks' = tasks /\ degree' = degree /\ ready' = ready /\ layers' = layers
      /\ at' = at /\ worker' = worker /\ result' = result /\ progress' = progress
      /\ clock' = clock
  BY DEF EndCollect, sorting
<1>2. /\ TypeOK /\ SortInv /\ Unstarted /\ PendingFits /\ SubtasksFit
  BY DEF ExecInv
<1>3. /\ DOMAIN layers = 1..Len(layers) /\ Len(layers) \in Nat /\ at \in Nat \ {0}
      /\ at <= Len(layers) => Layer \subseteq Planned /\ at \in DOMAIN layers
      /\ Planned \in SUBSET Ids /\ pending \subseteq Planned
      /\ worker \in [Planned -> Calls] /\ result \in [Planned -> Results]
      /\ progress \in [Planned -> {"none", "start", "complete", "failed"}]
      /\ \A n \in DOMAIN layers : \A i \in layers[n] :
           i \in Planned /\ (i \in Layer /\ at <= Len(layers) => n = at)
  BY ExecFacts
<1>4. SortInv' /\ Planned' = Planned /\ Emitted' = Emitted /\ Sorted' = Sorted
  BY <1>1, <1>2, SortStays DEF sorting
<1>10. TypeOK'
  BY <1>1, <1>2, <1>3, <1>4 DEF TypeOK, Steps
<1>11. Unstarted' /\ PendingFits'
  BY <1>1, <1>2, <1>4 DEF Unstarted, PendingFits, Sorted, Layer, Fresh
<1>12. SubtasksFit'
  <2> SUFFICES ASSUME Sorted, NEW n \in DOMAIN layers, NEW i \in layers[n]
               PROVE  SubtaskFits(i, n)'
    BY <1>1, <1>4 DEF SubtasksFit
  <2>1. SubtaskFits(i, n) /\ n \in Nat /\ i \in Planned
    BY <1>2, <1>3 DEF SubtasksFit
  <2>2. i \in Layer /\ at <= Len(layers) => n = at
    BY <1>3
  <2> QED
    BY <1>1, <1>3, <2>1, <2>2 DEF SubtaskFits, Layer, Fresh, Open,
      Recorded, TimedOut, Collecting
<1> QED
  BY <1>4, <1>10, <1>11, <1>12 DEF ExecInv

\* The executor waits for a future.
LEMMA AwaitFutureKeeps ==
  ASSUME ExecInv, AwaitFuture
  PROVE  ExecInv'
<1>1. /\ pc = "collect" /\ pc' = "waiting" /\ pending # {} /\ pending' = pending
      /\ tasks' = tasks /\ degree' = degree /\ ready' = ready /\ layers' = layers
      /\ at' = at /\ worker' = worker /\ result' = result /\ progress' = progress
      /\ clock' = clock
  BY DEF AwaitFuture, sorting
<1>2. /\ TypeOK /\ SortInv /\ Unstarted /\ PendingFits /\ SubtasksFit
  BY DEF ExecInv
<1>3. /\ DOMAIN layers = 1..Len(layers) /\ Len(layers) \in Nat /\ at \in Nat \ {0}
      /\ at <= Len(layers) => Layer \subseteq Planned /\ at \in DOMAIN layers
      /\ Planned \in SUBSET Ids /\ pending \subseteq Planned
      /\ worker \in [Planned -> Calls] /\ result \in [Planned -> Results]
      /\ progress \in [Planned -> {"none", "start", "complete", "failed"}]
      /\ \A n \in DOMAIN layers : \A i \in layers[n] :
           i \in Planned /\ (i \in Layer /\ at <= Len(layers) => n = at)
  BY ExecFacts
<1>4. SortInv' /\ Planned' = Planned /\ Emitted' = Emitted /\ Sorted' = Sorted
  BY <1>1, <1>2, SortStays DEF sorting
<1>10. TypeOK'
  BY <1>1, <1>2, <1>3, <1>4 DEF TypeOK, Steps
<1>11. Unstarted' /\ PendingFits'
  BY <1>1, <1>2, <1>4 DEF Unstarted, PendingFits, Sorted, Layer, Fresh
<1>12. SubtasksFit'
  <2> SUFFICES ASSUME Sorted, NEW n \in DOMAIN layers, NEW i \in layers[n]
               PROVE  SubtaskFits(i, n)'
    BY <1>1, <1>4 DEF SubtasksFit
  <2>1. SubtaskFits(i, n) /\ n \in Nat /\ i \in Planned
    BY <1>2, <1>3 DEF SubtasksFit
  <2>2. i \in Layer /\ at <= Len(layers) => n = at
    BY <1>3
  <2> QED
    BY <1>1, <1>3, <2>1, <2>2 DEF SubtaskFits, Layer, Fresh, Open,
      Recorded, TimedOut, Collecting
<1> QED
  BY <1>4, <1>10, <1>11, <1>12 DEF ExecInv

\* All layers are executed.
LEMMA ReturnKeeps ==
  ASSUME ExecInv, Return
  PROVE  ExecInv'
<1>1. /\ pc = "layer" /\ pc' = "done" /\ at > Len(layers) /\ pending' = pending
      /\ tasks' = tasks /\ degree' = degree /\ ready' = ready /\ layers' = layers
      /\ at' = at /\ worker' = worker /\ result' = result /\ progress' = progress
      /\ clock' = clock
  BY DEF Return, sorting
<1>2. /\ TypeOK /\ SortInv /\ Unstarted /\ PendingFits /\ SubtasksFit
  BY DEF ExecInv
<1>3. /\ DOMAIN layers = 1..Len(layers) /\ Len(layers) \in Nat /\ at \in Nat \ {0}
      /\ at <= Len(layers) => Layer \subseteq Planned /\ at \in DOMAIN layers
      /\ Planned \in SUBSET Ids /\ pending \subseteq Planned
      /\ worker \in [Planned -> Calls] /\ result \in [Planned -> Results]
      /\ progress \in [Planned -> {"none", "start", "complete", "failed"}]
      /\ \A n \in DOMAIN layers : \A i \in layers[n] :
           i \in Planned /\ (i \in Layer /\ at <= Len(layers) => n = at)
  BY ExecFacts
<1>4. SortInv' /\ Planned' = Planned /\ Emitted' = Emitted /\ Sorted' = Sorted
  BY <1>1, <1>2, SortStays DEF sorting
<1>10. TypeOK'
  BY <1>1, <1>2, <1>3, <1>4 DEF TypeOK, Steps
<1>11. Unstarted' /\ PendingFits'
  BY <1>1, <1>2, <1>4 DEF Unstarted, PendingFits, Sorted, Layer, Fresh
<1>12. SubtasksFit'
  <2> SUFFICES ASSUME Sorted, NEW n \in DOMAIN layers, NEW i \in layers[n]
               PROVE  SubtaskFits(i, n)'
    BY <1>1, <1>4 DEF SubtasksFit
  <2>1. SubtaskFits(i, n) /\ n \in Nat /\ i \in Planned
    BY <1>2, <1>3 DEF SubtasksFit
  <2>2. i \in Layer /\ at <= Len(layers) => n = at
    BY <1>3
  <2> QED
    BY <1>1, <1>3, <2>1, <2>2 DEF SubtaskFits, Layer, Fresh, Open,
      Recorded, TimedOut, Collecting
<1> QED
  BY <1>4, <1>10, <1>11, <1>12 DEF ExecInv

\* The calls of a layer are over.
LEMMA JoinLayerKeeps ==
  ASSUME ExecInv, JoinLayer
  PROVE  ExecInv'
<1>1. /\ pc = "join" /\ pc' = "layer" /\ Running = {} /\ at' = at + 1 /\ pending' = pending
      /\ tasks' = tasks /\ degree' = degree /\ ready' = ready /\ layers' = layers
      /\ worker' = worker /\ result' = result /\ progress' = progress
      /\ clock' = clock
  BY DEF JoinLayer, sorting
<1>2. /\ TypeOK /\ SortInv /\ Unstarted /\ PendingFits /\ SubtasksFit
  BY DEF ExecInv
<1>3. /\ DOMAIN layers = 1..Len(layers) /\ Len(layers) \in Nat /\ at \in Nat \ {0}
      /\ at <= Len(layers) => Layer \subseteq Planned /\ at \in DOMAIN layers
      /\ Planned \in SUBSET Ids /\ pending \subseteq Planned
      /\ worker \in [Planned -> Calls] /\ result \in [Planned -> Results]
      /\ progress \in [Planned -> {"none", "start", "complete", "failed"}]
      /\ \A n \in DOMAIN layers : \A i \in layers[n] :
           i \in Planned /\ (i \in Layer /\ at <= Len(layers) => n = at)
  BY ExecFacts
<1>4. SortInv' /\ Planned' = Planned /\ Emitted' = Emitted /\ Sorted' = Sorted
  BY <1>1, <1>2, SortStays DEF sorting
<1>5. pending = {}
  BY <1>1, <1>2 DEF PendingFits
<1>6. \A i \in Planned : worker[i] # "running"
  BY <1>1 DEF Running
<1>10. TypeOK'
  BY <1>1, <1>2, <1>3, <1>4 DEF TypeOK, Steps
<1>11. Unstarted' /\ PendingFits'
  BY <1>1, <1>2, <1>4, <1>3, <1>5 DEF Unstarted, PendingFits, Sorted, Layer, Fresh
<1>12. SubtasksFit'
  <2> SUFFICES ASSUME Sorted, NEW n \in DOMAIN layers, NEW i \in layers[n]
               PROVE  SubtaskFits(i, n)'
    BY <1>1, <1>4 DEF SubtasksFit
  <2>1. SubtaskFits(i, n) /\ n \in Nat /\ i \in Planned
    BY <1>2, <1>3 DEF SubtasksFit
  <2>2. i \in Layer /\ at <= Len(layers) => n = at
    BY <1>3
  <2> QED
    BY <1>1, <1>3, <2>1, <2>2, <1>5, <1>6 DEF SubtaskFits, Layer, Fresh, Open,
      Recorded, TimedOut, Collecting
<1> QED
  BY <1>4, <1>10, <1>11, <1>12 DEF ExecInv

\* A future is given up unwaited.
LEMMA SkipFutureKeeps ==
  ASSUME ExecInv, SkipFuture
  PROVE  ExecInv'
<1>1. /\ pc \in {"collect", "waiting"} /\ pc' = "collect" /\ pending # {}
      /\ tasks' = tasks /\ degree' = degree /\ ready' = ready /\ layers' = layers
      /\ at' = at /\ worker' = worker /\ clock' = clock
  BY DEF SkipFuture, sorting
<1>2. /\ TypeOK /\ SortInv /\ Unstarted /\ PendingFits /\ SubtasksFit
  BY DEF ExecInv
<1>3. /\ DOMAIN layers = 1..Len(layers) /\ Len(layers) \in Nat /\ at \in Nat \ {0}
      /\ at <= Len(layers) => Layer \subseteq Planned /\ at \in DOMAIN layers
      /\ Planned \in SUBSET Ids /\ pending \subseteq Planned
      /\ worker \in [Planned -> Calls] /\ result \in [Planned -> Results]
      /\ progress \in [Planned -> {"none", "start", "complete", "failed"}]
      /\ \A n \in DOMAIN layers : \A i \in layers[n] :
           i \in Planned /\ (i \in Layer /\ at <= Len(layers) => n = at)
  BY ExecFacts
<1>4. SortInv' /\ Planned' = Planned /\ Emitted' = Emitted /\ Sorted' = Sorted
  BY <1>1, <1>2, SortStays DEF sorting
<1>5. PICK value \in {"ok", "failed", "timeout"} :
        /\ result' = [result EXCEPT ![First(pending)] = value]
        /\ progress' = [progress EXCEPT ![First(pending)] =
                          IF value = "ok" THEN "complete" ELSE "failed"]
        /\ pending' = pending \ {First(pending)}
  BY DEF SkipFuture, Record, Outcomes
<1>6. /\ First(pending) \in pending /\ First(pending) \in Planned
      /\ First(pending) \in Layer /\ Open(First(pending)) /\ at \in DOMAIN layers
  BY <1>1, FirstPending
<1>7. /\ result' \in [Planned -> Results]
      /\ progress' \in [Planned -> {"none", "start", "complete", "failed"}]
      /\ \A i \in Planned :
           /\ result'[i] = IF i = First(pending) THEN value ELSE result[i]
           /\ progress'[i] = IF i # First(pending) THEN progress[i]
                             ELSE IF value = "ok" THEN "complete" ELSE "failed"
  BY <1>3, <1>5, <1>6 DEF Results, Outcomes
<1>8. pc' = "collect"
  BY <1>1
<1>10. TypeOK'
  BY <1>1, <1>2, <1>3, <1>4, <1>5, <1>7 DEF TypeOK, Steps
<1>11. Unstarted' /\ PendingFits'
  BY <1>1, <1>2, <1>4, <1>5, <1>7 DEF Unstarted, PendingFits, Sorted, Layer, Fresh
<1>12. SubtasksFit'
  <2> SUFFICES ASSUME Sorted, NEW n \in DOMAIN layers, NEW i \in layers[n]
               PROVE  SubtaskFits(i, n)'
    BY <1>1, <1>4 DEF SubtasksFit
  <2>1. SubtaskFits(i, n) /\ n \in Nat /\ i \in Planned
    BY <1>2, <1>3 DEF SubtasksFit
  <2>2. i \in Layer /\ at <= Len(layers) => n = at
    BY <1>3
  <2> QED
    BY <1>1, <1>3, <2>1, <2>2, <1>5, <1>6, <1>7 DEF SubtaskFits, Layer, Fresh, Open,
      Recorded, TimedOut, Collecting
<1> QED
  BY <1>4, <1>10, <1>11, <1>12 DEF ExecInv

\* A future is ready, or is given up.
LEMMA CollectFutureKeeps ==
  ASSUME ExecInv, CollectFuture
  PROVE  ExecInv'
<1>1. /\ pc \in {"collect", "waiting"} /\ pc' = "collect" /\ pending # {}
      /\ tasks' = tasks /\ degree' = degree /\ ready' = ready /\ layers' = layers
      /\ at' = at /\ worker' = worker /\ clock' = clock
  BY DEF CollectFuture, sorting, ExecInv, TypeOK
<1>2. /\ TypeOK /\ SortInv /\ Unstarted /\ PendingFits /\ SubtasksFit
  BY DEF ExecInv
<1>3. /\ DOMAIN layers = 1..Len(layers) /\ Len(layers) \in Nat /\ at \in Nat \ {0}
      /\ at <= Len(layers) => Layer \subseteq Planned /\ at \in DOMAIN layers
      /\ Planned \in SUBSET Ids /\ pending \subseteq Planned
      /\ worker \in [Planned -> Calls] /\ result \in [Planned -> Results]
      /\ progress \in [Planned -> {"none", "start", "complete", "failed"}]
      /\ \A n \in DOMAIN layers : \A i \in layers[n] :
           i \in Planned /\ (i \in Layer /\ at <= Len(layers) => n = at)
  BY ExecFacts
<1>4. SortInv' /\ Planned' = Planned /\ Emitted' = Emitted /\ Sorted' = Sorted
  BY <1>1, <1>2, SortStays DEF sorting
<1>5. PICK value \in {"ok", "failed", "timeout"} :
        /\ result' = [result EXCEPT ![First(pending)] = value]
        /\ progress' = [progress EXCEPT ![First(pending)] =
                          IF value = "ok" THEN "complete" ELSE "failed"]
        /\ pending' = pending \ {First(pending)}
  BY DEF CollectFuture, Record, Outcomes
<1>6. /\ First(pending) \in pending /\ First(pending) \in Planned
      /\ First(pending) \in Layer /\ Open(First(pending)) /\ at \in DOMAIN layers
  BY <1>1, FirstPending
<1>7. /\ result' \in [Planned -> Results]
      /\ progress' \in [Planned -> {"none", "start", "complete", "failed"}]
      /\ \A i \in Planned :
           /\ result'[i] = IF i = First(pending) THEN value ELSE result[i]
           /\ progress'[i] = IF i # First(pending) THEN progress[i]
                             ELSE IF value = "ok" THEN "complete" ELSE "failed"
  BY <1>3, <1>5, <1>6 DEF Results, Outcomes
<1>8. pc' = "collect"
  BY <1>1
<1>10. TypeOK'
  BY <1>1, <1>2, <1>3, <1>4, <1>5, <1>7 DEF TypeOK, Steps
<1>11. Unstarted' /\ PendingFits'
  BY <1>1, <1>2, <1>4, <1>5, <1>7 DEF Unstarted, PendingFits, Sorted, Layer, Fresh
<1>12. SubtasksFit'
  <2> SUFFICES ASSUME Sorted, NEW n \in DOMAIN layers, NEW i \in layers[n]
               PROVE  SubtaskFits(i, n)'
    BY <1>1, <1>4 DEF SubtasksFit
  <2>1. SubtaskFits(i, n) /\ n \in Nat /\ i \in Planned
    BY <1>2, <1>3 DEF SubtasksFit
  <2>2. i \in Layer /\ at <= Len(layers) => n = at
    BY <1>3
  <2> QED
    BY <1>1, <1>3, <2>1, <2>2, <1>5, <1>6, <1>7 DEF SubtaskFits, Layer, Fresh, Open,
      Recorded, TimedOut, Collecting
<1> QED
  BY <1>4, <1>10, <1>11, <1>12 DEF ExecInv

\* The call of a single subtask is over.
LEMMA EndSingleKeeps ==
  ASSUME ExecInv, EndSingle
  PROVE  ExecInv'
<1>1. /\ pc = "calling" /\ pc' = "layer" /\ at' = at + 1 /\ pending' = pending
      /\ tasks' = tasks /\ degree' = degree /\ ready' = ready /\ layers' = layers
      /\ worker' = worker /\ clock' = clock
  BY DEF EndSingle, sorting
<1>2. /\ TypeOK /\ SortInv /\ Unstarted /\ PendingFits /\ SubtasksFit
  BY DEF ExecInv
<1>3. /\ DOMAIN layers = 1..Len(layers) /\ Len(layers) \in Nat /\ at \in Nat \ {0}
      /\ at <= Len(layers) => Layer \subseteq Planned /\ at \in DOMAIN layers
      /\ Planned \in SUBSET Ids /\ pending \subseteq Planned
      /\ worker \in [Planned -> Calls] /\ result \in [Planned -> Results]
      /\ progress \in [Planned -> {"none", "start", "complete", "failed"}]
      /\ \A n \in DOMAIN layers : \A i \in layers[n] :
           i \in Planned /\ (i \in Layer /\ at <= Len(layers) => n = at)
  BY ExecFacts
<1>4. SortInv' /\ Planned' = Planned /\ Emitted' = Emitted /\ Sorted' = Sorted
  BY <1>1, <1>2, SortStays DEF sorting
<1>5. PICK i \in Layer :
        /\ worker[i] \in Outcomes
        /\ result' = [result EXCEPT ![i] = worker[i]]
        /\ progress' = [progress EXCEPT ![i] = IF worker[i] = "ok" THEN "complete" ELSE "failed"]
  BY DEF EndSingle, Record
<1>6. at <= Len(layers) /\ i \in Planned /\ at \in DOMAIN layers /\ pending = {}
  BY <1>1, <1>2, <1>3, <1>5 DEF TypeOK, PendingFits
<1>7. Open(i) /\ Layer = {i}
  BY <1>1, <1>2, <1>5, <1>6 DEF SubtasksFit, SubtaskFits, Sorted, Layer
<1>8. /\ result' \in [Planned -> Results]
      /\ progress' \in [Planned -> {"none", "start", "complete", "failed"}]
      /\ \A j \in Planned :
           /\ result'[j] = IF j = i THEN worker[i] ELSE result[j]
           /\ progress'[j] = IF j # i THEN progress[j]
                             ELSE IF worker[i] = "ok" THEN "complete" ELSE "failed"
  BY <1>3, <1>5, <1>6 DEF Results, Outcomes
<1>10. TypeOK'
  BY <1>1, <1>2, <1>3, <1>4, <1>8 DEF TypeOK, Steps
<1>11. Unstarted' /\ PendingFits'
  BY <1>1, <1>2, <1>4, <1>3, <1>6 DEF Unstarted, PendingFits, Sorted, Layer, Fresh
<1>12. SubtasksFit'
  <2> SUFFICES ASSUME Sorted, NEW n \in DOMAIN layers, NEW j \in layers[n]
               PROVE  SubtaskFits(j, n)'
    BY <1>1, <1>4 DEF SubtasksFit
  <2>1. SubtaskFits(j, n) /\ n \in Nat /\ j \in Planned
    BY <1>2, <1>3 DEF SubtasksFit
  <2>2. j \in Layer /\ at <= Len(layers) => n = at
    BY <1>3
  <2> QED
    BY <1>1, <1>3, <2>1, <2>2, <1>5, <1>6, <1>7, <1>8 DEF SubtaskFits, Layer, Fresh, Open,
      Recorded, TimedOut, Collecting, Outcomes
<1> QED
  BY <1>4, <1>10, <1>11, <1>12 DEF ExecInv

\* A layer is made.
LEMMA EmitLayerKeeps ==
  ASSUME ExecInv, EmitLayer
  PROVE  ExecInv'
<1>1. /\ pc = "sort" /\ pc' = "sort" /\ tasks' = tasks /\ at' = at /\ pending' = pending
      /\ worker' = worker /\ result' = result /\ progress' = progress /\ clock' = clock
  BY DEF EmitLayer
<1>2. TypeOK /\ SortInv /\ Unstarted /\ PendingFits
  BY DEF ExecInv
<1>3. /\ SortInv' /\ degree' \in [Planned -> Nat] /\ ready' \subseteq Planned
      /\ layers' \in Seq(SUBSET Planned)
  BY <1>2, EmitKeepsSort
<1>4. Planned' = Planned
  BY <1>1 DEF Planned, IdsOf
<1>5. TypeOK'
  BY <1>1, <1>2, <1>3, <1>4 DEF TypeOK
<1>6. Unstarted' /\ PendingFits' /\ SubtasksFit'
  BY <1>1, <1>2, <1>4 DEF Unstarted, PendingFits, SubtasksFit, Sorted, Fresh
<1> QED
  BY <1>3, <1>5, <1>6 DEF ExecInv

\* The layers are complete.
LEMMA EndSortKeeps ==
  ASSUME ExecInv, EndSort
  PROVE  ExecInv'
<1>1. /\ pc = "sort" /\ pc' \in {"layer", "thrown"} /\ at' = at /\ pending' = pending
      /\ tasks' = tasks /\ degree' = degree /\ ready' = ready /\ layers' = layers
      /\ worker' = worker /\ result' = result /\ progress' = progress /\ clock' = clock
  BY DEF EndSort, sorting
<1>2. TypeOK /\ SortInv /\ Unstarted /\ PendingFits
  BY DEF ExecInv
<1>3. SortInv'
  BY <1>2, EndKeepsSort
<1>4. Planned' = Planned
  BY <1>1 DEF Planned, IdsOf
<1>5. TypeOK'
  BY <1>1, <1>2, <1>4 DEF TypeOK, Steps
<1>6. Unstarted' /\ PendingFits'
  BY <1>1, <1>2, <1>4 DEF Unstarted, PendingFits, Sorted, Fresh
<1>7. SubtasksFit'
  <2>1. at = 1 /\ \A i \in Planned : Fresh(i)
    BY <1>1, <1>2 DEF Unstarted, Sorted
  <2>2. \A n \in DOMAIN layers : n \in Nat /\ n >= 1 /\ layers[n] \subseteq Planned
    BY <1>2, LayersTyped
  <2> SUFFICES ASSUME NEW n \in DOMAIN layers, NEW i \in layers[n], pc' = "layer"
               PROVE  SubtaskFits(i, n)'
    BY <1>1 DEF SubtasksFit, Sorted
  <2>3. Fresh(i) /\ n \in Nat /\ n >= 1
    BY <2>1, <2>2
  <2> QED
    BY <2>1, <2>3, <1>1 DEF SubtaskFits, Fresh, Collecting
<1> QED
  BY <1>3, <1>5, <1>6, <1>7 DEF ExecInv

\* A call ends, with whatever outcome.
LEMMA executeSubtaskKeeps ==
  ASSUME ExecInv, NEW c \in Planned, executeSubtask(c)
  PROVE  ExecInv'
<1>1. /\ pc' = pc /\ pending' = pending /\ at' = at
      /\ tasks' = tasks /\ degree' = degree /\ ready' = ready /\ layers' = layers
      /\ result' = result /\ progress' = progress /\ clock' = clock
  BY DEF executeSubtask, sorting
<1>2. /\ TypeOK /\ SortInv /\ Unstarted /\ PendingFits /\ SubtasksFit
  BY DEF ExecInv
<1>3. /\ DOMAIN layers = 1..Len(layers) /\ Len(layers) \in Nat /\ at \in Nat \ {0}
      /\ at <= Len(layers) => Layer \subseteq Planned /\ at \in DOMAIN layers
      /\ Planned \in SUBSET Ids /\ pending \subseteq Planned
      /\ worker \in [Planned -> Calls] /\ result \in [Planned -> Results]
      /\ progress \in [Planned -> {"none", "start", "complete", "failed"}]
      /\ \A n \in DOMAIN layers : \A i \in layers[n] :
           i \in Planned /\ (i \in Layer /\ at <= Len(layers) => n = at)
  BY ExecFacts
<1>4. SortInv' /\ Planned' = Planned /\ Emitted' = Emitted /\ Sorted' = Sorted
  BY <1>1, <1>2, SortStays DEF sorting
<1>5. PICK outcome \in Outcomes : worker' = [worker EXCEPT ![c] = outcome]
  BY DEF executeSubtask
<1>6. worker[c] = "running"
  BY DEF executeSubtask
<1>7. /\ worker' \in [Planned -> Calls]
      /\ \A i \in Planned : worker'[i] = IF i = c THEN outcome ELSE worker[i]
      /\ outcome \in {"ok", "failed"}
  BY <1>3, <1>5 DEF Calls, Outcomes
<1>10. TypeOK'
  BY <1>1, <1>2, <1>3, <1>4, <1>7 DEF TypeOK, Steps
<1>11. Unstarted' /\ PendingFits'
  BY <1>1, <1>2, <1>4, <1>6, <1>7 DEF Unstarted, PendingFits, Sorted, Layer, Fresh
<1>12. SubtasksFit'
  <2> SUFFICES ASSUME Sorted, NEW n \in DOMAIN layers, NEW i \in layers[n]
               PROVE  SubtaskFits(i, n)'
    BY <1>1, <1>4 DEF SubtasksFit
  <2>1. SubtaskFits(i, n) /\ n \in Nat /\ i \in Planned
    BY <1>2, <1>3 DEF SubtasksFit
  <2>2. i \in Layer /\ at <= Len(layers) => n = at
    BY <1>3
  <2> QED
    BY <1>1, <1>3, <2>1, <2>2, <1>6, <1>7 DEF SubtaskFits, Layer, Fresh, Open,
      Recorded, TimedOut, Collecting
<1> QED
  BY <1>4, <1>10, <1>11, <1>12 DEF ExecInv

\* The deadline comes closer.
LEMMA TimePassesKeeps ==
  ASSUME ExecInv, TimePasses
  PROVE  ExecInv'
<1>1. /\ pc' = pc /\ pending' = pending /\ at' = at /\ worker' = worker
      /\ tasks' = tasks /\ degree' = degree /\ ready' = ready /\ layers' = layers
      /\ result' = result /\ progress' = progress /\ clock' \in {"lastMs", "past"}
  BY DEF TimePasses, sorting
<1>2. /\ TypeOK /\ SortInv /\ Unstarted /\ PendingFits /\ SubtasksFit
  BY DEF ExecInv
<1>3. /\ DOMAIN layers = 1..Len(layers) /\ Len(layers) \in Nat /\ at \in Nat \ {0}
      /\ at <= Len(layers) => Layer \subseteq Planned /\ at \in DOMAIN layers
      /\ Planned \in SUBSET Ids /\ pending \subseteq Planned
      /\ worker \in [Planned -> Calls] /\ result \in [Planned -> Results]
      /\ progress \in [Planned -> {"none", "start", "complete", "failed"}]
      /\ \A n \in DOMAIN layers : \A i \in layers[n] :
           i \in Planned /\ (i \in Layer /\ at <= Len(layers) => n = at)
  BY ExecFacts
<1>4. SortInv' /\ Planned' = Planned /\ Emitted' = Emitted /\ Sorted' = Sorted
  BY <1>1, <1>2, SortStays DEF sorting
<1>10. TypeOK'
  BY <1>1, <1>2, <1>3, <1>4 DEF TypeOK, Steps
<1>11. Unstarted' /\ PendingFits'
  BY <1>1, <1>2, <1>4 DEF Unstarted, PendingFits, Sorted, Layer, Fresh
<1>12. SubtasksFit'
  <2> SUFFICES ASSUME Sorted, NEW n \in DOMAIN layers, NEW i \in layers[n]
               PROVE  SubtaskFits(i, n)'
    BY <1>1, <1>4 DEF SubtasksFit
  <2>1. SubtaskFits(i, n) /\ n \in Nat /\ i \in Planned
    BY <1>2, <1>3 DEF SubtasksFit
  <2>2. i \in Layer /\ at <= Len(layers) => n = at
    BY <1>3
  <2> QED
    BY <1>1, <1>3, <2>1, <2>2 DEF SubtaskFits, Layer, Fresh, Open,
      Recorded, TimedOut, Collecting
<1> QED
  BY <1>4, <1>10, <1>11, <1>12 DEF ExecInv

\* Every step keeps the invariant.
LEMMA ExecNext == ExecInv /\ [Next]_vars => ExecInv'
<1> SUFFICES ASSUME ExecInv, [Next]_vars PROVE ExecInv'
  OBVIOUS
<1>1. CASE Executor
  BY <1>1, EmitLayerKeeps, EndSortKeeps, TimeOutRestKeeps, StartSingleKeeps,
     TimeOutSingleKeeps, TimeLeftKeeps, CallSingleKeeps, EndSingleKeeps, StartLayerKeeps,
     StartSubtaskKeeps, AllStartedKeeps, SkipFutureKeeps,
     AwaitFutureKeeps, CollectFutureKeeps, EndCollectKeeps, JoinLayerKeeps, ReturnKeeps
     DEF Executor
<1>2. CASE TimePasses
  BY <1>2, TimePassesKeeps
<1>3. CASE \E i \in Planned : executeSubtask(i)
  BY <1>3, executeSubtaskKeeps
<1>4. CASE UNCHANGED vars
  <2>1. /\ tasks' = tasks /\ degree' = degree /\ ready' = ready /\ layers' = layers
        /\ at' = at /\ pending' = pending /\ worker' = worker /\ result' = result
        /\ progress' = progress /\ clock' = clock /\ pc' = pc
    BY <1>4 DEF vars
  <2>2. SortInv' /\ Planned' = Planned /\ Sorted' = Sorted
    BY <2>1, SortStays DEF ExecInv, sorting
  <2>3. TypeOK' /\ Unstarted' /\ PendingFits' /\ SubtasksFit'
    BY <2>1, <2>2 DEF ExecInv, TypeOK, Unstarted, PendingFits, SubtasksFit, SubtaskFits, Layer,
       Fresh, Open, Recorded, TimedOut, Collecting
  <2> QED
    BY <2>2, <2>3 DEF ExecInv
<1> QED
  BY <1>1, <1>2, <1>3, <1>4 DEF Next

THEOREM ExecRuns == Spec => []ExecInv
<1> QED
  BY ExecInit, ExecNext, PTL DEF Spec
------------------------------------------------------------------------------
(* TaskExecutor: what the caller and the client may rely on. *)

\* The only layer of a subtask is the one that holds it.
LEMMA OneLayer ==
  ASSUME LayersFit, NEW n \in DOMAIN layers, NEW i \in layers[n]
  PROVE  LayerOf(i) = {n}
BY DEF LayersFit, LayerOf

LEMMA LayersAreCorrect ==
  ASSUME ExecInv
  PROVE  LayersCorrect
<1>1. TypeOK /\ DepsPlanned /\ LayersFit /\ EndFits
  BY DEF ExecInv, SortInv
<1>2. DOMAIN layers = 1..Len(layers) /\ Len(layers) \in Nat
  BY <1>1, LayersTyped
<1> SUFFICES ASSUME Sorted
             PROVE  \A i \in Planned : \E n \in DOMAIN layers :
                      /\ LayerOf(i) = {n}
                      /\ \A d \in DepsOf(i) : \E m \in LayerOf(d) : m < n
                      /\ n > 1 => \E d \in DepsOf(i) : LayerOf(d) = {n - 1}
  BY <1>1 DEF LayersCorrect, EndFits
<1> SUFFICES ASSUME NEW i \in Planned
             PROVE  \E n \in DOMAIN layers :
                      /\ LayerOf(i) = {n}
                      /\ \A d \in DepsOf(i) : \E m \in LayerOf(d) : m < n
                      /\ n > 1 => \E d \in DepsOf(i) : LayerOf(d) = {n - 1}
  OBVIOUS
<1>3. PICK n \in DOMAIN layers : i \in layers[n]
  BY <1>1 DEF EndFits, Emitted
<1>4. LayerOf(i) = {n}
  BY <1>1, <1>3, OneLayer
<1>5. \A d \in DepsOf(i) : \E m \in LayerOf(d) : m < n
  BY <1>1, <1>3 DEF LayersFit, LayerOf
<1>6. ASSUME n > 1
      PROVE  \E d \in DepsOf(i) : LayerOf(d) = {n - 1}
  <2>1. PICK d \in DepsOf(i) : d \in layers[n - 1]
    BY <1>1, <1>3, <1>6 DEF LayersFit
  <2>2. n - 1 \in DOMAIN layers
    BY <1>2, <1>6
  <2> QED
    BY <1>1, <2>1, <2>2, OneLayer
<1> QED
  BY <1>4, <1>5, <1>6

\* Where each subtask of a sorted plan is.
LEMMA SubtaskIsSomewhere ==
  ASSUME ExecInv, Sorted, NEW i \in Planned
  PROVE  \E n \in DOMAIN layers : i \in layers[n] /\ n \in Nat /\ SubtaskFits(i, n)
<1>1. PICK n \in DOMAIN layers : i \in layers[n]
  BY DEF ExecInv, SortInv, EndFits, Emitted
<1>2. n \in Nat
  BY ExecFacts
<1> QED
  BY <1>1, <1>2 DEF ExecInv, SubtasksFit

LEMMA DependenciesAreFirst ==
  ASSUME ExecInv
  PROVE  DependenciesFirst
<1> SUFFICES ASSUME NEW i \in Planned, worker[i] # "idle", NEW d \in DepsOf(i)
             PROVE  result[d] # "none"
  BY DEF DependenciesFirst
<1>1. Sorted
  BY DEF ExecInv, Unstarted, Fresh
<1>2. PICK n \in DOMAIN layers : i \in layers[n] /\ n \in Nat /\ SubtaskFits(i, n)
  BY <1>1, SubtaskIsSomewhere
<1>3. at \in Nat /\ \A m \in DOMAIN layers : m \in Nat
  BY ExecFacts
<1>4. n <= at
  BY <1>2, <1>3 DEF SubtaskFits, Fresh, TimedOut
<1>5. PICK m \in DOMAIN layers : m < n /\ d \in layers[m]
  BY <1>2 DEF ExecInv, SortInv, LayersFit
<1>6. SubtaskFits(d, m) /\ m < at
  BY <1>1, <1>2, <1>3, <1>4, <1>5 DEF ExecInv, SubtasksFit
<1> QED
  BY <1>6 DEF SubtaskFits, Recorded

LEMMA SubtasksAreAnswered ==
  ASSUME ExecInv
  PROVE  EverySubtaskAnswered
<1> SUFFICES ASSUME pc = "done", NEW i \in Planned
             PROVE  result[i] # "none"
  BY DEF EverySubtaskAnswered
<1>1. PICK n \in DOMAIN layers : i \in layers[n] /\ n \in Nat /\ SubtaskFits(i, n)
  BY SubtaskIsSomewhere DEF Sorted
<1>2. at \in Nat
  BY ExecFacts
<1> QED
  BY <1>1, <1>2 DEF SubtaskFits, Recorded, TimedOut

LEMMA ProgressMatches ==
  ASSUME ExecInv
  PROVE  ProgressMatchesResults
<1> SUFFICES ASSUME NEW i \in Planned
             PROVE  /\ progress[i] = "complete" <=> result[i] = "ok"
                    /\ progress[i] = "failed" => result[i] \in {"failed", "timeout"}
                    /\ pc = "done" /\ progress[i] = "start" =>
                         Layer = {i} /\ result[i] = "timeout"
  BY DEF ProgressMatchesResults
<1>1. result[i] \in Results
  BY ExecFacts
<1>2. CASE ~Sorted
  BY <1>2 DEF ExecInv, Unstarted, Fresh, Sorted
<1>3. CASE Sorted
  <2>1. PICK n \in DOMAIN layers : i \in layers[n] /\ n \in Nat /\ SubtaskFits(i, n)
    BY <1>3, SubtaskIsSomewhere
  <2>2. at \in Nat /\ pc \in Steps
    BY ExecFacts DEF ExecInv, TypeOK
  <2>3. Fresh(i) \/ Open(i) \/ Recorded(i) \/ TimedOut(i)
          \/ (pc \in {"single", "call"} /\ progress[i] = "start" /\ result[i] = "none")
    BY <1>3, <2>1, <2>2 DEF SubtaskFits, Steps, Sorted, Collecting
  <2>4. pc = "done" /\ progress[i] = "start" => TimedOut(i)
    BY <2>1, <2>2 DEF SubtaskFits, Recorded
  <2> QED
    BY <1>1, <2>3, <2>4 DEF Fresh, Open, Recorded, TimedOut, Results, Outcomes
<1> QED
  BY <1>2, <1>3

LEMMA CallsEndWithTheirLayer ==
  ASSUME ExecInv
  PROVE  NoCallOutlivesLayer
<1> SUFFICES ASSUME NEW i \in Planned, worker[i] = "running"
             PROVE  pc \in {"calling", "start", "collect", "waiting", "join"} /\ i \in Layer
  BY DEF NoCallOutlivesLayer, Running
<1>1. Sorted
  BY DEF ExecInv, Unstarted, Fresh
<1>2. PICK n \in DOMAIN layers : i \in layers[n] /\ n \in Nat /\ SubtaskFits(i, n)
  BY <1>1, SubtaskIsSomewhere
<1>3. at \in Nat /\ pc \in Steps
  BY ExecFacts DEF ExecInv, TypeOK
<1>4. n = at
  BY <1>2, <1>3 DEF SubtaskFits, Fresh, TimedOut
<1> QED
  BY <1>1, <1>2, <1>3, <1>4 DEF SubtaskFits, Fresh, TimedOut, Steps, Sorted, Layer

\* A plan is executed as it was planned, and its results are complete and true,
\* for every plan and whatever the clock and the agents do.
THEOREM ExecutorCorrect == Spec => []ExecutorInvariant
<1>1. ExecInv => ExecutorInvariant
  BY LayersAreCorrect, DependenciesAreFirst, SubtasksAreAnswered, ProgressMatches,
     CallsEndWithTheirLayer DEF ExecutorInvariant, ExecInv
<1> QED
  BY <1>1, ExecRuns, PTL

\* A step records a result only for a subtask that has none.
LEMMA ResultsStay ==
  ASSUME ExecInv, [Next]_vars
  PROVE  \A i \in Planned : result[i] # "none" => result'[i] = result[i]
<1> SUFFICES ASSUME NEW i \in Planned, result[i] # "none"
             PROVE  result'[i] = result[i]
  OBVIOUS
<1>1. result \in [Planned -> Results] /\ at \in Nat \ {0}
  BY ExecFacts
<1>2. CASE TimeOutRest \/ TimeOutSingle
  <2>1. result' = Marked(Remaining, "timeout", result) /\ i \notin Remaining
    BY <1>2 DEF TimeOutRest, TimeOutSingle, Remaining
  <2> QED
    BY <1>1, <2>1 DEF Marked
<1>3. CASE SkipFuture \/ CollectFuture
  <2>1. pending # {} /\ pc \in {"collect", "waiting"}
    BY <1>3 DEF SkipFuture, CollectFuture, ExecInv, TypeOK
  <2>2. i # First(pending)
    BY <2>1, FirstPending DEF Open
  <2>3. \E value : result' = [result EXCEPT ![First(pending)] = value]
    BY <1>3 DEF SkipFuture, CollectFuture, Record
  <2> QED
    BY <1>1, <2>2, <2>3
<1>4. CASE EndSingle
  <2>1. PICK j \in Layer : result' = [result EXCEPT ![j] = worker[j]]
    BY <1>4 DEF EndSingle, Record
  <2>2. pc = "calling" /\ at <= Len(layers)
    BY <1>4 DEF EndSingle, ExecInv, TypeOK
  <2>3. at \in DOMAIN layers
    BY <2>2, ExecFacts
  <2>4. SubtaskFits(j, at)
    BY <2>1, <2>2, <2>3 DEF ExecInv, SubtasksFit, Sorted, Layer
  <2>5. j # i
    BY <2>2, <2>4 DEF SubtaskFits, Open
  <2> QED
    BY <1>1, <2>1, <2>5
<1>5. CASE UNCHANGED result
  BY <1>5
<1> QED
  BY <1>2, <1>3, <1>4, <1>5 DEF Next, Executor, vars, EmitLayer, EndSort, StartSingle, TimeLeft, CallSingle,
     StartLayer, StartSubtask, AllStarted, AwaitFuture, EndCollect, JoinLayer, Return, executeSubtask, TimePasses

\* A result that later subtasks may have read is never changed.
THEOREM ResultsAreFinal == Spec => ResultsFinal
<1>1. ExecInv /\ [Next]_vars =>
        [\A i \in Planned : result[i] # "none" => result'[i] = result[i]]_vars
  BY ResultsStay
<1> QED
  BY <1>1, ExecRuns, PTL DEF Spec, ResultsFinal
------------------------------------------------------------------------------
(* TaskExecutor: the promise to the caller. *)

\* Both modules speak of the same plan.
LEMMA SamePlan ==
  /\ Plan!Planned = Planned /\ \A i : Plan!DependsOn(i) = DepsOf(i)
  /\ Plan!Unanswered = {i \in Planned : result[i] = "none"}
  /\ Plan!Running = Running
BY DEF Plan!Planned, Planned, IdsOf, Plan!DependsOn, DepsOf, Plan!Unanswered, Plan!Running, Running

\* What topologicalLayers checks by counting: ids are given once, and there is no
\* circle.
LEMMA ExecutableMeans ==
  ASSUME TypeOK
  PROVE  Plan!Executable <=> ~Circular /\ Cardinality(Planned) = Len(tasks)
<1> DEFINE f == [n \in DOMAIN tasks |-> tasks[n].id]
<1>1. tasks \in Seq(Entries) /\ DOMAIN tasks = 1..Len(tasks) /\ Len(tasks) \in Nat
  BY LenProperties DEF TypeOK
<1>2. IsFiniteSet(DOMAIN tasks) /\ Cardinality(DOMAIN tasks) = Len(tasks)
  BY <1>1, FS_Interval
<1>3. f \in Surjection(DOMAIN tasks, Planned)
  BY DEF Surjection, Planned, IdsOf
<1>4. Cardinality(Planned) = Cardinality(DOMAIN tasks) <=> f \in Injection(DOMAIN tasks, Planned)
  BY <1>2, <1>3, FS_Surjection
<1>5. f \in Injection(DOMAIN tasks, Planned) <=>
        \A m, n \in DOMAIN tasks : tasks[m].id = tasks[n].id => m = n
  <2>1. f \in [DOMAIN tasks -> Planned] /\ \A n \in DOMAIN tasks : f[n] = tasks[n].id
    BY <1>3 DEF Surjection
  <2> HIDE DEF f
  <2> QED
    BY <2>1 DEF Injection, IsInjective
<1>6. (\A S \in (SUBSET Plan!Planned) \ {{}} : \E i \in S : Plan!DependsOn(i) \cap S = {}) <=> ~Circular
  <2>1. Plan!Planned = Planned /\ \A i : Plan!DependsOn(i) = DepsOf(i)
    BY SamePlan
  <2> QED
    BY <2>1 DEF Circular
<1> QED
  BY <1>2, <1>4, <1>5, <1>6 DEF Plan!Executable

\* A subtask without a result belongs to the current layer or a later one, and
\* between two layers it has not been called.
LEMMA UnansweredIsAhead ==
  ASSUME ExecInv, Sorted, NEW i \in Planned, result[i] = "none"
  PROVE  /\ \E n \in at..Len(layers) : i \in layers[n]
         /\ pc \in {"layer", "single"} => worker[i] = "idle"
<1>1. PICK n \in DOMAIN layers : i \in layers[n] /\ n \in Nat /\ SubtaskFits(i, n)
  BY SubtaskIsSomewhere
<1>2. at \in Nat /\ DOMAIN layers = 1..Len(layers) /\ Len(layers) \in Nat
  BY ExecFacts
<1>3. n >= at
  BY <1>1, <1>2 DEF SubtaskFits, Recorded
<1>4. n \in at..Len(layers)
  BY <1>1, <1>2, <1>3
<1>5. pc \in {"layer", "single"} => worker[i] = "idle"
  BY <1>1, <1>2, <1>3 DEF SubtaskFits, Fresh
<1> QED
  BY <1>1, <1>4, <1>5

\* A layer that has not been started may be: all that it depends on is answered.
LEMMA LayerMayStart ==
  ASSUME ExecInv, at <= Len(layers), pc \in {"layer", "single"}, NEW i \in Layer
  PROVE  /\ i \in Planned /\ worker[i] = "idle" /\ result[i] = "none"
         /\ DepsOf(i) \cap {d \in Planned : result[d] = "none"} = {}
<1>1. at \in DOMAIN layers /\ i \in layers[at] /\ i \in Planned /\ at \in Nat
  BY ExecFacts DEF Layer
<1>2. Sorted /\ SubtaskFits(i, at)
  BY <1>1 DEF ExecInv, SubtasksFit, Sorted
<1>3. worker[i] = "idle" /\ result[i] = "none"
  BY <1>2 DEF SubtaskFits, Fresh
<1>4. ASSUME NEW d \in DepsOf(i) PROVE result[d] # "none"
  <2>1. PICK m \in DOMAIN layers : m < at /\ d \in layers[m]
    BY <1>1 DEF ExecInv, SortInv, LayersFit
  <2>2. SubtaskFits(d, m)
    BY <1>2, <2>1 DEF ExecInv, SubtasksFit
  <2> QED
    BY <2>1, <2>2 DEF SubtaskFits, Recorded
<1> QED
  BY <1>1, <1>3, <1>4

\* Admitted is what was begun: the layers before this one, and this one from the
\* last look at the clock on.
BegunSteps == {"call", "calling", "start", "collect", "waiting", "join"}

LEMMA AdmittedStays ==
  ASSUME UNCHANGED <<tasks, layers, at>>, pc' \in BegunSteps <=> pc \in BegunSteps
  PROVE  Admitted' = Admitted
BY DEF Admitted, Layer, BegunSteps, Planned, IdsOf

LEMMA AdmittedAtNextLayer ==
  ASSUME ExecInv, UNCHANGED <<tasks, layers>>, at' = at + 1, pc \in BegunSteps, pc' = "layer"
  PROVE  Admitted' = Admitted
<1>1. at \in Nat \ {0} /\ at' - 1 = at /\ Planned' = Planned
  BY ExecFacts DEF Planned, IdsOf
<1>2. 1..at = (1..at - 1) \cup {at}
  BY <1>1
<1>3. Admitted' = {i \in Planned : \E n \in 1..at : i \in layers[n]}
  BY <1>1 DEF Admitted, BegunSteps
<1>4. Admitted = {i \in Planned : (\E n \in 1..at - 1 : i \in layers[n]) \/ i \in layers[at]}
  BY DEF Admitted, BegunSteps, Layer
<1> QED
  BY <1>2, <1>3, <1>4

LEMMA AdmittedBeforeLayers ==
  ASSUME at = 1, pc \notin BegunSteps
  PROVE  Admitted = {}
BY DEF Admitted, BegunSteps

LEMMA InitPlan == ASSUME Init PROVE Plan!Init
<1>1. worker = [i \in Plan!Planned |-> "idle"] /\ result = [i \in Plan!Planned |-> "none"]
  BY SamePlan DEF Init
<1>2. Phase = "planned"
  BY DEF Init, Phase
<1>3. Admitted = {}
  BY AdmittedBeforeLayers DEF Init, BegunSteps
<1> QED
  BY <1>1, <1>2, <1>3 DEF Init, Plan!Init

LEMMA SortsPlan ==
  ASSUME ExecInv, EndSort
  PROVE  Plan!Accept \/ Plan!Refuse
<1>1. TypeOK /\ ExecInv'
  BY EndSortKeeps DEF ExecInv
<1>2. LayersCorrect'
  BY <1>1, LayersAreCorrect, PTL
<1>3. /\ tasks' = tasks /\ worker' = worker /\ result' = result /\ clock' = clock
      /\ pc = "sort" /\ pc' \in {"thrown", "layer"}
  BY DEF EndSort, sorting
<1>4. Planned' = Planned /\ Circular' = Circular
  BY <1>3 DEF Planned, IdsOf, Circular, DepsOf
<1>5. Cardinality(Planned) <= Len(tasks) /\ Cardinality(Planned) \in Nat /\ Len(tasks) \in Nat
  BY <1>1, PlanFinite, FS_CardinalityType DEF TypeOK
<1>6. Phase = "planned" /\ Admitted' = Admitted
  BY <1>3, AdmittedStays DEF Phase, EndSort, sorting, BegunSteps
<1>7. CASE pc' = "thrown"
  <2>1. Circular \/ Cardinality(Planned) < Len(tasks)
    BY <1>2, <1>3, <1>4, <1>7 DEF LayersCorrect
  <2>2. ~Plan!Executable
    BY <1>1, <1>5, <2>1, ExecutableMeans
  <2>3. Phase' = "refused"
    BY <1>7 DEF Phase
  <2> QED
    BY <1>3, <1>6, <2>2, <2>3 DEF Plan!Refuse
<1>8. CASE pc' = "layer"
  <2>1. ~Circular /\ Cardinality(Planned) = Len(tasks)
    BY <1>2, <1>3, <1>4, <1>8 DEF LayersCorrect, Sorted
  <2>2. Plan!Executable
    BY <1>1, <2>1, ExecutableMeans
  <2>3. Phase' = "running"
    BY <1>8 DEF Phase
  <2> QED
    BY <1>3, <1>6, <2>2, <2>3 DEF Plan!Accept
<1> QED
  BY <1>3, <1>7, <1>8

\* The last look at the clock.
LEMMA AdmitsPlan ==
  ASSUME ExecInv, TimeLeft \/ StartLayer
  PROVE  (\E S \in (SUBSET Plan!Planned) \ {{}} : Plan!Admit(S)) \/ UNCHANGED Plan!vars
<1>1. /\ at <= Len(layers) /\ pc \in {"layer", "single"} /\ clock # "past"
      /\ pc' \in BegunSteps /\ layers' = layers /\ at' = at
      /\ tasks' = tasks /\ worker' = worker /\ result' = result /\ clock' = clock
  BY DEF TimeLeft, StartLayer, sorting, ExecInv, TypeOK, OutOfTime, Late, BegunSteps
<1>2. Phase = "running" /\ Phase' = "running"
  BY DEF TimeLeft, StartLayer, Phase
<1>3. Admitted' = Admitted \cup Layer
  <2>1. Layer' = Layer /\ Planned' = Planned /\ Layer \subseteq Planned /\ pc \notin BegunSteps
    BY <1>1, ExecFacts DEF Layer, Planned, IdsOf, BegunSteps
  <2> QED
    BY <1>1, <2>1 DEF Admitted, BegunSteps
<1>4. Layer \in SUBSET Plan!Planned
  BY <1>1, ExecFacts, SamePlan
<1>5. ASSUME NEW i \in Layer
      PROVE  i \in Plan!Unanswered \ Admitted /\ Plan!DependsOn(i) \cap Plan!Unanswered = {}
  <2>1. i \in Plan!Unanswered /\ Plan!DependsOn(i) \cap Plan!Unanswered = {}
    BY <1>1, LayerMayStart, SamePlan
  <2>2. \A n \in 1..at - 1 : i \notin layers[n]
    <3>1. \A n \in 1..at - 1 : n \in DOMAIN layers /\ n # at
      BY <1>1, ExecFacts
    <3> QED
      BY <1>1, <3>1, ExecFacts
  <2>3. i \notin Admitted
    BY <1>1, <2>2 DEF Admitted
  <2> QED
    BY <2>1, <2>3
<1>6. CASE Layer = {}
  BY <1>1, <1>2, <1>3, <1>6 DEF Plan!vars
<1>7. CASE Layer # {}
  BY <1>1, <1>2, <1>3, <1>4, <1>5, <1>7 DEF Plan!Admit
<1> QED
  BY <1>6, <1>7

LEMMA StartsPlan ==
  ASSUME ExecInv, CallSingle \/ StartSubtask
  PROVE  (\E i \in Plan!Planned : Plan!Start(i)) \/ UNCHANGED Plan!vars
<1>1. /\ pc \in {"call", "start"} /\ at <= Len(layers)
      /\ pc' \in BegunSteps /\ layers' = layers /\ at' = at
      /\ tasks' = tasks /\ result' = result /\ clock' = clock
  BY DEF CallSingle, StartSubtask, sorting, ExecInv, TypeOK, BegunSteps
<1>2. Phase = "running" /\ Phase' = "running"
  BY DEF CallSingle, StartSubtask, Phase
<1>3. /\ worker \in [Planned -> Calls] /\ Layer \subseteq Planned /\ Planned \in SUBSET Ids
      /\ at \in DOMAIN layers
  BY <1>1, ExecFacts
<1>4. Admitted' = Admitted /\ Layer \subseteq Admitted
  <2>1. pc \in BegunSteps
    BY <1>1 DEF BegunSteps
  <2>2. Admitted' = Admitted
    BY <1>1, <2>1, AdmittedStays
  <2>3. Layer \subseteq Admitted
    BY <1>3, <2>1 DEF Admitted, BegunSteps
  <2> QED
    BY <2>2, <2>3
<1>5. \A i \in Layer : SubtaskFits(i, at)
  BY <1>1, <1>3 DEF ExecInv, SubtasksFit, Sorted, Layer
<1>6. \/ worker' = worker
      \/ \E i \in Layer : worker[i] = "idle" /\ worker' = [worker EXCEPT ![i] = "running"]
  <2>1. CASE CallSingle
    <3>1. pc = "call" /\ worker' = Marked(Layer, "running", worker)
      BY <2>1 DEF CallSingle
    <3>2. CASE Layer = {}
      BY <1>3, <3>1, <3>2 DEF Marked
    <3>3. CASE Layer # {}
      <4>1. PICK i \in Layer : worker[i] = "idle" /\ Layer = {i}
        BY <1>5, <3>1, <3>3 DEF SubtaskFits
      <4>2. worker' = [worker EXCEPT ![i] = "running"]
        BY <1>3, <3>1, <4>1 DEF Marked
      <4> QED
        BY <4>1, <4>2
    <3> QED
      BY <3>2, <3>3
  <2>2. CASE StartSubtask
    <3>1. /\ pc = "start" /\ pending # Layer
          /\ worker' = [worker EXCEPT ![First(Layer \ pending)] = "running"]
      BY <2>2 DEF StartSubtask
    <3>2. pending \subseteq Layer
      BY <3>1 DEF ExecInv, PendingFits
    <3>3. Layer \ pending # {} /\ Layer \ pending \in SUBSET Ids
      BY <1>3, <3>1, <3>2
    <3>4. First(Layer \ pending) \in Layer \ pending
      BY <3>3, FirstIsMember
    <3>5. worker[First(Layer \ pending)] = "idle"
      BY <1>5, <3>1, <3>4 DEF SubtaskFits, Fresh
    <3> QED
      BY <3>1, <3>4, <3>5
  <2> QED
    BY <2>1, <2>2
<1> QED
  BY <1>1, <1>2, <1>3, <1>4, <1>6, SamePlan DEF Plan!Start, Plan!vars

LEMMA GivesUpPlan ==
  ASSUME ExecInv, TimeOutRest \/ TimeOutSingle
  PROVE  Plan!GiveUp
<1>1. /\ pc \in {"layer", "single"} /\ pc' = "done" /\ clock # "early"
      /\ result' = Marked(Remaining, "timeout", result)
      /\ tasks' = tasks /\ worker' = worker /\ clock' = clock
  BY DEF TimeOutRest, TimeOutSingle, sorting, OutOfTime, Late
<1>7. Admitted' = Admitted
  BY AdmittedStays DEF TimeOutRest, TimeOutSingle, sorting, BegunSteps
<1>2. Sorted /\ Phase = "running" /\ Phase' = "returned"
  BY <1>1 DEF Sorted, Phase
<1>3. Remaining = Plan!Unanswered
  BY <1>2, UnansweredIsAhead, SamePlan DEF Remaining
<1>4. result' = [i \in Plan!Planned |-> IF i \in Plan!Unanswered THEN "timeout" ELSE result[i]]
  BY <1>1, <1>3, ExecFacts, SamePlan DEF Marked
<1>5. Plan!Running = {}
  BY <1>1, CallsEndWithTheirLayer, SamePlan DEF NoCallOutlivesLayer
<1>6. Plan!Unanswered \cap Admitted = {}
  <2>1. \A n \in 1..at - 1 : n \in DOMAIN layers /\ n < at
    BY <1>1, ExecFacts DEF ExecInv, TypeOK, TimeOutRest, TimeOutSingle
  <2>2. \A n \in 1..at - 1 : \A i \in layers[n] : result[i] # "none"
    BY <1>2, <2>1 DEF ExecInv, SubtasksFit, SubtaskFits, Recorded
  <2> QED
    BY <1>1, <2>2, SamePlan DEF Admitted
<1> QED
  BY <1>1, <1>2, <1>4, <1>5, <1>6, <1>7 DEF Plan!GiveUp

LEMMA RecordsPlan ==
  ASSUME ExecInv, EndSingle \/ SkipFuture \/ CollectFuture
  PROVE  \E i \in Plan!Planned : Plan!Record(i) \/ Plan!TimeOut(i)
<1>1. /\ tasks' = tasks /\ worker' = worker /\ clock' = clock
      /\ Phase = "running" /\ Phase' = "running"
  BY DEF EndSingle, SkipFuture, CollectFuture, sorting, Phase
<1>4. Admitted' = Admitted
  <2>1. CASE EndSingle
    BY <2>1, AdmittedAtNextLayer DEF EndSingle, sorting, BegunSteps
  <2>2. CASE SkipFuture \/ CollectFuture
    BY <2>2, AdmittedStays DEF SkipFuture, CollectFuture, sorting, BegunSteps
  <2> QED
    BY <2>1, <2>2
<1>2. CASE EndSingle
  <2>1. PICK i \in Layer : worker[i] \in Outcomes /\ result' = [result EXCEPT ![i] = worker[i]]
    BY <1>2 DEF EndSingle, Record
  <2>2. pc = "calling" /\ at \in DOMAIN layers /\ i \in layers[at] /\ i \in Planned
    BY <1>2, ExecFacts DEF EndSingle, ExecInv, TypeOK, Layer
  <2>3. SubtaskFits(i, at)
    BY <2>2 DEF ExecInv, SubtasksFit, Sorted
  <2>4. Plan!Record(i)
    BY <1>1, <1>4, <2>1, <2>2, <2>3 DEF Plan!Record, SubtaskFits, Open, Outcomes
  <2> QED
    BY <2>2, <2>4, SamePlan
<1>3. CASE SkipFuture \/ CollectFuture
  <2>1. pending # {} /\ pc \in {"collect", "waiting"}
    BY <1>3 DEF SkipFuture, CollectFuture, ExecInv, TypeOK
  <2>2. PICK i \in Planned : i = First(pending)
    BY <2>1, FirstPending
  <2>3. worker[i] # "idle" /\ result[i] = "none"
    BY <2>1, <2>2, FirstPending DEF Open
  <2>4. \/ worker[i] \in Outcomes /\ result' = [result EXCEPT ![i] = worker[i]]
        \/ clock # "early" /\ result' = [result EXCEPT ![i] = "timeout"]
    BY <1>3, <2>2 DEF SkipFuture, CollectFuture, Record, OutOfTime
  <2>5. Plan!Record(i) \/ Plan!TimeOut(i)
    BY <1>1, <1>4, <2>3, <2>4 DEF Plan!Record, Plan!TimeOut, Outcomes
  <2> QED
    BY <2>5, SamePlan
<1> QED
  BY <1>2, <1>3

LEMMA ReturnsPlan ==
  ASSUME ExecInv, Return
  PROVE  Plan!Return
<1>1. /\ pc = "layer" /\ pc' = "done" /\ at > Len(layers)
      /\ tasks' = tasks /\ worker' = worker /\ result' = result /\ clock' = clock
  BY DEF Return, sorting
<1>2. Sorted /\ Phase = "running" /\ Phase' = "returned"
  BY <1>1 DEF Sorted, Phase
<1>6. Admitted' = Admitted
  BY AdmittedStays DEF Return, sorting, BegunSteps
<1>3. at \in Nat /\ Len(layers) \in Nat
  BY ExecFacts
<1>4. Plan!Unanswered = {}
  <2>1. ASSUME NEW i \in Planned, result[i] = "none" PROVE FALSE
    <3>1. PICK n \in at..Len(layers) : i \in layers[n]
      BY <1>2, <2>1, UnansweredIsAhead
    <3> QED
      BY <1>1, <1>3
  <2> QED
    BY <2>1, SamePlan
<1>5. Plan!Running = {}
  BY <1>1, CallsEndWithTheirLayer, SamePlan DEF NoCallOutlivesLayer
<1> QED
  BY <1>1, <1>2, <1>4, <1>5, <1>6 DEF Plan!Return

LEMMA NextPlan ==
  ASSUME ExecInv, [Next]_vars
  PROVE  [Plan!Next]_Plan!vars
<1>1. CASE EndSort
  BY <1>1, SortsPlan DEF Plan!Next
<1>2. CASE TimeLeft \/ StartLayer
  BY <1>2, AdmitsPlan DEF Plan!Next
<1>9. CASE CallSingle \/ StartSubtask
  BY <1>9, StartsPlan DEF Plan!Next
<1>3. CASE TimeOutRest \/ TimeOutSingle
  BY <1>3, GivesUpPlan DEF Plan!Next
<1>4. CASE EndSingle \/ SkipFuture \/ CollectFuture
  BY <1>4, RecordsPlan DEF Plan!Next
<1>5. CASE Return
  BY <1>5, ReturnsPlan DEF Plan!Next
<1>6. ASSUME NEW i \in Planned, executeSubtask(i)
      PROVE  Plan!Next
  <2>1. Phase' = Phase /\ Admitted' = Admitted
    BY <1>6, AdmittedStays DEF executeSubtask, Phase, sorting
  <2>2. Plan!Answer(i)
    BY <1>6, <2>1 DEF executeSubtask, Plan!Answer, Outcomes, sorting
  <2> QED
    BY <2>2, SamePlan DEF Plan!Next
<1>7. CASE TimePasses
  <2>1. Phase' = Phase /\ Admitted' = Admitted
    BY <1>7, AdmittedStays DEF TimePasses, Phase, sorting
  <2> QED
    BY <1>7, <2>1 DEF TimePasses, Plan!TimePasses, Plan!Next, sorting
<1>8. CASE EmitLayer \/ StartSingle \/ AllStarted \/ AwaitFuture \/ EndCollect \/ JoinLayer
           \/ UNCHANGED vars
  <2> USE DEF EmitLayer, StartSingle, AllStarted, AwaitFuture, EndCollect, JoinLayer, vars, sorting
  <2>1. Phase' = Phase
    BY <1>8 DEF Phase
  <2>2. UNCHANGED <<tasks, worker, result, clock>>
    BY <1>8
  <2>3. Admitted' = Admitted
    <3>1. CASE EmitLayer
      <4>1. at = 1 /\ at' = 1 /\ pc \notin BegunSteps /\ pc' \notin BegunSteps
        BY <3>1 DEF ExecInv, Unstarted, Sorted, BegunSteps
      <4>2. Admitted' = {}
        BY <4>1 DEF Admitted, BegunSteps
      <4> QED
        BY <4>1, <4>2, AdmittedBeforeLayers
    <3>2. CASE JoinLayer
      BY <3>2, AdmittedAtNextLayer DEF BegunSteps
    <3>3. CASE StartSingle \/ AllStarted \/ AwaitFuture \/ EndCollect \/ UNCHANGED vars
      BY <3>3, AdmittedStays DEF BegunSteps
    <3> QED
      BY <1>8, <3>1, <3>2, <3>3
  <2> QED
    BY <2>1, <2>2, <2>3 DEF Plan!vars
<1> QED
  BY <1>1, <1>2, <1>3, <1>4, <1>5, <1>6, <1>7, <1>8, <1>9 DEF Next, Executor

\* Whatever the plan, its layers, the clock and the agents do, the caller of execute
\* sees the plan refused for a reason or carried out in an order that it allows.
THEOREM PlanCorrect == Spec => ImplementsPlan
<1>1. ExecInv /\ [Next]_vars => [Plan!Next]_Plan!vars
  BY NextPlan
<1> QED
  BY <1>1, InitPlan, ExecRuns, PTL DEF Spec, ImplementsPlan, Plan!Spec
------------------------------------------------------------------------------
(* ChatStore: the messages and the streams behind them. *)

ChatMessages ==
  [role: {"user", "agent"}, stream: 0..MaxStreams, streaming: BOOLEAN, error: BOOLEAN]
ChatStreams == [open: BOOLEAN, told: SUBSET {"complete", "error"}]

\* What holds of a list of messages that may be shown: questions are followed by
\* answers, except at its end, and what streams belongs to an open stream.
MessagesFit(ms) ==
  /\ \A i \in DOMAIN ms : ms[i].role = "user" => ms[i] = Question
  /\ \A i \in DOMAIN ms : ms[i].role = "user" /\ i < Len(ms) => ms[i + 1].role = "agent"
  /\ \A i \in DOMAIN ms : ms[i].role = "agent" => ms[i].stream \in DOMAIN streams
  /\ \A i \in DOMAIN ms : ms[i].streaming => ms[i].role = "agent" /\ IsOpen(ms[i].stream)

EndsWithAnswer == messages # <<>> => messages[Len(messages)].role = "agent"

\* Unless a question came too early, no two bodies are open.
OneBody == ~overtaken => \A s, t \in DOMAIN streams : streams[s].open /\ streams[t].open => s = t

ChatInv ==
  /\ ChatTypeOK /\ MessagesFit(messages) /\ EndsWithAnswer /\ StopReaches /\ OneBody
  /\ OneAnswerAtATime

LEMMA ChatInitInv == ChatInit => ChatInv
<1> SUFFICES ASSUME ChatInit PROVE ChatInv
  OBVIOUS
<1>1. /\ messages = <<>> /\ isStreaming = FALSE /\ abortController = 0
      /\ streams = <<>> /\ overtaken = FALSE
  BY DEF ChatInit
<1>2. messages \in Seq(ChatMessages) /\ streams \in Seq(ChatStreams)
  BY <1>1, EmptySeq
<1>3. ChatTypeOK
  <2>1. abortController \in 0..Len(streams)
    BY <1>1
  <2> QED
    BY <1>1, <1>2, <2>1 DEF ChatTypeOK, ChatMessages, ChatStreams
<1>4. MessagesFit(messages) /\ EndsWithAnswer /\ StopReaches /\ OneBody /\ OneAnswerAtATime
  BY <1>1 DEF MessagesFit, EndsWithAnswer, StopReaches, OneBody, OneAnswerAtATime, Streaming
<1> QED
  BY <1>3, <1>4 DEF ChatInv

\* Messages and streams by their places.
LEMMA ChatTyped ==
  ASSUME ChatTypeOK
  PROVE  /\ messages \in Seq(ChatMessages) /\ streams \in Seq(ChatStreams)
         /\ DOMAIN messages = 1..Len(messages) /\ Len(messages) \in Nat
         /\ DOMAIN streams = 1..Len(streams) /\ Len(streams) \in Nat
         /\ \A i \in DOMAIN messages :
              /\ messages[i] \in ChatMessages /\ messages[i].role \in {"user", "agent"}
              /\ messages[i].streaming \in BOOLEAN
         /\ \A s \in DOMAIN streams : streams[s] \in ChatStreams /\ streams[s].open \in BOOLEAN
         /\ abortController \in 0..Len(streams)
         /\ isStreaming \in BOOLEAN /\ overtaken \in BOOLEAN
<1>1. messages \in Seq(ChatMessages) /\ streams \in Seq(ChatStreams)
  BY DEF ChatTypeOK, ChatMessages, ChatStreams
<1>2. /\ \A i \in DOMAIN messages : messages[i] \in ChatMessages
      /\ \A s \in DOMAIN streams : streams[s] \in ChatStreams
      /\ DOMAIN messages = 1..Len(messages) /\ Len(messages) \in Nat
      /\ DOMAIN streams = 1..Len(streams) /\ Len(streams) \in Nat
  BY <1>1, LenProperties, ElementOfSeq
<1>3. /\ \A m \in ChatMessages : m.role \in {"user", "agent"} /\ m.streaming \in BOOLEAN
      /\ \A s \in ChatStreams : s.open \in BOOLEAN
  BY DEF ChatMessages, ChatStreams
<1> QED
  BY <1>1, <1>2, <1>3 DEF ChatTypeOK

\* A stream is started behind any messages that fit.
LEMMA StartKeeps ==
  ASSUME ChatInv, ~isStreaming, NEW ms \in Seq(ChatMessages),
         MessagesFit(ms), startStream(ms)
  PROVE  ChatInv'
<1> DEFINE n == Len(streams) + 1
           m == Len(ms) + 1
<1>1. /\ Len(streams) < MaxStreams /\ messages' = Append(ms, AnswerMessage(n))
      /\ isStreaming' = TRUE /\ abortController' = n
      /\ streams' = Append(streams, [open |-> TRUE, told |-> {}])
      /\ overtaken' = (overtaken \/ \E s \in DOMAIN streams : streams[s].open)
  BY DEF startStream
<1>2. /\ streams \in Seq(ChatStreams) /\ DOMAIN streams = 1..Len(streams)
      /\ Len(streams) \in Nat
      /\ \A s \in DOMAIN streams : streams[s] \in ChatStreams /\ streams[s].open \in BOOLEAN
      /\ overtaken \in BOOLEAN
  BY ChatTyped DEF ChatInv
<1>3. /\ DOMAIN ms = 1..Len(ms) /\ Len(ms) \in Nat
      /\ \A i \in DOMAIN ms : ms[i] \in ChatMessages
  BY LenProperties, ElementOfSeq
<1>4. AnswerMessage(n) \in ChatMessages
  BY <1>1, <1>2, ChatBounds DEF AnswerMessage, ChatMessages
<1>5. /\ messages' \in Seq(ChatMessages) /\ Len(messages') = m /\ DOMAIN messages' = 1..m
      /\ messages'[m] = AnswerMessage(n) /\ \A i \in DOMAIN ms : messages'[i] = ms[i]
  BY <1>1, <1>3, <1>4
<1>6. [open |-> TRUE, told |-> {}] \in ChatStreams
  BY DEF ChatStreams
<1>7. /\ streams' \in Seq(ChatStreams) /\ Len(streams') = n /\ DOMAIN streams' = 1..n
      /\ streams'[n] = [open |-> TRUE, told |-> {}]
      /\ \A s \in DOMAIN streams : streams'[s] = streams[s]
  BY <1>1, <1>2, <1>6
<1>8. n \in Nat \ {0} /\ n <= MaxStreams /\ m \in Nat \ {0}
  BY <1>1, <1>2, <1>3, ChatBounds
<1>9. AnswerMessage(n).role = "agent" /\ AnswerMessage(n).stream = n /\ AnswerMessage(n).streaming
  BY DEF AnswerMessage
<1>10. /\ n \in DOMAIN streams' /\ streams'[n].open
       /\ \A s : IsOpen(s) => s \in DOMAIN streams' /\ streams'[s].open
  BY <1>2, <1>7, <1>8 DEF IsOpen
<1>11. ChatTypeOK'
  BY <1>1, <1>2, <1>5, <1>7, <1>8 DEF ChatTypeOK, ChatMessages, ChatStreams
<1> HIDE DEF n, m
<1>12. MessagesFit(messages)'
  <2> SUFFICES ASSUME NEW i \in DOMAIN messages'
               PROVE  /\ messages'[i].role = "user" => messages'[i] = Question
                      /\ messages'[i].role = "user" /\ i < Len(messages')
                           => messages'[i + 1].role = "agent"
                      /\ messages'[i].role = "agent" => messages'[i].stream \in DOMAIN streams'
                      /\ messages'[i].streaming =>
                           /\ messages'[i].role = "agent"
                           /\ messages'[i].stream \in DOMAIN streams'
                           /\ streams'[messages'[i].stream].open
    BY DEF MessagesFit, IsOpen
  <2>1. CASE i = m
    BY <2>1, <1>5, <1>7, <1>8, <1>9, <1>10
  <2>2. CASE i # m
    <3>1. i \in DOMAIN ms /\ messages'[i] = ms[i] /\ i \in Nat
      BY <2>2, <1>3, <1>5 DEF m
    <3>2. ms[i].role = "user" /\ i = Len(ms) => messages'[i + 1].role = "agent"
      BY <1>5, <1>9 DEF m
    <3>3. ms[i].role = "user" /\ i # Len(ms) => messages'[i + 1].role = "agent"
      <4>1. i # Len(ms) => i + 1 \in DOMAIN ms /\ i < Len(ms)
        BY <3>1, <1>3
      <4> QED
        BY <3>1, <4>1, <1>5 DEF MessagesFit
    <3>4. DOMAIN streams \subseteq DOMAIN streams'
      BY <1>2, <1>7 DEF n
    <3> QED
      BY <3>1, <3>2, <3>3, <3>4, <1>10 DEF MessagesFit
  <2> QED
    BY <2>1, <2>2
<1>13. EndsWithAnswer' /\ StopReaches'
  BY <1>1, <1>5, <1>7, <1>8, <1>9, <1>10 DEF EndsWithAnswer, StopReaches, IsOpen
<1>14. ASSUME ~overtaken'
       PROVE  \A s \in DOMAIN streams : ~streams[s].open
  BY <1>1, <1>14
<1>15. OneBody'
  <2> SUFFICES ASSUME ~overtaken', NEW s \in DOMAIN streams', streams'[s].open
               PROVE  s = n
    BY DEF OneBody
  <2>1. s # n => s \in DOMAIN streams
    BY <1>2, <1>7, <1>8 DEF n
  <2> QED
    BY <2>1, <1>7, <1>14
<1>16. OneAnswerAtATime'
  <2> SUFFICES ASSUME ~overtaken'
               PROVE  Streaming' = {m}
    BY <1>1 DEF OneAnswerAtATime
  <2>1. Streaming' = {i \in DOMAIN messages' : messages'[i].streaming}
    BY DEF Streaming
  <2>2. m \in DOMAIN messages' /\ messages'[m].streaming
    BY <1>5, <1>8, <1>9
  <2>3. ASSUME NEW i \in DOMAIN messages', i # m
        PROVE  ~messages'[i].streaming
    <3>1. i \in DOMAIN ms /\ messages'[i] = ms[i]
      BY <2>3, <1>3, <1>5 DEF m
    <3> QED
      BY <3>1, <1>14 DEF MessagesFit, IsOpen
  <2> QED
    BY <2>1, <2>2, <2>3
<1> QED
  BY <1>11, <1>12, <1>13, <1>15, <1>16 DEF ChatInv

\* The user asks.
LEMMA sendQuestionKeeps ==
  ASSUME ChatInv, sendQuestion
  PROVE  ChatInv'
<1> DEFINE ms == Append(messages, Question)
<1>1. ~isStreaming /\ startStream(ms)
  BY DEF sendQuestion
<1>2. /\ messages \in Seq(ChatMessages) /\ DOMAIN messages = 1..Len(messages)
      /\ Len(messages) \in Nat
      /\ \A i \in DOMAIN messages : messages[i].role \in {"user", "agent"}
  BY ChatTyped DEF ChatInv
<1>3. Question \in ChatMessages
  BY ChatBounds DEF Question, ChatMessages
<1>4. /\ ms \in Seq(ChatMessages) /\ Len(ms) = Len(messages) + 1
      /\ DOMAIN ms = 1..Len(messages) + 1 /\ ms[Len(messages) + 1] = Question
      /\ \A i \in DOMAIN messages : ms[i] = messages[i]
  BY <1>2, <1>3
<1>5. Question.role = "user" /\ ~Question.streaming
  BY DEF Question
<1> HIDE DEF ms
<1>6. MessagesFit(ms)
  <2> SUFFICES ASSUME NEW i \in DOMAIN ms
               PROVE  /\ ms[i].role = "user" => ms[i] = Question
                      /\ ms[i].role = "user" /\ i < Len(ms) => ms[i + 1].role = "agent"
                      /\ ms[i].role = "agent" => ms[i].stream \in DOMAIN streams
                      /\ ms[i].streaming => ms[i].role = "agent" /\ IsOpen(ms[i].stream)
    BY DEF MessagesFit
  <2>1. CASE i = Len(messages) + 1
    BY <2>1, <1>2, <1>4, <1>5
  <2>2. CASE i # Len(messages) + 1
    <3>1. i \in DOMAIN messages /\ ms[i] = messages[i] /\ i \in Nat
      BY <2>2, <1>2, <1>4
    <3>2. MessagesFit(messages)
      BY DEF ChatInv
    <3>3. i # Len(messages) => i + 1 \in DOMAIN messages /\ i < Len(messages)
      BY <3>1, <1>2
    <3>4. i = Len(messages) => messages[i].role = "agent"
      BY <3>1, <1>2 DEF ChatInv, EndsWithAnswer
    <3>5. messages[i].role = "user" => ms[i + 1].role = "agent"
      BY <3>1, <3>2, <3>3, <3>4, <1>4 DEF MessagesFit
    <3> QED
      BY <3>1, <3>2, <3>5 DEF MessagesFit
  <2> QED
    BY <2>1, <2>2
<1> QED
  BY <1>1, <1>4, <1>6, StartKeeps

\* The user retries: the messages up to the last one without an error are kept.
LEMMA retryLastKeeps ==
  ASSUME ChatInv, retryLast
  PROVE  ChatInv'
<1>1. PICK n \in DOMAIN messages : startStream(SubSeq(messages, 1, n))
  BY DEF retryLast
<1> DEFINE ms == SubSeq(messages, 1, n)
<1>2. /\ messages \in Seq(ChatMessages) /\ DOMAIN messages = 1..Len(messages)
      /\ Len(messages) \in Nat
      /\ \A i \in DOMAIN messages : messages[i] \in ChatMessages
  BY ChatTyped DEF ChatInv
<1>3. \A i \in 1..n : i \in DOMAIN messages /\ messages[i] \in ChatMessages
  BY <1>2
<1>4. /\ ms \in Seq(ChatMessages) /\ Len(ms) = n /\ DOMAIN ms = 1..n
      /\ \A i \in 1..n : ms[i] = messages[i]
  BY <1>2, <1>3, SubSeqProperties
<1> HIDE DEF ms
<1>5. MessagesFit(ms)
  <2>1. MessagesFit(messages)
    BY DEF ChatInv
  <2>2. \A i \in DOMAIN ms : i < Len(ms) => i + 1 \in DOMAIN ms /\ i < Len(messages)
    BY <1>2, <1>4
  <2> QED
    BY <2>1, <2>2, <1>3, <1>4 DEF MessagesFit
<1>6. ~isStreaming /\ startStream(ms)
  BY <1>1 DEF retryLast, ms
<1> QED
  BY <1>4, <1>5, <1>6, StartKeeps

\* What a stream brings or its end leaves of the messages: those of stream s no
\* longer stream.
LEMMA ShownKeeps ==
  ASSUME ChatInv, NEW s, IsOpen(s), NEW fails \in BOOLEAN,
         Shows(s, FALSE, fails), NothingStreams, UNCHANGED overtaken,
         NEW f \in ChatStreams, streams' = [streams EXCEPT ![s] = f]
  PROVE  ChatInv'
<1>1. /\ messages \in Seq(ChatMessages) /\ streams \in Seq(ChatStreams)
      /\ DOMAIN messages = 1..Len(messages) /\ Len(messages) \in Nat
      /\ DOMAIN streams = 1..Len(streams) /\ Len(streams) \in Nat
      /\ \A i \in DOMAIN messages : messages[i] \in ChatMessages
      /\ overtaken \in BOOLEAN
  BY ChatTyped DEF ChatInv
<1>2. isStreaming' = FALSE /\ abortController' = 0 /\ overtaken' = overtaken
  BY DEF NothingStreams
<1>3. \A m \in ChatMessages :
        /\ [m EXCEPT !.streaming = FALSE, !.error = @ \/ fails] \in ChatMessages
        /\ [m EXCEPT !.streaming = FALSE, !.error = @ \/ fails].role = m.role
        /\ [m EXCEPT !.streaming = FALSE, !.error = @ \/ fails].stream = m.stream
        /\ ~[m EXCEPT !.streaming = FALSE, !.error = @ \/ fails].streaming
  BY DEF ChatMessages
<1>4. messages' = [i \in DOMAIN messages |->
        IF messages[i].stream = s
        THEN [messages[i] EXCEPT !.streaming = FALSE, !.error = @ \/ fails]
        ELSE messages[i]]
  BY DEF Shows
<1>5. /\ DOMAIN messages' = DOMAIN messages
      /\ \A i \in DOMAIN messages :
           /\ messages'[i] \in ChatMessages
           /\ messages'[i].role = messages[i].role /\ messages'[i].stream = messages[i].stream
           /\ IF messages[i].stream = s THEN ~messages'[i].streaming
              ELSE messages'[i] = messages[i]
  BY <1>1, <1>3, <1>4
<1>6. messages' \in Seq(ChatMessages) /\ Len(messages') = Len(messages)
  <2>1. messages' \in [1..Len(messages) -> ChatMessages]
    BY <1>1, <1>4, <1>5
  <2> QED
    BY <2>1, <1>1, SeqDef, LenProperties
<1>7. s \in DOMAIN streams /\ s # 0
  BY <1>1 DEF IsOpen
<1>8. /\ streams' \in Seq(ChatStreams) /\ DOMAIN streams' = DOMAIN streams
      /\ Len(streams') = Len(streams)
      /\ \A t \in DOMAIN streams : t # s => streams'[t] = streams[t]
  BY <1>1, <1>7
<1>9. \A t : IsOpen(t) /\ t # s => t \in DOMAIN streams' /\ streams'[t].open
  BY <1>8 DEF IsOpen
<1>10. MessagesFit(messages)
  BY DEF ChatInv
<1>11. ChatTypeOK'
  <2>1. abortController' \in 0..Len(streams')
    BY <1>1, <1>2, <1>8
  <2> QED
    BY <2>1, <1>1, <1>2, <1>6, <1>8 DEF ChatTypeOK, ChatMessages, ChatStreams
<1>12. MessagesFit(messages)'
  <2> SUFFICES ASSUME NEW i \in DOMAIN messages
               PROVE  /\ messages'[i].role = "user" => messages'[i] = Question
                      /\ messages'[i].role = "user" /\ i < Len(messages)
                           => messages'[i + 1].role = "agent"
                      /\ messages'[i].role = "agent" => messages'[i].stream \in DOMAIN streams
                      /\ messages'[i].streaming =>
                           /\ messages'[i].role = "agent"
                           /\ messages'[i].stream \in DOMAIN streams'
                           /\ streams'[messages'[i].stream].open
    BY <1>5, <1>6, <1>8 DEF MessagesFit, IsOpen
  <2>1. i < Len(messages) => i + 1 \in DOMAIN messages
    BY <1>1
  <2>2. messages[i].role = "user" => messages[i].stream # s
    BY <1>7, <1>10 DEF MessagesFit, Question
  <2>3. messages'[i].role = messages[i].role /\ messages'[i].stream = messages[i].stream
    BY <1>5
  <2>4. messages'[i].streaming => messages'[i] = messages[i] /\ messages[i].stream # s
    BY <1>5
  <2>5. messages'[i].role = "user" => messages'[i] = Question
    BY <2>2, <2>3, <1>5, <1>10 DEF MessagesFit
  <2>6. messages'[i].role = "user" /\ i < Len(messages) => messages'[i + 1].role = "agent"
    BY <2>1, <2>3, <1>5, <1>10 DEF MessagesFit
  <2>7. messages'[i].role = "agent" => messages'[i].stream \in DOMAIN streams
    BY <2>3, <1>10 DEF MessagesFit
  <2>8. messages'[i].streaming =>
          /\ messages'[i].role = "agent"
                           /\ messages'[i].stream \in DOMAIN streams'
                           /\ streams'[messages'[i].stream].open
    BY <2>4, <1>9, <1>10 DEF MessagesFit
  <2> QED
    BY <2>5, <2>6, <2>7, <2>8
<1>13. EndsWithAnswer'
  <2>1. messages' # <<>> => messages # <<>> /\ Len(messages) \in DOMAIN messages
    BY <1>1, <1>5
  <2> QED
    BY <2>1, <1>5, <1>6 DEF ChatInv, EndsWithAnswer
<1>14. StopReaches'
  BY <1>2 DEF StopReaches
<1>15. ASSUME ~overtaken, NEW t \in DOMAIN streams, streams[t].open
       PROVE  t = s
  BY <1>15, <1>7 DEF ChatInv, OneBody, IsOpen
<1>16. OneBody'
  BY <1>2, <1>8, <1>15 DEF OneBody
<1>17. OneAnswerAtATime'
  <2> SUFFICES ASSUME ~overtaken, NEW i \in DOMAIN messages, messages'[i].streaming
               PROVE  FALSE
    BY <1>2, <1>5 DEF OneAnswerAtATime, Streaming
  <2>1. messages[i].stream # s /\ messages[i].streaming
    BY <1>5
  <2>2. IsOpen(messages[i].stream)
    BY <2>1, <1>10 DEF MessagesFit
  <2> QED
    BY <2>1, <2>2, <1>15 DEF IsOpen
<1> QED
  BY <1>11, <1>12, <1>13, <1>14, <1>16, <1>17 DEF ChatInv

\* A terminal event, or the end of a body.
LEMMA StreamKeeps ==
  ASSUME ChatInv, NEW s \in 1..MaxStreams,
         HandleStreamEvent(s) \/ BodyEnds(s) \/ StreamFails(s)
  PROVE  ChatInv'
<1>1. IsOpen(s) /\ s \in DOMAIN streams /\ streams[s] \in ChatStreams
  BY ChatTyped DEF ChatInv, HandleStreamEvent, BodyEnds, StreamFails, IsOpen
<1>2. CASE HandleStreamEvent(s)
  <2>1. PICK type \in {"complete", "error"} :
          /\ Shows(s, FALSE, type = "error") /\ NothingStreams
          /\ streams' = [streams EXCEPT ![s].told = @ \cup {type}] /\ overtaken' = overtaken
    BY <1>2 DEF HandleStreamEvent
  <2>2. PICK f \in ChatStreams : f = [streams[s] EXCEPT !.told = @ \cup {type}]
    BY <1>1 DEF ChatStreams
  <2>3. streams' = [streams EXCEPT ![s] = f]
    BY <2>1, <2>2
  <2>4. (type = "error") \in BOOLEAN
    OBVIOUS
  <2> QED
    BY <2>1, <2>3, <2>4, <1>1, ShownKeeps
<1>3. CASE BodyEnds(s) \/ StreamFails(s)
  <2>1. PICK fails \in BOOLEAN :
          /\ Shows(s, FALSE, fails) /\ NothingStreams /\ overtaken' = overtaken
          /\ streams' = [streams EXCEPT ![s].open = FALSE]
    BY <1>3 DEF BodyEnds, StreamFails, Closes
  <2>2. PICK f \in ChatStreams : f = [streams[s] EXCEPT !.open = FALSE]
    BY <1>1 DEF ChatStreams
  <2>3. streams' = [streams EXCEPT ![s] = f]
    BY <2>1, <2>2
  <2> QED
    BY <2>1, <2>3, <1>1, ShownKeeps
<1> QED
  BY <1>2, <1>3

\* The aborted stream is closed, the others stay.
LEMMA AbortClosesOne ==
  ASSUME ChatTypeOK, Aborts
  PROVE  /\ streams' \in Seq(ChatStreams) /\ DOMAIN streams' = DOMAIN streams
         /\ Len(streams') = Len(streams)
         /\ \A s \in DOMAIN streams :
              /\ s # abortController => streams'[s] = streams[s]
              /\ streams'[s].open => streams[s].open
<1>1. /\ streams \in Seq(ChatStreams) /\ DOMAIN streams = 1..Len(streams)
      /\ Len(streams) \in Nat /\ abortController \in 0..Len(streams)
      /\ \A s \in DOMAIN streams : streams[s] \in ChatStreams
  BY ChatTyped
<1>2. CASE abortController = 0
  BY <1>1, <1>2 DEF Aborts
<1>3. CASE abortController # 0
  <2>1. abortController \in DOMAIN streams
    BY <1>1, <1>3
  <2>2. PICK f \in ChatStreams :
          f = [streams[abortController] EXCEPT !.open = FALSE] /\ ~f.open
    <3>1. \A x \in ChatStreams : /\ [x EXCEPT !.open = FALSE] \in ChatStreams
                                 /\ ~[x EXCEPT !.open = FALSE].open
      BY DEF ChatStreams
    <3> QED
      BY <2>1, <3>1, <1>1
  <2>3. streams' = [streams EXCEPT ![abortController] = f]
    BY <2>2, <1>3 DEF Aborts
  <2> QED
    BY <2>1, <2>2, <2>3, <1>1
<1> QED
  BY <1>2, <1>3

\* The user stops the answer.
LEMMA stopStreamingKeeps ==
  ASSUME ChatInv, stopStreaming
  PROVE  ChatInv'
<1>1. /\ messages \in Seq(ChatMessages) /\ DOMAIN messages = 1..Len(messages)
      /\ Len(messages) \in Nat
      /\ \A i \in DOMAIN messages : messages[i] \in ChatMessages
      /\ ChatTypeOK /\ overtaken \in BOOLEAN /\ Len(streams) \in Nat
  BY ChatTyped DEF ChatInv
<1>2. /\ isStreaming' = FALSE /\ abortController' = 0 /\ overtaken' = overtaken
      /\ isStreaming /\ Aborts /\ messages' = [i \in DOMAIN messages |-> Stopped(i)]
  BY DEF stopStreaming, NothingStreams
<1>3. /\ streams' \in Seq(ChatStreams) /\ DOMAIN streams' = DOMAIN streams
      /\ Len(streams') = Len(streams)
      /\ \A s \in DOMAIN streams :
           /\ s # abortController => streams'[s] = streams[s]
           /\ streams'[s].open => streams[s].open
  BY <1>1, <1>2, AbortClosesOne
<1>4. abortController # 0
  BY <1>2 DEF ChatInv, StopReaches
<1>5. \A m \in ChatMessages :
        /\ [m EXCEPT !.streaming = FALSE] \in ChatMessages
        /\ [m EXCEPT !.streaming = FALSE].role = m.role
        /\ [m EXCEPT !.streaming = FALSE].stream = m.stream
        /\ ~[m EXCEPT !.streaming = FALSE].streaming
  BY DEF ChatMessages
<1>6. /\ DOMAIN messages' = DOMAIN messages
      /\ \A i \in DOMAIN messages :
           /\ messages'[i] \in ChatMessages
           /\ messages'[i].role = messages[i].role /\ messages'[i].stream = messages[i].stream
           /\ IF LastStreaming(i) \/ messages[i].stream = abortController
              THEN ~messages'[i].streaming ELSE messages'[i] = messages[i]
  BY <1>1, <1>2, <1>5 DEF Stopped
<1>7. messages' \in Seq(ChatMessages) /\ Len(messages') = Len(messages)
  <2>1. messages' \in [1..Len(messages) -> ChatMessages]
    BY <1>1, <1>2, <1>6
  <2> QED
    BY <2>1, <1>1, SeqDef, LenProperties
<1>8. MessagesFit(messages)
  BY DEF ChatInv
<1>9. \A t : IsOpen(t) /\ t # abortController => t \in DOMAIN streams' /\ streams'[t].open
  BY <1>3 DEF IsOpen
<1>10. ChatTypeOK'
  <2>1. abortController' \in 0..Len(streams')
    BY <1>1, <1>2, <1>3
  <2> QED
    BY <2>1, <1>1, <1>2, <1>3, <1>7 DEF ChatTypeOK, ChatMessages, ChatStreams
<1>11. MessagesFit(messages)'
  <2> SUFFICES ASSUME NEW i \in DOMAIN messages
               PROVE  /\ messages'[i].role = "user" => messages'[i] = Question
                      /\ messages'[i].role = "user" /\ i < Len(messages)
                           => messages'[i + 1].role = "agent"
                      /\ messages'[i].role = "agent" => messages'[i].stream \in DOMAIN streams
                      /\ messages'[i].streaming =>
                           /\ messages'[i].role = "agent"
                           /\ messages'[i].stream \in DOMAIN streams'
                           /\ streams'[messages'[i].stream].open
    BY <1>3, <1>6, <1>7 DEF MessagesFit, IsOpen
  <2>1. i < Len(messages) => i + 1 \in DOMAIN messages
    BY <1>1
  <2>2. messages[i].role = "user" => messages[i].stream # abortController /\ ~messages[i].streaming
    BY <1>4, <1>8 DEF MessagesFit, Question
  <2>3. messages'[i].role = messages[i].role /\ messages'[i].stream = messages[i].stream
    BY <1>6
  <2>4. messages'[i].streaming =>
          messages'[i] = messages[i] /\ messages[i].stream # abortController
    BY <1>6
  <2>5. messages'[i].role = "user" => messages'[i] = Question
    BY <2>2, <2>3, <1>6, <1>8 DEF MessagesFit, LastStreaming, Streaming
  <2>6. messages'[i].role = "user" /\ i < Len(messages) => messages'[i + 1].role = "agent"
    BY <2>1, <2>3, <1>6, <1>8 DEF MessagesFit
  <2>7. messages'[i].role = "agent" => messages'[i].stream \in DOMAIN streams
    BY <2>3, <1>8 DEF MessagesFit
  <2>8. messages'[i].streaming =>
          /\ messages'[i].role = "agent"
                           /\ messages'[i].stream \in DOMAIN streams'
                           /\ streams'[messages'[i].stream].open
    BY <2>4, <1>8, <1>9 DEF MessagesFit
  <2> QED
    BY <2>5, <2>6, <2>7, <2>8
<1>12. EndsWithAnswer'
  <2>1. messages' # <<>> => messages # <<>> /\ Len(messages) \in DOMAIN messages
    BY <1>1, <1>6
  <2> QED
    BY <2>1, <1>6, <1>7 DEF ChatInv, EndsWithAnswer
<1>13. StopReaches'
  BY <1>2 DEF StopReaches
<1>14. OneBody'
  BY <1>2, <1>3 DEF ChatInv, OneBody
<1>15. OneAnswerAtATime'
  <2> SUFFICES ASSUME ~overtaken, NEW i \in DOMAIN messages, messages'[i].streaming
               PROVE  FALSE
    BY <1>2, <1>6 DEF OneAnswerAtATime, Streaming
  <2>1. ~LastStreaming(i) /\ i \in Streaming
    BY <1>6 DEF Streaming
  <2>2. \A j \in Streaming : j = i
    <3>1. OneAnswerAtATime
      BY DEF ChatInv
    <3> QED
      BY <2>1, <3>1 DEF OneAnswerAtATime
  <2>3. i <= i
    BY <1>1
  <2> QED
    BY <2>1, <2>2, <2>3 DEF LastStreaming
<1> QED
  BY <1>10, <1>11, <1>12, <1>13, <1>14, <1>15 DEF ChatInv

\* A new conversation shows nothing; streams that were not aborted go on.
LEMMA newConversationKeeps ==
  ASSUME ChatInv, newConversation
  PROVE  ChatInv'
<1>1. ChatTypeOK /\ Aborts
  BY DEF ChatInv, newConversation
<1>2. /\ isStreaming' = FALSE /\ abortController' = 0 /\ overtaken' = overtaken
      /\ messages' = <<>>
  BY DEF newConversation, NothingStreams
<1>3. /\ streams' \in Seq(ChatStreams) /\ DOMAIN streams' = DOMAIN streams
      /\ Len(streams') = Len(streams) /\ Len(streams) \in Nat
      /\ \A s \in DOMAIN streams : streams'[s].open => streams[s].open
  BY <1>1, AbortClosesOne, ChatTyped
<1>4. ChatTypeOK'
  <2>1. /\ abortController' \in 0..Len(streams') /\ overtaken' \in BOOLEAN
        /\ messages' \in Seq(ChatMessages)
    BY <1>1, <1>2, <1>3, ChatTyped, EmptySeq
  <2> QED
    BY <1>2, <1>3, <2>1 DEF ChatTypeOK, ChatMessages, ChatStreams
<1>5. MessagesFit(messages)' /\ EndsWithAnswer' /\ StopReaches' /\ OneAnswerAtATime'
  BY <1>2 DEF MessagesFit, EndsWithAnswer, StopReaches, OneAnswerAtATime, Streaming
<1>6. OneBody'
  BY <1>2, <1>3 DEF ChatInv, OneBody
<1> QED
  BY <1>4, <1>5, <1>6 DEF ChatInv

LEMMA ChatNextInv == ChatInv /\ [ChatNext]_chatVars => ChatInv'
<1> SUFFICES ASSUME ChatInv, [ChatNext]_chatVars PROVE ChatInv'
  OBVIOUS
<1>1. CASE ChatNext
  BY <1>1, sendQuestionKeeps, retryLastKeeps, stopStreamingKeeps, newConversationKeeps,
     StreamKeeps DEF ChatNext
<1>2. CASE UNCHANGED chatVars
  BY <1>2 DEF chatVars, ChatInv, ChatTypeOK, MessagesFit, EndsWithAnswer, StopReaches, OneBody,
     OneAnswerAtATime, Streaming, IsOpen
<1> QED
  BY <1>1, <1>2

\* Whatever order the user's clicks and the ends of streams come in, the chat
\* shows what its streams do, for any number of streams.
THEOREM ChatCorrect == ChatSpec => []ChatInvariant
<1>1. ChatInv => ChatInvariant
  <2> SUFFICES ASSUME ChatInv PROVE WaitsForOpen /\ QuestionsHaveAnswers
    BY DEF ChatInv, ChatInvariant
  <2>1. /\ DOMAIN messages = 1..Len(messages) /\ Len(messages) \in Nat
        /\ MessagesFit(messages) /\ EndsWithAnswer
    BY ChatTyped DEF ChatInv
  <2>2. WaitsForOpen
    BY <2>1 DEF MessagesFit, WaitsForOpen, Streaming
  <2>3. QuestionsHaveAnswers
    <3> SUFFICES ASSUME NEW i \in DOMAIN messages, messages[i].role = "user"
                 PROVE  i < Len(messages)
      BY <2>1 DEF MessagesFit, QuestionsHaveAnswers
    <3>1. i # Len(messages)
      BY <2>1 DEF EndsWithAnswer
    <3> QED
      BY <2>1, <3>1
  <2> QED
    BY <2>2, <2>3
<1> QED
  BY <1>1, ChatInitInv, ChatNextInv, PTL DEF ChatSpec
------------------------------------------------------------------------------
(* AgentCalls: the events of a stream. *)

LEMMA EventFacts ==
  /\ \A type \in {"status", "complete", "error"} :
       Event(type, 0) \in StreamEvents /\ Event(type, 0).type = type
  /\ \A n \in Chunks : /\ Event("partial", n) \in StreamEvents /\ Event("partial", n) \notin Terminals
                       /\ Event("partial", n).type = "partial" /\ Event("partial", n).chunk = n
  /\ Event("status", 0) \notin Terminals
  /\ Event("complete", 0) \in Terminals /\ Event("error", 0) \in Terminals
  /\ Event("complete", 0) # Event("error", 0)
<1>1. \A type, n : Event(type, n).type = type /\ Event(type, n).chunk = n
  BY DEF Event
<1> QED
  BY <1>1 DEF StreamEvents, Terminals

\* The terminal events among those of a stream, and one event more.
TerminalsOf(w) == {i \in DOMAIN w : w[i] \in Terminals}

LEMMA AppendEvent ==
  ASSUME NEW w \in Seq(StreamEvents), NEW e \in StreamEvents
  PROVE  /\ Append(w, e) \in Seq(StreamEvents) /\ Append(w, e) # <<>>
         /\ Len(Append(w, e)) = Len(w) + 1 /\ Append(w, e)[Len(w) + 1] = e
         /\ DOMAIN w = 1..Len(w) /\ Len(w) \in Nat
         /\ DOMAIN Append(w, e) = 1..Len(w) + 1
         /\ \A i \in DOMAIN w : Append(w, e)[i] = w[i]
         /\ TerminalsOf(Append(w, e)) =
              TerminalsOf(w) \cup (IF e \in Terminals THEN {Len(w) + 1} ELSE {})
<1> DEFINE v == Append(w, e)
<1>1. DOMAIN w = 1..Len(w) /\ Len(w) \in Nat
  OBVIOUS
<1>2. /\ v \in Seq(StreamEvents) /\ Len(v) = Len(w) + 1 /\ v[Len(w) + 1] = e
      /\ DOMAIN v = 1..Len(w) + 1 /\ \A i \in DOMAIN w : v[i] = w[i]
  BY <1>1
<1>3. v # <<>>
  BY <1>1, <1>2, EmptySeq
<1> HIDE DEF v
<1>4. TerminalsOf(v) = TerminalsOf(w) \cup (IF e \in Terminals THEN {Len(w) + 1} ELSE {})
  <2>1. \A i \in DOMAIN v : i \in DOMAIN w \/ i = Len(w) + 1
    BY <1>1, <1>2
  <2>2. DOMAIN w \subseteq DOMAIN v /\ Len(w) + 1 \in DOMAIN v
    BY <1>1, <1>2
  <2> QED
    BY <2>1, <2>2, <1>2 DEF TerminalsOf
<1> QED
  BY <1>1, <1>2, <1>3, <1>4 DEF v

\* What is delivered stays so with an event that is no part of the answer.
LEMMA DeliversNoPart ==
  ASSUME NEW w \in Seq(StreamEvents), NEW a, NEW e \in StreamEvents, e.type # "partial",
         Delivers(w, a)
  PROVE  Delivers(Append(w, e), a)
<1> DEFINE v == Append(w, e)
<1>1. /\ DOMAIN w = 1..Len(w) /\ Len(w) \in Nat /\ DOMAIN v = 1..Len(w) + 1
      /\ v[Len(w) + 1] = e /\ \A i \in DOMAIN w : v[i] = w[i]
  BY AppendEvent
<1> HIDE DEF v
<1>2. Partials(v) = Partials(w)
  BY <1>1 DEF Partials
<1>3. \A i \in Partials(w) : v[i] = w[i]
  BY <1>1 DEF Partials
<1> QED
  BY <1>2, <1>3 DEF Delivers, v

\* A part of the answer that is written is the next one.
LEMMA DeliversPart ==
  ASSUME NEW w \in Seq(StreamEvents), NEW a \in Seq(Chunks), NEW e \in StreamEvents,
         e.type = "partial", e.chunk \in Chunks, Delivers(w, a)
  PROVE  Delivers(Append(w, e), Append(a, e.chunk))
<1> DEFINE v == Append(w, e)
           b == Append(a, e.chunk)
           n == Len(w) + 1
<1>1. /\ DOMAIN w = 1..Len(w) /\ Len(w) \in Nat /\ DOMAIN v = 1..n
      /\ v[n] = e /\ \A i \in DOMAIN w : v[i] = w[i]
  BY AppendEvent
<1>2. /\ Len(a) \in Nat /\ DOMAIN a = 1..Len(a) /\ Len(b) = Len(a) + 1
      /\ b[Len(a) + 1] = e.chunk /\ \A i \in 1..Len(a) : b[i] = a[i]
  OBVIOUS
<1>3. n \in Nat /\ n \notin DOMAIN w /\ \A i \in DOMAIN w : i \in Nat /\ i < n
  BY <1>1
<1> HIDE DEF v, b, n
<1>4. Partials(v) = Partials(w) \cup {n} /\ n \notin Partials(w)
  <2>1. \A i \in DOMAIN v : i \in DOMAIN w \/ i = n
    BY <1>1 DEF n
  <2>2. DOMAIN w \subseteq DOMAIN v /\ n \in DOMAIN v
    BY <1>1, <1>3 DEF n
  <2> QED
    BY <2>1, <2>2, <1>1, <1>3 DEF Partials
<1>5. IsFiniteSet(Partials(w))
  <2>1. IsFiniteSet(DOMAIN w)
    BY <1>1, FS_Interval
  <2> QED
    BY <2>1, FS_Subset DEF Partials
<1>6. Cardinality(Partials(w)) = Len(a)
  BY DEF Delivers
<1>7. Cardinality(Partials(v)) = Len(a) + 1
  BY <1>4, <1>5, <1>6, FS_AddElement
<1>8. ASSUME NEW i \in Partials(v)
      PROVE  b[Cardinality({j \in Partials(v) : j <= i})] = v[i].chunk
  <2>1. CASE i = n
    <3>1. {j \in Partials(v) : j <= i} = Partials(v)
      BY <2>1, <1>3, <1>4 DEF Partials
    <3> QED
      BY <2>1, <3>1, <1>1, <1>2, <1>7
  <2>2. CASE i # n
    <3>1. i \in Partials(w) /\ i \in DOMAIN w
      BY <2>2, <1>4 DEF Partials
    <3>2. {j \in Partials(v) : j <= i} = {j \in Partials(w) : j <= i}
      BY <3>1, <1>3, <1>4 DEF Partials
    <3>3. PICK k : k = Cardinality({j \in Partials(w) : j <= i})
      OBVIOUS
    <3>4. k \in 1..Len(a)
      <4> DEFINE S == {j \in Partials(w) : j <= i}
      <4>1. IsFiniteSet(S) /\ Cardinality(S) <= Cardinality(Partials(w))
        BY <1>5, FS_Subset
      <4>2. S # {}
        BY <3>1, <1>3
      <4>3. Cardinality(S) \in Nat /\ Cardinality(S) # 0
        BY <4>1, <4>2, FS_CardinalityType, FS_EmptySet
      <4> QED
        BY <4>1, <4>3, <3>3, <1>2, <1>6
    <3>5. a[k] = w[i].chunk
      BY <3>1, <3>3 DEF Delivers
    <3> QED
      BY <3>1, <3>2, <3>3, <3>4, <3>5, <1>1, <1>2
  <2> QED
    BY <2>1, <2>2
<1> QED
  BY <1>2, <1>7, <1>8 DEF Delivers, v, b

LEMMA DeliversNothing == Delivers(<<>>, <<>>)
<1>1. Partials(<<>>) = {}
  BY DEF Partials
<1> QED
  BY <1>1, FS_EmptySet DEF Delivers
------------------------------------------------------------------------------
(* AgentCalls: what holds of a query while it goes its way. *)

SawSet == {"cancelled", "failed", "unwritten", "refused", "network"}
QueryRecords ==
  [at: {"idle", "route", "connects", "sends", "waits", "streams", "executes", "returned"},
   kind: {"none", "query", "stream"}, route: {"none", "shared", "direct", "multi"},
   deadline: BOOLEAN, lost: BOOLEAN, mixed: BOOLEAN,
   saw: SUBSET SawSet,
   answer: Seq(Chunks), written: Seq(StreamEvents), events: Nat, attempts: 0..MaxAttempts,
   carried: [trace: QueryThreads \cup {NoThread}, timeout: QueryThreads \cup {NoThread}],
   status: {"none", "completed", "failed", "cancelled"}]

\* The service learned, before or in a write, that the client is gone.
Gone(saw) == saw \cap {"cancelled", "unwritten"} # {}
SawFits(q) ==
  /\ Gone(q.saw) => q.lost
  /\ "network" \in q.saw => "failed" \in q.saw

\* Each step of a query is one of its kind and route, and an attempt is left for
\* a request that is about to be sent.
RouteFits(q) ==
  /\ q.at \in {"route", "connects"} => q.attempts = 0
  /\ q.at = "sends" => q.attempts < MaxAttempts
  /\ q.at = "route" => q.written = <<>> /\ q.route = "none" /\ ~q.mixed
  /\ q.at \in {"route", "connects", "sends", "waits"} =>
       q.saw = {} /\ (q.kind = "stream" => q.answer = <<>>)
  /\ q.at \in {"route", "connects", "sends"} => q.kind # "none"
  /\ q.at = "waits" => q.kind = "query"
  /\ q.at = "streams" => q.kind = "stream"
  /\ q.at = "executes" => q.route = "multi"
  /\ q.at \in {"connects", "sends", "waits", "streams"} => q.route \in {"shared", "direct"}

\* A terminal event is written at the end only, and goes with the status; what is
\* written of an answer is all of it, unless the client is gone.
EventsFit(q) ==
  /\ q.at # "idle" => TerminalsOf(q.written) = {} /\ q.status = "none"
  /\ q.at = "idle" => TerminalsOf(q.written) \subseteq {Len(q.written)}
  /\ q.at = "idle" /\ q.kind = "stream" /\ ~q.lost /\ "refused" \notin q.saw =>
       /\ q.written # <<>>
       /\ q.written[Len(q.written)] =
            Event(IF q.status = "completed" THEN "complete" ELSE "error", 0)
  /\ q.status = "completed" => q.saw = {}
  /\ q.kind = "stream" /\ q.route # "multi" /\ ~Gone(q.saw) => Delivers(q.written, q.answer)

QueryFits(t, q) ==
  /\ q \in QueryRecords /\ q.events <= MaxEvents[t]
  /\ SawFits(q) /\ RouteFits(q) /\ EventsFit(q)

\* Unless another query came between: with the headers h and the timeout c of the
\* shared client, the query t has what it set up, and its request carried it.
OwnClient(t, q, o, h, c) ==
  ~q.mixed =>
    /\ q.route = "shared" /\ q.at \in {"sends", "waits"} => h = t
    /\ q.route = "shared" /\ q.at \in {"connects", "sends", "waits"} /\ q.deadline /\ ~o => c = t
    /\ q.at \in {"waits", "streams"} => q.carried.trace = t
    /\ q.at \in {"waits", "streams"} /\ q.kind = "query" /\ q.deadline /\ q.route = "shared" /\ ~o =>
         q.carried.timeout = t

CallsInv ==
  /\ orchestrated \in BOOLEAN
  /\ headers \in QueryThreads \cup {NoThread} /\ clientTimeout \in QueryThreads \cup {NoThread}
  /\ query \in [QueryThreads -> QueryRecords]
  /\ queries \in [QueryThreads -> 0..MaxQueries]
  /\ \A t \in QueryThreads :
       /\ QueryFits(t, query[t])
       /\ OwnClient(t, query[t], orchestrated, headers, clientTimeout)

LEMMA NoQueryFits ==
  ASSUME NEW t \in QueryThreads
  PROVE  /\ QueryFits(t, NoQuery) /\ NoQuery.attempts = 0
         /\ NoQuery.at = "idle" /\ NoQuery.kind = "none" /\ NoQuery.route = "none" /\ ~NoQuery.mixed
         /\ NoQuery.written = <<>> /\ NoQuery.answer = <<>> /\ NoQuery.saw = {}
         /\ NoQuery.events = 0 /\ NoQuery.status = "none"
<1>1. NoQuery \in QueryRecords
  <2>1. <<>> \in Seq(Chunks) /\ <<>> \in Seq(StreamEvents)
    BY EmptySeq
  <2>2. NoCarried \in [trace: QueryThreads \cup {NoThread}, timeout: QueryThreads \cup {NoThread}]
    BY DEF NoCarried
  <2>3. 0 \in 0..MaxAttempts
    BY AgentCallBounds
  <2> QED
    BY <2>1, <2>2, <2>3 DEF NoQuery, QueryRecords, SawSet
<1>2. /\ NoQuery.attempts = 0
      /\ NoQuery.at = "idle" /\ NoQuery.kind = "none" /\ NoQuery.route = "none" /\ ~NoQuery.mixed
      /\ NoQuery.written = <<>> /\ NoQuery.answer = <<>> /\ NoQuery.saw = {}
      /\ NoQuery.events = 0 /\ NoQuery.status = "none"
  BY DEF NoQuery
<1>3. TerminalsOf(<<>>) = {}
  BY DEF TerminalsOf
<1>4. MaxEvents[t] \in Nat
  BY AgentCallBounds
<1> QED
  BY <1>1, <1>2, <1>3, <1>4 DEF QueryFits, SawFits, RouteFits, EventsFit, Gone

\* The others' queries and what they have of the shared client stay as they are,
\* or the others are known to be mixed up.
LEMMA StepOf ==
  ASSUME CallsInv, NEW t \in QueryThreads, NEW q, QueryFits(t, q),
         OwnClient(t, q, orchestrated, headers', clientTimeout'),
         orchestrated' = orchestrated,
         headers' \in QueryThreads \cup {NoThread}, clientTimeout' \in QueryThreads \cup {NoThread},
         queries' \in [QueryThreads -> 0..MaxQueries],
         \/ Advances(t, q) /\ headers' = headers /\ clientTimeout' = clientTimeout
         \/ Mixes(t, q)
  PROVE  CallsInv'
<1>1. q \in QueryRecords /\ query \in [QueryThreads -> QueryRecords]
  BY DEF QueryFits, CallsInv
<1>2. CASE Advances(t, q) /\ headers' = headers /\ clientTimeout' = clientTimeout
  <2>1. /\ query' \in [QueryThreads -> QueryRecords] /\ query'[t] = q
        /\ \A u \in QueryThreads : u # t => query'[u] = query[u]
    BY <1>1, <1>2 DEF Advances
  <2>2. \A u \in QueryThreads : QueryFits(u, query'[u])
    BY <2>1 DEF CallsInv
  <2>3. \A u \in QueryThreads : OwnClient(u, query'[u], orchestrated', headers', clientTimeout')
    BY <2>1, <1>2 DEF CallsInv
  <2> QED
    BY <2>1, <2>2, <2>3 DEF CallsInv
<1>3. CASE Mixes(t, q)
  <2>1. query' = [u \in QueryThreads |->
          IF u = t THEN q
          ELSE [query[u] EXCEPT !.mixed =
                  @ \/ (query[u].route = "shared" /\ query[u].at \in {"connects", "sends", "waits"})]]
    BY <1>3 DEF Mixes
  <2>2. ASSUME NEW u \in QueryThreads, u # t
        PROVE  /\ query'[u] \in QueryRecords /\ QueryFits(u, query'[u])
               /\ OwnClient(u, query'[u], orchestrated', headers', clientTimeout')
    <3> DEFINE b == query[u].mixed
                      \/ (query[u].route = "shared" /\ query[u].at \in {"connects", "sends", "waits"})
    <3>1. b \in BOOLEAN
      BY <1>1 DEF QueryRecords
    <3>2. /\ QueryFits(u, query[u]) /\ OwnClient(u, query[u], orchestrated, headers, clientTimeout)
          /\ query[u] \in QueryRecords
      BY <1>1 DEF CallsInv
    <3>3. query'[u] = [query[u] EXCEPT !.mixed = b]
      BY <2>1, <2>2
    <3>4. b => query'[u].mixed
      BY <3>2, <3>3 DEF QueryRecords
    <3>5. ~b => query'[u].mixed = FALSE /\ query[u].mixed = FALSE
      BY <3>1, <3>2, <3>3 DEF QueryRecords
    <3>6. /\ query'[u] \in QueryRecords
          /\ query'[u].at = query[u].at /\ query'[u].kind = query[u].kind
          /\ query'[u].route = query[u].route /\ query'[u].deadline = query[u].deadline
          /\ query'[u].lost = query[u].lost /\ query'[u].saw = query[u].saw
          /\ query'[u].answer = query[u].answer /\ query'[u].written = query[u].written
          /\ query'[u].events = query[u].events /\ query'[u].attempts = query[u].attempts
          /\ query'[u].carried = query[u].carried /\ query'[u].status = query[u].status
      BY <3>1, <3>2, <3>3 DEF QueryRecords
    <3>7. query[u].at = "route" => ~query'[u].mixed
      <4>1. query[u].at = "route" => ~query[u].mixed
        BY <3>2 DEF QueryFits, RouteFits
      <4> QED
        BY <4>1, <3>5
    <3>8. QueryFits(u, query'[u])
      BY <3>2, <3>6, <3>7 DEF QueryFits, SawFits, RouteFits, EventsFit
    <3>9. OwnClient(u, query'[u], orchestrated', headers', clientTimeout')
      <4>1. CASE b
        BY <4>1, <3>4 DEF OwnClient
      <4>2. CASE ~b
        BY <4>2, <3>2, <3>5, <3>6 DEF OwnClient
      <4> QED
        BY <4>1, <4>2
    <3> QED
      BY <3>6, <3>8, <3>9
  <2>3. query'[t] = q
    BY <2>1
  <2>4. query' \in [QueryThreads -> QueryRecords]
    BY <2>1, <2>2, <2>3, <1>1
  <2>5. \A u \in QueryThreads :
          /\ QueryFits(u, query'[u])
          /\ OwnClient(u, query'[u], orchestrated', headers', clientTimeout')
    BY <2>2, <2>3
  <2> QED
    BY <2>4, <2>5 DEF CallsInv
<1> QED
  BY <1>2, <1>3

\* The call is over.
LEMMA BackFits ==
  ASSUME NEW t \in QueryThreads, NEW q \in QueryRecords, NEW saw \in SUBSET SawSet,
         TerminalsOf(q.written) = {}, q.status = "none",
         Gone(saw) => q.lost, "network" \in saw => "failed" \in saw,
         q.kind = "stream" /\ q.route # "multi" /\ ~Gone(saw) => Delivers(q.written, q.answer)
  PROVE  /\ QueryFits(t, Back(q, saw))
         /\ \A o, h, c : OwnClient(t, Back(q, saw), o, h, c)
<1> DEFINE r == Back(q, saw)
<1>1. NoCarried \in [trace: QueryThreads \cup {NoThread}, timeout: QueryThreads \cup {NoThread}]
  BY DEF NoCarried
<1>2. /\ r \in QueryRecords /\ r.at = "returned" /\ r.saw = saw /\ r.events = 0
      /\ r.kind = q.kind /\ r.route = q.route /\ r.lost = q.lost /\ r.answer = q.answer
      /\ r.written = q.written /\ r.status = q.status
  BY <1>1 DEF Back, QueryRecords
<1>3. MaxEvents[t] \in Nat
  BY AgentCallBounds
<1> HIDE DEF r
<1>4. QueryFits(t, r) /\ \A o, h, c : OwnClient(t, r, o, h, c)
  BY <1>2, <1>3 DEF QueryFits, SawFits, RouteFits, EventsFit, OwnClient
<1> QED
  BY <1>4 DEF r

\* The client of a query stays as it is, and so does that of the others.
LEMMA AdvanceKeeps ==
  ASSUME CallsInv, NEW t \in QueryThreads, NEW q, QueryFits(t, q), Advances(t, q), KeepsClient,
         OwnClient(t, q, orchestrated, headers, clientTimeout)
  PROVE  CallsInv'
<1>1. /\ orchestrated' = orchestrated /\ headers' = headers /\ clientTimeout' = clientTimeout
      /\ queries' = queries
  BY DEF KeepsClient
<1>2. /\ headers \in QueryThreads \cup {NoThread} /\ clientTimeout \in QueryThreads \cup {NoThread}
      /\ queries \in [QueryThreads -> 0..MaxQueries]
  BY DEF CallsInv
<1>3. OwnClient(t, q, orchestrated, headers', clientTimeout')
  BY <1>1
<1> QED
  BY <1>1, <1>2, <1>3, StepOf

\* A call that is over leaves the shared client alone, or clears its headers.
LEMMA BackKeeps ==
  ASSUME CallsInv, NEW t \in QueryThreads, NEW q \in QueryRecords, NEW saw \in SUBSET SawSet,
         TerminalsOf(q.written) = {}, q.status = "none",
         Gone(saw) => q.lost, "network" \in saw => "failed" \in saw,
         q.kind = "stream" /\ q.route # "multi" /\ ~Gone(saw) => Delivers(q.written, q.answer),
         (Advances(t, Back(q, saw)) /\ KeepsClient) \/ Answer(t, Back(q, saw))
  PROVE  CallsInv'
<1>1. QueryFits(t, Back(q, saw)) /\ \A o, h, c : OwnClient(t, Back(q, saw), o, h, c)
  BY BackFits
<1>2. CASE Advances(t, Back(q, saw)) /\ KeepsClient
  BY <1>1, <1>2, AdvanceKeeps
<1>3. CASE Answer(t, Back(q, saw))
  <2>1. /\ orchestrated' = orchestrated /\ clientTimeout' = clientTimeout /\ queries' = queries
        /\ headers' \in {headers, NoThread}
        /\ \/ Advances(t, Back(q, saw)) /\ headers' = headers
           \/ Mixes(t, Back(q, saw))
    BY <1>3 DEF Answer
  <2>2. /\ headers \in QueryThreads \cup {NoThread} /\ clientTimeout \in QueryThreads \cup {NoThread}
        /\ queries \in [QueryThreads -> 0..MaxQueries]
    BY DEF CallsInv
  <2>3. OwnClient(t, Back(q, saw), orchestrated, headers', clientTimeout')
    BY <1>1
  <2>4. headers' \in QueryThreads \cup {NoThread}
    BY <2>1, <2>2
  <2> QED
    BY <1>1, <2>1, <2>2, <2>3, <2>4, StepOf
<1> QED
  BY <1>2, <1>3

\* What a write makes of a query.
Wrote(q, e, r) ==
  \/ r = [q EXCEPT !.written = Append(@, e)]
  \/ r = [q EXCEPT !.lost = TRUE]

WroteOnly(q, e, r) ==
  /\ r \in QueryRecords /\ r.at = q.at /\ r.kind = q.kind /\ r.route = q.route
  /\ r.deadline = q.deadline /\ r.mixed = q.mixed /\ r.saw = q.saw /\ r.answer = q.answer
  /\ r.events = q.events /\ r.attempts = q.attempts /\ r.carried = q.carried
  /\ r.status = q.status
  /\ \/ r.written = Append(q.written, e) /\ r.lost = q.lost
     \/ r.written = q.written /\ r.lost = TRUE

LEMMA WriteFields ==
  ASSUME NEW q \in QueryRecords, NEW e \in StreamEvents, NEW r, Wrote(q, e, r)
  PROVE  WroteOnly(q, e, r)
<1>1. q.written \in Seq(StreamEvents)
  BY DEF QueryRecords
<1>2. Append(q.written, e) \in Seq(StreamEvents)
  BY <1>1, AppendEvent
<1> QED
  BY <1>2 DEF Wrote, WroteOnly, QueryRecords

LEMMA ServeKeeps ==
  ASSUME CallsInv, NEW t \in QueryThreads, NEW k \in {"query", "stream"}, NEW d \in BOOLEAN,
         Serve(t, k, d)
  PROVE  CallsInv'
<1> DEFINE r == [NoQuery EXCEPT !.at = "route", !.kind = k, !.deadline = d]
<1>1. /\ Advances(t, r) /\ queries' = [queries EXCEPT ![t] = @ + 1] /\ queries[t] < MaxQueries
      /\ orchestrated' = orchestrated /\ headers' = headers /\ clientTimeout' = clientTimeout
  BY DEF Serve
<1>2. /\ QueryFits(t, NoQuery) /\ NoQuery.attempts = 0
      /\ NoQuery.at = "idle" /\ NoQuery.kind = "none" /\ NoQuery.route = "none" /\ ~NoQuery.mixed
      /\ NoQuery.written = <<>> /\ NoQuery.answer = <<>> /\ NoQuery.saw = {}
      /\ NoQuery.events = 0 /\ NoQuery.status = "none"
  BY NoQueryFits
<1>3. NoQuery \in QueryRecords
  BY <1>2 DEF QueryFits
<1>4. /\ r \in QueryRecords /\ r.at = "route" /\ r.kind = k /\ r.attempts = 0 /\ r.route = "none"
      /\ ~r.mixed /\ r.written = <<>> /\ r.answer = <<>> /\ r.saw = {} /\ r.events = 0
      /\ r.status = "none"
  BY <1>2, <1>3 DEF QueryRecords
<1> HIDE DEF r
<1>5. TerminalsOf(<<>>) = {}
  BY DEF TerminalsOf
<1>6. QueryFits(t, r)
  BY <1>4, <1>5, DeliversNothing, AgentCallBounds
     DEF QueryFits, SawFits, RouteFits, EventsFit, Gone
<1>7. OwnClient(t, r, orchestrated, headers', clientTimeout')
  BY <1>4 DEF OwnClient
<1>8. queries' \in [QueryThreads -> 0..MaxQueries]
  BY <1>1, AgentCallBounds DEF CallsInv
<1>9. /\ headers' \in QueryThreads \cup {NoThread} /\ clientTimeout' \in QueryThreads \cup {NoThread}
  BY <1>1 DEF CallsInv
<1> QED
  BY <1>1, <1>6, <1>7, <1>8, <1>9, StepOf

LEMMA ClientLeavesKeeps ==
  ASSUME CallsInv, NEW t \in QueryThreads, ClientLeaves(t)
  PROVE  CallsInv'
<1>1. /\ QueryFits(t, query[t]) /\ query[t] \in QueryRecords
      /\ OwnClient(t, query[t], orchestrated, headers, clientTimeout)
      /\ SawFits(query[t]) /\ RouteFits(query[t]) /\ EventsFit(query[t])
      /\ query[t].events <= MaxEvents[t]
  BY DEF CallsInv, QueryFits
<1>2. PICK q \in QueryRecords : q = query[t]
  BY <1>1
<1> DEFINE r == [q EXCEPT !.lost = TRUE]
<1>3. Advances(t, r) /\ KeepsClient /\ q.at # "idle"
  BY <1>2 DEF ClientLeaves, QueryAt
<1>4. /\ r \in QueryRecords /\ r.at = q.at /\ r.kind = q.kind /\ r.route = q.route
      /\ r.deadline = q.deadline /\ r.mixed = q.mixed /\ r.saw = q.saw /\ r.answer = q.answer
      /\ r.events = q.events /\ r.attempts = q.attempts /\ r.carried = q.carried
      /\ r.status = q.status /\ r.written = q.written /\ r.lost
  BY DEF QueryRecords
<1> HIDE DEF r
<1>5. QueryFits(t, r)
  BY <1>1, <1>2, <1>3, <1>4 DEF QueryFits, SawFits, RouteFits, EventsFit
<1>6. OwnClient(t, r, orchestrated, headers, clientTimeout)
  BY <1>1, <1>2, <1>4 DEF OwnClient
<1> QED
  BY <1>3, <1>5, <1>6, AdvanceKeeps

\* The client is gone, or the breaker, the quota or the adapter refuses, or the call fails.
LEMMA GivenUpKeeps ==
  ASSUME CallsInv, NEW t \in QueryThreads, NEW saw \in SUBSET SawSet,
         query[t].at \in {"route", "connects", "waits", "executes"},
         Gone(saw) => query[t].lost, "network" \in saw => "failed" \in saw, saw # {},
         query[t].kind = "stream" => query[t].at # "waits",
         Advances(t, Back(query[t], saw)), KeepsClient
  PROVE  CallsInv'
<1>1. /\ QueryFits(t, query[t]) /\ query[t] \in QueryRecords
      /\ OwnClient(t, query[t], orchestrated, headers, clientTimeout)
      /\ SawFits(query[t]) /\ RouteFits(query[t]) /\ EventsFit(query[t])
      /\ query[t].events <= MaxEvents[t]
  BY DEF CallsInv, QueryFits
<1>2. PICK q \in QueryRecords : q = query[t]
  BY <1>1
<1>3. q.kind = "stream" /\ q.route # "multi" /\ ~Gone(saw) => Delivers(q.written, q.answer)
  <2>1. Gone(q.saw) => q.lost
    BY <1>1, <1>2 DEF SawFits
  <2>2. q.at = "executes" => q.route = "multi"
    BY <1>1, <1>2 DEF RouteFits
  <2>3. q.at \in {"route", "connects"} => q.saw = {}
    BY <1>1, <1>2 DEF RouteFits
  <2>4. ~Gone({})
    BY DEF Gone
  <2> QED
    BY <2>2, <2>3, <2>4, <1>1, <1>2 DEF EventsFit
<1>4. TerminalsOf(q.written) = {} /\ q.status = "none"
  BY <1>1, <1>2 DEF EventsFit
<1> QED
  BY <1>2, <1>3, <1>4, BackKeeps

LEMMA RefusalsKeep ==
  ASSUME CallsInv, NEW t \in QueryThreads,
         \/ CancelledBefore(t) \/ RefusedByService(t) \/ RefusedByAdapter(t) \/ AgentFails(t)
         \/ ExecutionThrows(t)
         \/ QueryAt(t, "route") /\ Advances(t, Back(query[t], {"refused"})) /\ KeepsClient
  PROVE  CallsInv'
<1>1. RouteFits(query[t])
  BY DEF CallsInv, QueryFits
<1>2. query[t].at = "waits" => query[t].kind = "query"
  BY <1>1 DEF RouteFits
<1>3. CASE CancelledBefore(t)
  BY <1>2, <1>3, GivenUpKeeps DEF CancelledBefore, QueryAt, Gone, SawSet
<1>4. CASE RefusedByService(t) \/
           (QueryAt(t, "route") /\ Advances(t, Back(query[t], {"refused"})) /\ KeepsClient)
  BY <1>2, <1>4, GivenUpKeeps DEF RefusedByService, QueryAt, Gone, SawSet
<1>5. CASE RefusedByAdapter(t) \/ ExecutionThrows(t)
  BY <1>2, <1>5, GivenUpKeeps DEF RefusedByAdapter, ExecutionThrows, QueryAt, Gone, SawSet
<1>6. CASE AgentFails(t)
  <2>1. PICK cause \in {{"network"}, {}} :
          Advances(t, Back(query[t], {"failed"} \cup cause)) /\ KeepsClient
    BY <1>6 DEF AgentFails
  <2> DEFINE saw == {"failed"} \cup cause
  <2>2. saw \in SUBSET SawSet /\ ~Gone(saw) /\ "failed" \in saw
    BY DEF SawSet, Gone
  <2>3. query[t].at = "waits"
    BY <1>6 DEF AgentFails, QueryAt
  <2> HIDE DEF saw
  <2>4. Advances(t, Back(query[t], saw))
    BY <2>1 DEF saw
  <2> QED
    BY <2>1, <2>2, <2>3, <2>4, <1>2, GivenUpKeeps
<1> QED
  BY <1>3, <1>4, <1>5, <1>6

LEMMA setRequestTimeoutKeeps ==
  ASSUME CallsInv, NEW t \in QueryThreads, setRequestTimeout(t)
  PROVE  CallsInv'
<1>1. /\ QueryFits(t, query[t]) /\ query[t] \in QueryRecords
      /\ OwnClient(t, query[t], orchestrated, headers, clientTimeout)
      /\ SawFits(query[t]) /\ RouteFits(query[t]) /\ EventsFit(query[t])
      /\ query[t].events <= MaxEvents[t]
  BY DEF CallsInv, QueryFits
<1>2. PICK q \in QueryRecords : q = query[t]
  BY <1>1
<1> DEFINE r == [q EXCEPT !.at = "connects", !.route = "shared"]
<1>3. /\ q.at = "route" /\ orchestrated' = orchestrated /\ headers' = headers /\ queries' = queries
      /\ clientTimeout' \in {clientTimeout, t}
      /\ q.deadline => clientTimeout' = t
      /\ \/ Advances(t, r) /\ headers' = headers /\ clientTimeout' = clientTimeout
         \/ Mixes(t, r)
  BY <1>2 DEF setRequestTimeout, QueryAt
<1>4. /\ r \in QueryRecords /\ r.at = "connects" /\ r.kind = q.kind /\ r.route = "shared"
      /\ r.deadline = q.deadline /\ r.mixed = q.mixed /\ r.saw = q.saw /\ r.answer = q.answer
      /\ r.events = q.events /\ r.attempts = q.attempts /\ r.carried = q.carried
      /\ r.status = q.status /\ r.written = q.written /\ r.lost = q.lost
  BY DEF QueryRecords
<1> HIDE DEF r
<1>5. QueryFits(t, r)
  BY <1>1, <1>2, <1>3, <1>4, DeliversNothing DEF QueryFits, SawFits, RouteFits, EventsFit
<1>6. OwnClient(t, r, orchestrated, headers', clientTimeout')
  BY <1>3, <1>4 DEF OwnClient
<1>7. /\ headers' \in QueryThreads \cup {NoThread} /\ clientTimeout' \in QueryThreads \cup {NoThread}
      /\ queries' \in [QueryThreads -> 0..MaxQueries]
  BY <1>3 DEF CallsInv
<1> QED
  BY <1>3, <1>5, <1>6, <1>7, StepOf

\* The query whose route is chosen.
Routed(q, r) == [q EXCEPT !.route = r, !.at = IF r = "multi" THEN "executes" ELSE "connects"]

LEMMA PlanQueryKeeps ==
  ASSUME CallsInv, NEW t \in QueryThreads, PlanQuery(t)
  PROVE  CallsInv'
<1>1. /\ QueryFits(t, query[t]) /\ query[t] \in QueryRecords
      /\ OwnClient(t, query[t], orchestrated, headers, clientTimeout)
      /\ SawFits(query[t]) /\ RouteFits(query[t]) /\ EventsFit(query[t])
      /\ query[t].events <= MaxEvents[t]
  BY DEF CallsInv, QueryFits
<1>2. PICK q \in QueryRecords : q = query[t]
  BY <1>1
<1>3. q.at = "route" /\ orchestrated /\ KeepsClient
  BY <1>2 DEF PlanQuery, QueryAt
<1>4. PICK r \in {"shared", "direct", "multi"} :
        IF Routed(q, r).kind = "stream" THEN WritesBlindly(t, Routed(q, r), Event("status", 0))
        ELSE Advances(t, Routed(q, r))
  BY <1>2 DEF PlanQuery, Routed
<1>5. PICK p : p = Routed(q, r)
  OBVIOUS
<1>6. /\ p \in QueryRecords /\ p.at = IF r = "multi" THEN "executes" ELSE "connects"
      /\ p.kind = q.kind /\ p.route = r
      /\ p.deadline = q.deadline /\ p.mixed = q.mixed /\ p.saw = q.saw /\ p.answer = q.answer
      /\ p.events = q.events /\ p.attempts = q.attempts /\ p.carried = q.carried
      /\ p.status = q.status /\ p.written = q.written /\ p.lost = q.lost
  BY <1>5 DEF Routed, QueryRecords
<1>7. PICK f : Advances(t, f) /\ (f = p \/ Wrote(p, Event("status", 0), f))
  BY <1>4, <1>5 DEF WritesBlindly, Wrote
<1>8. /\ f \in QueryRecords /\ f.at = p.at /\ f.kind = p.kind /\ f.route = p.route
      /\ f.deadline = p.deadline /\ f.mixed = p.mixed /\ f.saw = p.saw /\ f.answer = p.answer
      /\ f.events = p.events /\ f.attempts = p.attempts /\ f.carried = p.carried
      /\ f.status = p.status
      /\ f.written \in {p.written, Append(p.written, Event("status", 0))}
      /\ f.lost = p.lost \/ f.lost = TRUE
  <2>1. Event("status", 0) \in StreamEvents
    BY EventFacts
  <2>2. CASE f = p
    BY <1>6, <2>2
  <2>3. CASE Wrote(p, Event("status", 0), f)
    <3>1. WroteOnly(p, Event("status", 0), f)
      BY <1>6, <2>1, <2>3, WriteFields
    <3> QED
      BY <3>1 DEF WroteOnly
  <2> QED
    BY <1>7, <2>2, <2>3
<1>9. /\ TerminalsOf(f.written) = {}
      /\ Delivers(p.written, p.answer) => Delivers(f.written, p.answer)
  <2>1. TerminalsOf(p.written) = {} /\ p.written \in Seq(StreamEvents)
    BY <1>1, <1>2, <1>3, <1>6 DEF EventsFit, QueryRecords
  <2>2. /\ Event("status", 0) \in StreamEvents /\ Event("status", 0).type # "partial"
        /\ Event("status", 0) \notin Terminals
    BY EventFacts
  <2>3. CASE f.written = p.written
    BY <2>1, <2>3
  <2>4. CASE f.written = Append(p.written, Event("status", 0))
    <3>1. TerminalsOf(f.written) = {}
      BY <2>1, <2>2, <2>4, AppendEvent
    <3>2. Delivers(p.written, p.answer) => Delivers(f.written, p.answer)
      BY <2>1, <2>2, <2>4, DeliversNoPart
    <3> QED
      BY <3>1, <3>2
  <2> QED
    BY <1>8, <2>3, <2>4
<1>10. /\ q.status = "none" /\ q.saw = {} /\ q.attempts = 0 /\ ~q.mixed
       /\ q.kind = "stream" => Delivers(q.written, q.answer)
  <2>1. ~Gone({})
    BY DEF Gone
  <2> QED
    BY <2>1, <1>1, <1>2, <1>3 DEF RouteFits, EventsFit
<1>11. QueryFits(t, f)
  <2>1. f.events <= MaxEvents[t]
    BY <1>1, <1>2, <1>6, <1>8
  <2>2. SawFits(f)
    BY <1>6, <1>8, <1>10 DEF SawFits, Gone
  <2>3. RouteFits(f)
    BY <1>1, <1>2, <1>3, <1>6, <1>8, <1>10 DEF RouteFits
  <2>4. EventsFit(f)
    BY <1>6, <1>8, <1>9, <1>10 DEF EventsFit
  <2> QED
    BY <1>8, <2>1, <2>2, <2>3, <2>4 DEF QueryFits
<1>12. OwnClient(t, f, orchestrated, headers, clientTimeout)
  BY <1>3, <1>6, <1>8 DEF OwnClient
<1> QED
  BY <1>3, <1>7, <1>11, <1>12, AdvanceKeeps

LEMMA add_headerKeeps ==
  ASSUME CallsInv, NEW t \in QueryThreads, add_header(t)
  PROVE  CallsInv'
<1>1. /\ QueryFits(t, query[t]) /\ query[t] \in QueryRecords
      /\ OwnClient(t, query[t], orchestrated, headers, clientTimeout)
      /\ SawFits(query[t]) /\ RouteFits(query[t]) /\ EventsFit(query[t])
      /\ query[t].events <= MaxEvents[t]
  BY DEF CallsInv, QueryFits
<1>2. PICK q \in QueryRecords : q = query[t]
  BY <1>1
<1> DEFINE r == [q EXCEPT !.at = "sends"]
<1>3. /\ q.at = "connects" /\ orchestrated' = orchestrated /\ clientTimeout' = clientTimeout
      /\ queries' = queries /\ headers' \in {headers, t}
      /\ r.route = "shared" => headers' = t
      /\ \/ Advances(t, r) /\ headers' = headers /\ clientTimeout' = clientTimeout
         \/ Mixes(t, r)
  BY <1>2 DEF add_header, QueryAt
<1>4. /\ r \in QueryRecords /\ r.at = "sends" /\ r.kind = q.kind /\ r.route = q.route
      /\ r.deadline = q.deadline /\ r.mixed = q.mixed /\ r.saw = q.saw /\ r.answer = q.answer
      /\ r.events = q.events /\ r.attempts = q.attempts /\ r.carried = q.carried
      /\ r.status = q.status /\ r.written = q.written /\ r.lost = q.lost
  BY DEF QueryRecords
<1> HIDE DEF r
<1>5. QueryFits(t, r)
  BY <1>1, <1>2, <1>3, <1>4, AgentCallBounds DEF QueryFits, SawFits, RouteFits, EventsFit
<1>6. OwnClient(t, r, orchestrated, headers', clientTimeout')
  BY <1>1, <1>2, <1>3, <1>4 DEF OwnClient
<1>7. /\ headers' \in QueryThreads \cup {NoThread} /\ clientTimeout' \in QueryThreads \cup {NoThread}
      /\ queries' \in [QueryThreads -> 0..MaxQueries]
  BY <1>3 DEF CallsInv
<1> QED
  BY <1>3, <1>5, <1>6, <1>7, StepOf

LEMMA send_messageKeeps ==
  ASSUME CallsInv, NEW t \in QueryThreads, send_message(t)
  PROVE  CallsInv'
<1>1. /\ QueryFits(t, query[t]) /\ query[t] \in QueryRecords
      /\ OwnClient(t, query[t], orchestrated, headers, clientTimeout)
      /\ SawFits(query[t]) /\ RouteFits(query[t]) /\ EventsFit(query[t])
      /\ query[t].events <= MaxEvents[t]
  BY DEF CallsInv, QueryFits
<1>2. PICK q \in QueryRecords : q = query[t]
  BY <1>1
<1>3. PICK carried :
        carried = IF q.route = "shared" THEN [trace |-> headers, timeout |-> clientTimeout]
                  ELSE [trace |-> t, timeout |-> NoThread]
  OBVIOUS
<1>4. PICK a \in {"streams", "waits"} : a = IF q.kind = "stream" THEN "streams" ELSE "waits"
  OBVIOUS
<1> DEFINE r == [q EXCEPT !.carried = carried, !.attempts = @ + 1, !.at = a]
<1>5. q.at = "sends" /\ Advances(t, r) /\ KeepsClient
  BY <1>2, <1>3, <1>4 DEF send_message, QueryAt
<1>6. /\ carried \in [trace: QueryThreads \cup {NoThread}, timeout: QueryThreads \cup {NoThread}]
      /\ carried.trace = IF q.route = "shared" THEN headers ELSE t
      /\ q.route = "shared" => carried.timeout = clientTimeout
  BY <1>3 DEF CallsInv
<1>7. q.attempts + 1 \in 0..MaxAttempts
  BY <1>1, <1>2, <1>5, AgentCallBounds DEF RouteFits, QueryRecords
<1>8. /\ r \in QueryRecords /\ r.at = a
      /\ r.kind = q.kind /\ r.route = q.route
      /\ r.deadline = q.deadline /\ r.mixed = q.mixed /\ r.saw = q.saw /\ r.answer = q.answer
      /\ r.events = q.events /\ r.carried = carried
      /\ r.status = q.status /\ r.written = q.written /\ r.lost = q.lost
  BY <1>6, <1>7 DEF QueryRecords
<1> HIDE DEF r
<1>9. q.kind # "none"
  BY <1>1, <1>2, <1>5 DEF RouteFits
<1>10. QueryFits(t, r)
  BY <1>1, <1>2, <1>5, <1>8, <1>9, <1>4 DEF QueryFits, SawFits, RouteFits, EventsFit, QueryRecords
<1>11. OwnClient(t, r, orchestrated, headers, clientTimeout)
  BY <1>1, <1>2, <1>5, <1>6, <1>8 DEF OwnClient
<1> QED
  BY <1>5, <1>10, <1>11, AdvanceKeeps

LEMMA AgentAnswersKeeps ==
  ASSUME CallsInv, NEW t \in QueryThreads, AgentAnswers(t)
  PROVE  CallsInv'
<1>1. /\ QueryFits(t, query[t]) /\ query[t] \in QueryRecords
      /\ OwnClient(t, query[t], orchestrated, headers, clientTimeout)
      /\ SawFits(query[t]) /\ RouteFits(query[t]) /\ EventsFit(query[t])
      /\ query[t].events <= MaxEvents[t]
  BY DEF CallsInv, QueryFits
<1>2. PICK q \in QueryRecords : q = query[t]
  BY <1>1
<1> DEFINE r == [q EXCEPT !.answer = <<1>>]
<1>3. q.at = "waits" /\ Answer(t, Back(r, {}))
  BY <1>2 DEF AgentAnswers, QueryAt
<1>4. <<1>> \in Seq(Chunks)
  BY DEF Chunks
<1>5. /\ r \in QueryRecords /\ r.kind = q.kind /\ r.status = q.status /\ r.written = q.written
  BY <1>4 DEF QueryRecords
<1> HIDE DEF r
<1>6. q.kind = "query" /\ TerminalsOf(q.written) = {} /\ q.status = "none"
  BY <1>1, <1>2, <1>3 DEF RouteFits, EventsFit
<1>7. ~Gone({}) /\ {} \in SUBSET SawSet /\ "network" \notin {}
  BY DEF Gone
<1> QED
  BY <1>3, <1>5, <1>6, <1>7, BackKeeps

LEMMA ConversionFailsKeeps ==
  ASSUME CallsInv, NEW t \in QueryThreads, ConversionFails(t)
  PROVE  CallsInv'
<1>1. /\ QueryFits(t, query[t]) /\ query[t] \in QueryRecords
      /\ OwnClient(t, query[t], orchestrated, headers, clientTimeout)
      /\ SawFits(query[t]) /\ RouteFits(query[t]) /\ EventsFit(query[t])
      /\ query[t].events <= MaxEvents[t]
  BY DEF CallsInv, QueryFits
<1>2. PICK q \in QueryRecords : q = query[t]
  BY <1>1
<1>3. q.at = "waits" /\ KeepsClient
  BY <1>2 DEF ConversionFails, QueryAt
<1>4. q.kind = "query"
  BY <1>1, <1>2, <1>3 DEF RouteFits
<1>5. CASE q.route = "shared" /\ q.attempts < MaxAttempts
  <2> DEFINE r == [q EXCEPT !.at = "sends"]
  <2>1. Advances(t, r)
    BY <1>2, <1>5 DEF ConversionFails
  <2>2. /\ r \in QueryRecords /\ r.at = "sends" /\ r.kind = q.kind /\ r.route = q.route
        /\ r.deadline = q.deadline /\ r.mixed = q.mixed /\ r.saw = q.saw /\ r.answer = q.answer
        /\ r.events = q.events /\ r.attempts = q.attempts /\ r.carried = q.carried
        /\ r.status = q.status /\ r.written = q.written /\ r.lost = q.lost
    BY DEF QueryRecords
  <2> HIDE DEF r
  <2>3. QueryFits(t, r)
    BY <1>1, <1>2, <1>3, <1>5, <2>2 DEF QueryFits, SawFits, RouteFits, EventsFit
  <2>4. OwnClient(t, r, orchestrated, headers, clientTimeout)
    BY <1>1, <1>2, <1>3, <2>2 DEF OwnClient
  <2> QED
    BY <1>3, <2>1, <2>3, <2>4, AdvanceKeeps
<1>6. CASE ~(q.route = "shared" /\ q.attempts < MaxAttempts)
  <2>1. Advances(t, Back(query[t], {"failed"}))
    BY <1>2, <1>6 DEF ConversionFails
  <2>2. {"failed"} \in SUBSET SawSet /\ ~Gone({"failed"}) /\ "network" \notin {"failed"}
    BY DEF Gone, SawSet
  <2> QED
    BY <1>2, <1>3, <1>4, <2>1, <2>2, GivenUpKeeps
<1> QED
  BY <1>5, <1>6

\* A query that waits for the rest of its answer is where it was.
LEMMA GoesOn ==
  ASSUME CallsInv, NEW t \in QueryThreads, NEW r \in QueryRecords,
         query[t].at \in {"streams", "executes"},
         r.at = query[t].at, r.kind = query[t].kind, r.route = query[t].route,
         r.deadline = query[t].deadline, r.mixed = query[t].mixed,
         r.carried = query[t].carried, r.status = query[t].status,
         r.events <= MaxEvents[t], SawFits(r), TerminalsOf(r.written) = {},
         r.kind = "stream" /\ r.route # "multi" /\ ~Gone(r.saw) => Delivers(r.written, r.answer),
         Advances(t, r), KeepsClient
  PROVE  CallsInv'
<1>1. /\ QueryFits(t, query[t])
      /\ OwnClient(t, query[t], orchestrated, headers, clientTimeout)
      /\ RouteFits(query[t]) /\ EventsFit(query[t])
  BY DEF CallsInv, QueryFits
<1>2. PICK q : q = query[t]
  OBVIOUS
<1>3. RouteFits(r)
  BY <1>1, <1>2 DEF RouteFits
<1>4. EventsFit(r)
  BY <1>1, <1>2 DEF EventsFit
<1>5. QueryFits(t, r)
  BY <1>3, <1>4 DEF QueryFits
<1>6. OwnClient(t, r, orchestrated, headers, clientTimeout)
  BY <1>1, <1>2 DEF OwnClient
<1> QED
  BY <1>5, <1>6, AdvanceKeeps

LEMMA AgentSendsKeeps ==
  ASSUME CallsInv, NEW t \in QueryThreads, AgentSends(t)
  PROVE  CallsInv'
<1>1. /\ QueryFits(t, query[t]) /\ query[t] \in QueryRecords
      /\ SawFits(query[t]) /\ RouteFits(query[t]) /\ EventsFit(query[t])
      /\ query[t].events <= MaxEvents[t]
  BY DEF CallsInv, QueryFits
<1>2. PICK q \in QueryRecords : q = query[t]
  BY <1>1
<1>3. q.at = "streams" /\ q.events < MaxEvents[t] /\ KeepsClient
  BY <1>2 DEF AgentSends, QueryAt
<1>4. PICK n : n = q.events + 1
  OBVIOUS
<1>5. n \in Nat /\ n <= MaxEvents[t] /\ n \in Chunks
  <2>1. MaxEvents[t] \in Nat /\ q.events \in Nat
    BY AgentCallBounds DEF QueryRecords
  <2>2. n \in Nat /\ n <= MaxEvents[t] /\ n \in 1..MaxEvents[t]
    BY <2>1, <1>3, <1>4
  <2> QED
    BY <2>2 DEF Chunks
<1>6. PICK e \in {Event("status", 0), Event("error", 0), Event("partial", n)} : Relay(t, e)
  BY <1>2, <1>4 DEF AgentSends
<1>7. /\ e \in StreamEvents
      /\ e.type = "partial" => e.chunk \in Chunks
      /\ e.type # "error" => e \notin Terminals
  BY <1>5, <1>6, EventFacts
<1>8. /\ q.answer \in Seq(Chunks) /\ q.written \in Seq(StreamEvents) /\ q.status = "none"
      /\ TerminalsOf(q.written) = {}
      /\ ~Gone(q.saw) => Delivers(q.written, q.answer)
  <2>1. q.kind = "stream" /\ q.route # "multi"
    BY <1>1, <1>2, <1>3 DEF RouteFits
  <2> QED
    BY <2>1, <1>1, <1>2, <1>3 DEF EventsFit, QueryRecords
<1>9. PICK a : a = IF e.type = "partial" THEN Append(q.answer, e.chunk) ELSE q.answer
  OBVIOUS
<1>10. a \in Seq(Chunks)
  BY <1>7, <1>8, <1>9
<1>11. PICK p : p = Received(t, e)
  OBVIOUS
<1>12. /\ p \in QueryRecords /\ p.events = n /\ p.answer = a
       /\ p.at = q.at /\ p.kind = q.kind /\ p.route = q.route /\ p.deadline = q.deadline
       /\ p.lost = q.lost /\ p.mixed = q.mixed /\ p.saw = q.saw /\ p.written = q.written
       /\ p.carried = q.carried /\ p.status = q.status
  <2>1. CASE e.type = "partial"
    <3>1. p = [q EXCEPT !.events = n, !.answer = a]
      BY <1>2, <1>4, <1>9, <1>11, <2>1 DEF Received, QueryRecords
    <3> QED
      BY <3>1, <1>5, <1>10 DEF QueryRecords
  <2>2. CASE e.type # "partial"
    <3>1. p = [q EXCEPT !.events = n]
      BY <1>2, <1>4, <1>11, <2>2 DEF Received
    <3> QED
      BY <3>1, <1>5, <1>9, <2>2 DEF QueryRecords
  <2> QED
    BY <2>1, <2>2
<1>13. CASE e.type = "error"
  <2>1. PICK saw : saw = q.saw \cup {"failed"}
    OBVIOUS
  <2>2. saw \in SUBSET SawSet /\ (Gone(saw) <=> Gone(q.saw)) /\ "failed" \in saw
    BY <2>1 DEF QueryRecords, SawSet, Gone
  <2> DEFINE r == [p EXCEPT !.saw = saw]
  <2>3. Advances(t, r)
    <3>1. Advances(t, [p EXCEPT !.saw = @ \cup {"failed"}])
      BY <1>6, <1>11, <1>13 DEF Relay
    <3> QED
      BY <3>1, <2>1, <1>12
  <2>4. /\ r \in QueryRecords /\ r.events = n /\ r.answer = q.answer /\ r.saw = saw
        /\ r.at = q.at /\ r.kind = q.kind /\ r.route = q.route /\ r.deadline = q.deadline
        /\ r.lost = q.lost /\ r.mixed = q.mixed /\ r.written = q.written
        /\ r.carried = q.carried /\ r.status = q.status
    BY <1>9, <1>12, <1>13, <2>2 DEF QueryRecords
  <2> HIDE DEF r
  <2>5. SawFits(r)
    BY <1>1, <1>2, <2>2, <2>4 DEF SawFits
  <2>6. Gone(r.saw) <=> Gone(q.saw)
    BY <2>2, <2>4
  <2>7. Delivers(q.written, q.answer) => Delivers(r.written, r.answer)
    BY <2>4
  <2>8. TerminalsOf(r.written) = {} /\ r.events <= MaxEvents[t]
    BY <1>5, <1>8, <2>4
  <2> QED
    BY <1>2, <1>3, <1>8, <2>3, <2>4, <2>5, <2>6, <2>7, <2>8, GoesOn
<1>14. CASE e.type # "error" /\ q.lost
  <2>1. PICK saw : saw = q.saw \cup {"cancelled"}
    OBVIOUS
  <2>2. saw \in SUBSET SawSet /\ Gone(saw) /\ ("network" \in saw => "failed" \in saw)
    BY <1>1, <1>2, <2>1 DEF QueryRecords, SawSet, Gone, SawFits
  <2> DEFINE r == [q EXCEPT !.events = n, !.saw = saw]
  <2>3. Advances(t, r)
    <3>1. Advances(t, [q EXCEPT !.events = @ + 1, !.saw = @ \cup {"cancelled"}])
      BY <1>2, <1>6, <1>14 DEF Relay
    <3> QED
      BY <3>1, <2>1, <1>4
  <2>4. /\ r \in QueryRecords /\ r.events = n /\ r.saw = saw
        /\ r.at = q.at /\ r.kind = q.kind /\ r.route = q.route /\ r.deadline = q.deadline
        /\ r.lost = q.lost /\ r.mixed = q.mixed /\ r.written = q.written
        /\ r.carried = q.carried /\ r.status = q.status
    BY <1>5, <2>2 DEF QueryRecords
  <2> HIDE DEF r
  <2>5. SawFits(r)
    BY <1>14, <2>2, <2>4 DEF SawFits
  <2>6. TerminalsOf(r.written) = {} /\ r.events <= MaxEvents[t] /\ Gone(r.saw)
    BY <1>5, <1>8, <2>2, <2>4
  <2> QED
    BY <1>2, <1>3, <2>3, <2>4, <2>5, <2>6, GoesOn
<1>15. CASE e.type # "error" /\ ~q.lost
  <2>1. ~Gone(q.saw) /\ Delivers(q.written, q.answer) /\ e \notin Terminals
    BY <1>1, <1>2, <1>7, <1>8, <1>15 DEF SawFits
  <2>2. Writes(t, p, e)
    BY <1>2, <1>6, <1>11, <1>15 DEF Relay
  <2>3. CASE Advances(t, [p EXCEPT !.written = Append(@, e)])
    <3>1. PICK w : w = Append(q.written, e)
      OBVIOUS
    <3>2. w \in Seq(StreamEvents) /\ TerminalsOf(w) = {}
      BY <3>1, <1>7, <1>8, <2>1, AppendEvent
    <3>3. Delivers(w, a)
      <4>1. CASE e.type = "partial"
        BY <4>1, <3>1, <1>7, <1>8, <1>9, <2>1, DeliversPart
      <4>2. CASE e.type # "partial"
        BY <4>2, <3>1, <1>7, <1>8, <1>9, <2>1, DeliversNoPart
      <4> QED
        BY <4>1, <4>2
    <3> DEFINE r == [p EXCEPT !.written = w]
    <3>4. Advances(t, r)
      BY <2>3, <3>1, <1>12
    <3>5. /\ r \in QueryRecords /\ r.events = n /\ r.saw = q.saw /\ r.answer = a
          /\ r.at = q.at /\ r.kind = q.kind /\ r.route = q.route /\ r.deadline = q.deadline
          /\ r.lost = q.lost /\ r.mixed = q.mixed /\ r.written = w
          /\ r.carried = q.carried /\ r.status = q.status
      BY <1>12, <3>2 DEF QueryRecords
    <3> HIDE DEF r
    <3>6. SawFits(r)
      BY <1>1, <1>2, <3>5 DEF SawFits
    <3>7. /\ TerminalsOf(r.written) = {} /\ r.events <= MaxEvents[t]
          /\ Delivers(r.written, r.answer)
      BY <1>5, <3>2, <3>3, <3>5
    <3> QED
      BY <1>2, <1>3, <3>4, <3>5, <3>6, <3>7, GoesOn
  <2>4. CASE Advances(t, [p EXCEPT !.lost = TRUE, !.saw = @ \cup {"unwritten"}])
    <3>1. PICK saw : saw = q.saw \cup {"unwritten"}
      OBVIOUS
    <3>2. saw \in SUBSET SawSet /\ Gone(saw) /\ ("network" \in saw => "failed" \in saw)
      BY <1>1, <1>2, <3>1 DEF QueryRecords, SawSet, Gone, SawFits
    <3> DEFINE r == [p EXCEPT !.lost = TRUE, !.saw = saw]
    <3>3. Advances(t, r)
      BY <2>4, <3>1, <1>12
    <3>4. /\ r \in QueryRecords /\ r.events = n /\ r.saw = saw
          /\ r.at = q.at /\ r.kind = q.kind /\ r.route = q.route /\ r.deadline = q.deadline
          /\ r.lost /\ r.mixed = q.mixed /\ r.written = q.written
          /\ r.carried = q.carried /\ r.status = q.status
      BY <1>12, <3>2 DEF QueryRecords
    <3> HIDE DEF r
    <3>5. SawFits(r)
      BY <3>2, <3>4 DEF SawFits
    <3>6. TerminalsOf(r.written) = {} /\ r.events <= MaxEvents[t] /\ Gone(r.saw)
      BY <1>5, <1>8, <3>2, <3>4
    <3> QED
      BY <1>2, <1>3, <3>3, <3>4, <3>5, <3>6, GoesOn
  <2> QED
    BY <2>2, <2>3, <2>4 DEF Writes
<1> QED
  BY <1>13, <1>14, <1>15

LEMMA StreamOver ==
  ASSUME CallsInv, NEW t \in QueryThreads, StreamEnds(t) \/ StreamThrows(t)
  PROVE  CallsInv'
<1>1. /\ QueryFits(t, query[t]) /\ query[t] \in QueryRecords
      /\ SawFits(query[t]) /\ RouteFits(query[t]) /\ EventsFit(query[t])
      /\ query[t].events <= MaxEvents[t]
  BY DEF CallsInv, QueryFits
<1>2. PICK q \in QueryRecords : q = query[t]
  BY <1>1
<1>3. /\ q.at = "streams"
      /\ \/ Answer(t, Back(q, q.saw))
         \/ Advances(t, Back(q, q.saw \cup {"failed"})) /\ KeepsClient
  BY <1>2 DEF StreamEnds, StreamThrows, QueryAt
<1>4. PICK saw : /\ saw \in {q.saw, q.saw \cup {"failed"}}
                 /\ Answer(t, Back(q, saw)) \/ (Advances(t, Back(q, saw)) /\ KeepsClient)
  BY <1>3
<1>5. /\ saw \in SUBSET SawSet /\ (Gone(saw) <=> Gone(q.saw))
      /\ "network" \in saw => "failed" \in saw
      /\ Gone(saw) => q.lost
  BY <1>1, <1>2, <1>4 DEF QueryRecords, SawSet, Gone, SawFits
<1>6. TerminalsOf(q.written) = {} /\ q.status = "none"
  BY <1>1, <1>2, <1>3 DEF EventsFit
<1>7. q.kind = "stream" /\ q.route # "multi" /\ ~Gone(saw) => Delivers(q.written, q.answer)
  BY <1>1, <1>2, <1>5 DEF EventsFit
<1> QED
  BY <1>4, <1>5, <1>6, <1>7, BackKeeps

LEMMA ProgressKeeps ==
  ASSUME CallsInv, NEW t \in QueryThreads, Progress(t)
  PROVE  CallsInv'
<1>1. /\ QueryFits(t, query[t]) /\ query[t] \in QueryRecords
      /\ SawFits(query[t]) /\ RouteFits(query[t]) /\ EventsFit(query[t])
      /\ query[t].events <= MaxEvents[t]
  BY DEF CallsInv, QueryFits
<1>2. PICK q \in QueryRecords : q = query[t]
  BY <1>1
<1>3. PICK e \in StreamEvents : /\ e = Event("status", 0) /\ e \notin Terminals
                                /\ e.type # "partial"
  BY EventFacts
<1>4. PICK p : p = Received(t, e)
  OBVIOUS
<1>5. /\ q.at = "executes" /\ q.events < MaxEvents[t] /\ KeepsClient
      /\ WritesBlindly(t, p, e)
  BY <1>2, <1>3, <1>4 DEF Progress, QueryAt
<1>6. p = [q EXCEPT !.events = @ + 1]
  BY <1>2, <1>3, <1>4 DEF Received
<1>7. /\ p \in QueryRecords /\ p.events <= MaxEvents[t]
      /\ p.at = q.at /\ p.kind = q.kind /\ p.route = q.route /\ p.deadline = q.deadline
      /\ p.lost = q.lost /\ p.mixed = q.mixed /\ p.saw = q.saw /\ p.written = q.written
      /\ p.carried = q.carried /\ p.status = q.status
  <2>1. MaxEvents[t] \in Nat /\ q.events \in Nat
    BY AgentCallBounds DEF QueryRecords
  <2>2. q.events + 1 \in Nat /\ q.events + 1 <= MaxEvents[t]
    BY <2>1, <1>5
  <2> QED
    BY <1>6, <2>2 DEF QueryRecords
<1>8. PICK r : Advances(t, r) /\ Wrote(p, e, r)
  BY <1>5 DEF WritesBlindly, Wrote
<1>9. WroteOnly(p, e, r)
  BY <1>7, <1>8, WriteFields
<1>10. q.route = "multi" /\ TerminalsOf(q.written) = {} /\ q.written \in Seq(StreamEvents)
  BY <1>1, <1>2, <1>5 DEF RouteFits, EventsFit, QueryRecords
<1>11. TerminalsOf(r.written) = {}
  <2>1. TerminalsOf(Append(q.written, e)) = {}
    BY <1>3, <1>10, AppendEvent
  <2> QED
    BY <2>1, <1>7, <1>9, <1>10 DEF WroteOnly
<1>12. SawFits(r)
  BY <1>1, <1>2, <1>7, <1>9 DEF SawFits, WroteOnly
<1> QED
  BY <1>2, <1>5, <1>7, <1>8, <1>9, <1>10, <1>11, <1>12, GoesOn DEF WroteOnly

LEMMA AggregatedKeeps ==
  ASSUME CallsInv, NEW t \in QueryThreads, Aggregated(t)
  PROVE  CallsInv'
<1>1. /\ QueryFits(t, query[t]) /\ query[t] \in QueryRecords
      /\ SawFits(query[t]) /\ RouteFits(query[t]) /\ EventsFit(query[t])
      /\ query[t].events <= MaxEvents[t]
  BY DEF CallsInv, QueryFits
<1>2. PICK q \in QueryRecords : q = query[t]
  BY <1>1
<1>3. PICK e \in StreamEvents : e = Event("partial", 1) /\ e \notin Terminals
  <2>1. 1 \in Chunks
    BY DEF Chunks
  <2> QED
    BY <2>1, EventFacts
<1>4. PICK p : p = Back([q EXCEPT !.answer = <<1>>], {})
  OBVIOUS
<1>5. /\ q.at = "executes" /\ KeepsClient
      /\ IF p.kind = "stream" THEN WritesBlindly(t, p, e) ELSE Advances(t, p)
  BY <1>2, <1>3, <1>4 DEF Aggregated, QueryAt
<1>6. /\ p \in QueryRecords /\ p.at = "returned" /\ p.kind = q.kind /\ p.route = q.route
      /\ p.events = 0 /\ p.saw = {} /\ p.status = q.status /\ p.written = q.written
  <2>1. <<1>> \in Seq(Chunks)
    BY DEF Chunks
  <2>2. NoCarried \in [trace: QueryThreads \cup {NoThread}, timeout: QueryThreads \cup {NoThread}]
    BY DEF NoCarried
  <2> QED
    BY <1>4, <2>1, <2>2 DEF Back, QueryRecords
<1>7. PICK r : Advances(t, r) /\ (r = p \/ Wrote(p, e, r))
  BY <1>5 DEF WritesBlindly, Wrote
<1>8. /\ r \in QueryRecords /\ r.at = "returned" /\ r.kind = q.kind /\ r.route = q.route
      /\ r.events = 0 /\ r.saw = {} /\ r.status = q.status
      /\ r.written \in {q.written, Append(q.written, e)}
  <2>1. CASE r = p
    BY <1>6, <2>1
  <2>2. CASE Wrote(p, e, r)
    <3>1. WroteOnly(p, e, r)
      BY <1>6, <2>2, WriteFields
    <3> QED
      BY <1>6, <3>1 DEF WroteOnly
  <2> QED
    BY <1>7, <2>1, <2>2
<1>9. q.route = "multi" /\ TerminalsOf(q.written) = {} /\ q.written \in Seq(StreamEvents)
      /\ q.status = "none"
  BY <1>1, <1>2, <1>5 DEF RouteFits, EventsFit, QueryRecords
<1>10. TerminalsOf(r.written) = {}
  <2>1. TerminalsOf(Append(q.written, e)) = {}
    BY <1>3, <1>9, AppendEvent
  <2> QED
    BY <2>1, <1>8, <1>9
<1>11. QueryFits(t, r)
  BY <1>8, <1>9, <1>10, AgentCallBounds DEF QueryFits, SawFits, RouteFits, EventsFit, Gone
<1>12. OwnClient(t, r, orchestrated, headers, clientTimeout)
  BY <1>8 DEF OwnClient
<1> QED
  BY <1>5, <1>7, <1>11, <1>12, AdvanceKeeps

\* The status that is stored and the terminal event that is written go together.
LEMMA FinishKeeps ==
  ASSUME CallsInv, NEW t \in QueryThreads, Finish(t)
  PROVE  CallsInv'
<1>1. /\ QueryFits(t, query[t]) /\ query[t] \in QueryRecords
      /\ SawFits(query[t]) /\ RouteFits(query[t]) /\ EventsFit(query[t])
      /\ query[t].events <= MaxEvents[t]
  BY DEF CallsInv, QueryFits
<1>2. PICK q \in QueryRecords : q = query[t]
  BY <1>1
<1>3. PICK s : s = StatusOf(q)
  OBVIOUS
<1>4. /\ s \in {"completed", "failed", "cancelled"}
      /\ s = "completed" <=> q.saw = {}
  BY <1>3 DEF StatusOf
<1> DEFINE p == [q EXCEPT !.at = "idle", !.status = s, !.attempts = 0]
<1>5. /\ p \in QueryRecords /\ p.at = "idle" /\ p.status = s /\ p.attempts = 0
      /\ p.kind = q.kind /\ p.route = q.route /\ p.saw = q.saw /\ p.lost = q.lost
      /\ p.answer = q.answer /\ p.written = q.written /\ p.events = q.events
  <2>1. 0 \in 0..MaxAttempts
    BY AgentCallBounds
  <2>2. s \in {"none", "completed", "failed", "cancelled"}
    BY <1>4
  <2> QED
    BY <2>1, <2>2 DEF QueryRecords
<1>6. /\ q.at = "returned" /\ KeepsClient
      /\ IF TerminalOf(p) = "none" THEN Advances(t, p)
         ELSE WritesBlindly(t, p, Event(TerminalOf(p), 0))
  BY <1>2, <1>3 DEF Finish, QueryAt
<1> HIDE DEF p
<1>7. /\ TerminalsOf(q.written) = {} /\ q.status = "none" /\ q.written \in Seq(StreamEvents)
      /\ Len(q.written) \in Nat
      /\ q.kind = "stream" /\ q.route # "multi" /\ ~Gone(q.saw) => Delivers(q.written, q.answer)
      /\ Gone(q.saw) => q.lost
      /\ "network" \in q.saw => "failed" \in q.saw
      /\ q.events <= MaxEvents[t]
  BY <1>1, <1>2, <1>6 DEF EventsFit, SawFits, QueryRecords
<1>8. PICK r : /\ Advances(t, r)
               /\ \/ r = p /\ TerminalOf(p) = "none"
                  \/ TerminalOf(p) # "none" /\ Wrote(p, Event(TerminalOf(p), 0), r)
  BY <1>6 DEF WritesBlindly, Wrote
<1>9. /\ TerminalOf(p) \in {"none", "error", "complete"}
      /\ p.kind = "stream" /\ ~p.lost /\ "refused" \notin p.saw =>
           TerminalOf(p) = IF s = "completed" THEN "complete" ELSE "error"
  <2>1. TerminalOf(p) \in {"none", "error", "complete"}
    BY DEF TerminalOf
  <2>2. ASSUME p.kind = "stream", ~p.lost, "refused" \notin p.saw
        PROVE  TerminalOf(p) = IF s = "completed" THEN "complete" ELSE "error"
    <3>1. "cancelled" \notin p.saw /\ "unwritten" \notin p.saw
      BY <1>5, <1>7, <2>2 DEF Gone
    <3>2. p.saw = {} <=> "failed" \notin p.saw
      BY <1>5, <1>7, <2>2, <3>1 DEF QueryRecords, SawSet
    <3>3. TerminalOf(p) = IF "failed" \in p.saw THEN "error" ELSE "complete"
      BY <2>2, <3>1 DEF TerminalOf
    <3> QED
      BY <1>4, <1>5, <3>2, <3>3
  <2> QED
    BY <2>1, <2>2
<1>10. CASE TerminalOf(p) = "none"
  <2>1. r = p
    BY <1>8, <1>10
  <2>2. EventsFit(r)
    BY <1>4, <1>5, <1>7, <1>9, <1>10, <2>1 DEF EventsFit
  <2>3. QueryFits(t, r)
    BY <1>5, <1>7, <2>1, <2>2, AgentCallBounds DEF QueryFits, SawFits, RouteFits
  <2>4. OwnClient(t, r, orchestrated, headers, clientTimeout)
    BY <1>5, <2>1 DEF OwnClient
  <2> QED
    BY <1>6, <1>8, <2>3, <2>4, AdvanceKeeps
<1>11. CASE TerminalOf(p) # "none"
  <2>1. PICK e \in StreamEvents : /\ e = Event(TerminalOf(p), 0) /\ e \in Terminals
                                  /\ e.type # "partial"
    BY <1>9, <1>11, EventFacts
  <2>2. WroteOnly(p, e, r)
    BY <1>5, <1>8, <1>11, <2>1, WriteFields
  <2>3. /\ Len(Append(q.written, e)) = Len(q.written) + 1 /\ Append(q.written, e) # <<>>
        /\ Append(q.written, e)[Len(q.written) + 1] = e
        /\ TerminalsOf(Append(q.written, e)) = {Len(q.written) + 1}
    BY <1>7, <2>1, AppendEvent
  <2>4. Delivers(q.written, q.answer) => Delivers(Append(q.written, e), q.answer)
    BY <1>7, <2>1, DeliversNoPart
  <2>5. /\ r \in QueryRecords /\ r.at = "idle" /\ r.status = s /\ r.attempts = 0
        /\ r.kind = q.kind /\ r.route = q.route /\ r.saw = q.saw
        /\ r.answer = q.answer /\ r.events = q.events
        /\ \/ r.written = Append(q.written, e) /\ r.lost = q.lost
           \/ r.written = q.written /\ r.lost = TRUE
    BY <1>5, <2>2 DEF WroteOnly
  <2>6. TerminalsOf(r.written) \subseteq {Len(r.written)}
    BY <1>7, <2>3, <2>5
  <2>7. r.kind = "stream" /\ ~r.lost /\ "refused" \notin r.saw =>
          /\ r.written # <<>>
          /\ r.written[Len(r.written)] =
               Event(IF r.status = "completed" THEN "complete" ELSE "error", 0)
    BY <1>5, <1>9, <2>1, <2>3, <2>5
  <2>8. r.status = "completed" => r.saw = {}
    BY <1>4, <2>5
  <2>9. r.kind = "stream" /\ r.route # "multi" /\ ~Gone(r.saw) => Delivers(r.written, r.answer)
    BY <1>7, <2>4, <2>5
  <2>10. EventsFit(r)
    BY <2>5, <2>6, <2>7, <2>8, <2>9 DEF EventsFit
  <2>11. SawFits(r)
    BY <1>7, <2>5 DEF SawFits
  <2>12. QueryFits(t, r)
    BY <1>7, <2>5, <2>10, <2>11, AgentCallBounds DEF QueryFits, RouteFits
  <2>13. OwnClient(t, r, orchestrated, headers, clientTimeout)
    BY <2>5 DEF OwnClient
  <2> QED
    BY <1>6, <1>8, <2>12, <2>13, AdvanceKeeps
<1> QED
  BY <1>10, <1>11

LEMMA QueryStepKeeps ==
  ASSUME CallsInv, NEW t \in QueryThreads, QueryStep(t)
  PROVE  CallsInv'
<1>1. CASE CancelledBefore(t) \/ RefusedByService(t) \/ RefusedByAdapter(t) \/ AgentFails(t)
           \/ ExecutionThrows(t)
  BY <1>1, RefusalsKeep
<1>2. CASE setRequestTimeout(t) \/ PlanQuery(t) \/ add_header(t) \/ send_message(t)
  BY <1>2, setRequestTimeoutKeeps, PlanQueryKeeps, add_headerKeeps, send_messageKeeps
<1>3. CASE AgentAnswers(t) \/ ConversionFails(t) \/ AgentSends(t)
  BY <1>3, AgentAnswersKeeps, ConversionFailsKeeps, AgentSendsKeeps
<1>4. CASE StreamEnds(t) \/ StreamThrows(t) \/ Progress(t) \/ Aggregated(t)
  BY <1>4, StreamOver, ProgressKeeps, AggregatedKeeps
<1> QED
  BY <1>1, <1>2, <1>3, <1>4 DEF QueryStep

LEMMA CallsInit ==
  ASSUME AgentCallsInit
  PROVE  CallsInv
<1>1. /\ orchestrated \in BOOLEAN /\ headers = NoThread /\ clientTimeout = NoThread
      /\ query = [t \in QueryThreads |-> NoQuery] /\ queries = [t \in QueryThreads |-> 0]
  BY DEF AgentCallsInit
<1>2. \A t \in QueryThreads : QueryFits(t, NoQuery) /\ NoQuery.at = "idle"
  BY NoQueryFits
<1>3. \A t \in QueryThreads : NoQuery \in QueryRecords
  BY <1>2 DEF QueryFits
<1>4. query \in [QueryThreads -> QueryRecords]
  BY <1>1, <1>3
<1>5. queries \in [QueryThreads -> 0..MaxQueries]
  BY <1>1, AgentCallBounds
<1>6. \A t \in QueryThreads :
        /\ QueryFits(t, query[t])
        /\ OwnClient(t, query[t], orchestrated, headers, clientTimeout)
  BY <1>1, <1>2 DEF OwnClient
<1> QED
  BY <1>1, <1>4, <1>5, <1>6 DEF CallsInv

LEMMA CallsStutter ==
  ASSUME CallsInv, UNCHANGED agentCallVars
  PROVE  CallsInv'
BY DEF agentCallVars, CallsInv

LEMMA CallsNext ==
  ASSUME CallsInv, [AgentCallsNext]_agentCallVars
  PROVE  CallsInv'
<1>1. CASE UNCHANGED agentCallVars
  BY <1>1, CallsStutter
<1>2. CASE AgentCallsNext
  <2>1. PICK t \in QueryThreads :
          \/ \E k \in {"query", "stream"}, d \in BOOLEAN : Serve(t, k, d)
          \/ ClientLeaves(t) \/ QueryStep(t) \/ Finish(t)
    BY <1>2 DEF AgentCallsNext
  <2>2. CASE \E k \in {"query", "stream"}, d \in BOOLEAN : Serve(t, k, d)
    BY <2>2, ServeKeeps
  <2>3. CASE ClientLeaves(t) \/ QueryStep(t) \/ Finish(t)
    BY <2>3, ClientLeavesKeeps, QueryStepKeeps, FinishKeeps
  <2> QED
    BY <2>1, <2>2, <2>3
<1> QED
  BY <1>1, <1>2

LEMMA CallsInvSays == CallsInv => AgentCallsInvariant
<1> SUFFICES ASSUME CallsInv
             PROVE  AgentCallsInvariant
  OBVIOUS
<1>1. AgentCallsTypeOK
  <2>1. \A t \in QueryThreads : query[t].events <= MaxEvents[t]
    BY DEF CallsInv, QueryFits
  <2> QED
    BY <2>1 DEF CallsInv, AgentCallsTypeOK, QueryRecords, SawSet
<1>2. CarriesOwn
  <2> SUFFICES ASSUME NEW t \in QueryThreads, query[t].at \in {"waits", "streams"}, ~query[t].mixed
               PROVE  /\ query[t].carried.trace = t
                      /\ query[t].kind = "query" /\ query[t].deadline /\ query[t].route = "shared"
                           /\ ~orchestrated => query[t].carried.timeout = t
    BY DEF CarriesOwn
  <2>1. OwnClient(t, query[t], orchestrated, headers, clientTimeout)
    BY DEF CallsInv
  <2> QED
    BY <2>1 DEF OwnClient
<1>3. OneTerminalEvent
  <2> SUFFICES ASSUME NEW t \in QueryThreads, NEW q, q = query[t]
               PROVE  /\ WrittenTerminals(q) \subseteq (IF q.at = "idle" THEN {Len(q.written)} ELSE {})
                      /\ q.at = "idle" /\ q.kind = "stream" /\ ~q.lost /\ "refused" \notin q.saw =>
                           q.written[Len(q.written)] =
                             Event(IF q.status = "completed" THEN "complete" ELSE "error", 0)
    BY DEF OneTerminalEvent
  <2>1. EventsFit(q)
    BY DEF CallsInv, QueryFits
  <2>2. WrittenTerminals(q) = TerminalsOf(q.written)
    BY DEF WrittenTerminals, TerminalsOf
  <2> QED
    BY <2>1, <2>2 DEF EventsFit
<1>4. StoredIsDelivered
  <2> SUFFICES ASSUME NEW t \in QueryThreads, query[t].kind = "stream",
                      query[t].status = "completed", query[t].route # "multi"
               PROVE  Delivers(query[t].written, query[t].answer)
    BY DEF StoredIsDelivered
  <2>1. EventsFit(query[t])
    BY DEF CallsInv, QueryFits
  <2>2. ~Gone(query[t].saw)
    BY <2>1 DEF EventsFit, Gone
  <2> QED
    BY <2>1, <2>2 DEF EventsFit
<1> QED
  BY <1>1, <1>2, <1>3, <1>4 DEF AgentCallsInvariant

\* A2AAdapter and AIQueryServiceImpl: with any number of threads that serve queries on
\* one shared client, a call is tried as often as it may and carries its own trace and
\* deadline unless another came between, a stream has one terminal event at most, as
\* its last, which goes with the status of the query, and the stored answer of a
\* completed stream is what its client was sent.
THEOREM AgentCallsCorrect == AgentCallsSpec => []AgentCallsInvariant
<1>1. AgentCallsInit => CallsInv
  BY CallsInit
<1>2. CallsInv /\ [AgentCallsNext]_agentCallVars => CallsInv'
  BY CallsNext
<1> QED
  BY <1>1, <1>2, CallsInvSays, PTL DEF AgentCallsSpec

------------------------------------------------------------------------------
(* Gateway: what holds of a request and of the stream that answers it. *)

RequestRecords ==
  [open: BOOLEAN, ended: BOOLEAN, completeSeen: BOOLEAN, away: BOOLEAN, read: Nat,
   out: Seq(StreamEvents), status: {"none", "OK", "error"}]

\* What the browser has got is what was read; until the response ends, all of it.
KeepsUp(p, w) ==
  /\ Len(p.out) = p.read
  /\ \A i \in 1..p.read : p.out[i] = w[i]
  /\ p.completeSeen <=> \E i \in 1..p.read : w[i] \in Terminals
Relayed(p, w) ==
  \E n \in 0..Len(p.out) :
    /\ n <= Len(w) /\ \A i \in 1..n : p.out[i] = w[i]
    /\ Len(p.out) > n => Len(p.out) = n + 1 /\ p.ended

Told(p, q) ==
  p.ended /\ ~p.away =>
    /\ p.out # <<>> /\ p.out[Len(p.out)] \in Terminals
    /\ p.out[Len(p.out)].type = "complete" => p.status = "OK"
    /\ p.out[Len(p.out)].type = "error" => p.status = "error" \/ q.lost

RequestFits(p, q) ==
  /\ p \in RequestRecords
  /\ ~p.open => p = NoRequest /\ q.at = "idle"
  /\ p.open => q.kind = "stream"
  /\ p.read <= Len(q.written)
  /\ ~p.ended => KeepsUp(p, q.written)
  /\ Relayed(p, q.written)
  /\ p.status # "none" => q.at = "idle" /\ p.open
  /\ p.status = "OK" => q.status = "completed"
  /\ Told(p, q)

GatewayInv ==
  /\ CallsInv
  /\ proxy \in [Browsers -> RequestRecords]
  /\ \A t \in Browsers : RequestFits(proxy[t], query[t])

\* What a step of its thread makes of a query: events are written at the end only,
\* and a client that is gone stays away.
Grows(q, r) ==
  /\ r.kind = q.kind /\ (q.lost => r.lost)
  /\ r.written = q.written \/ \E e \in StreamEvents : r.written = Append(q.written, e)

LEMMA FitsWhileItGrows ==
  ASSUME NEW p, NEW q \in QueryRecords, NEW r \in QueryRecords, RequestFits(p, q), Grows(q, r),
         q.at = "idle" => r.at = "idle" /\ r.status = q.status
  PROVE  RequestFits(p, r)
<1>1. PICK w, v : w = q.written /\ v = r.written
  OBVIOUS
<1>2. /\ w \in Seq(StreamEvents) /\ Len(w) \in Nat /\ Len(v) \in Nat /\ Len(w) <= Len(v)
      /\ \A i \in 1..Len(w) : v[i] = w[i]
  <2>1. w \in Seq(StreamEvents) /\ Len(w) \in Nat
    BY <1>1 DEF QueryRecords
  <2>2. CASE v = w
    BY <2>1, <2>2
  <2>3. CASE v # w
    <3>1. PICK e \in StreamEvents : v = Append(w, e)
      BY <1>1, <2>3 DEF Grows
    <3> QED
      BY <2>1, <3>1, AppendEvent
  <2> QED
    BY <2>1, <2>2, <2>3
<1>3. /\ p.read \in Nat /\ p.read <= Len(w) /\ Len(p.out) \in Nat
      /\ ~p.ended => KeepsUp(p, w)
      /\ Relayed(p, w)
  BY <1>1 DEF RequestFits, RequestRecords
<1>4. p.read <= Len(v)
  BY <1>2, <1>3
<1>5. KeepsUp(p, w) => KeepsUp(p, v)
  <2>1. \A i \in 1..p.read : v[i] = w[i]
    BY <1>2, <1>3
  <2> QED
    BY <2>1 DEF KeepsUp
<1>6. Relayed(p, v)
  <2>1. PICK n \in 0..Len(p.out) :
          /\ n <= Len(w) /\ \A i \in 1..n : p.out[i] = w[i]
          /\ Len(p.out) > n => Len(p.out) = n + 1 /\ p.ended
    BY <1>3 DEF Relayed
  <2>2. n <= Len(v) /\ \A i \in 1..n : v[i] = w[i]
    BY <1>2, <1>3, <2>1
  <2> QED
    BY <2>1, <2>2 DEF Relayed
<1>7. Told(p, r)
  BY DEF RequestFits, Told, Grows
<1> QED
  BY <1>1, <1>3, <1>4, <1>5, <1>6, <1>7 DEF RequestFits, Grows

\* What the thread of a request does leaves the queries of the others alone, but for
\* what they know of the shared client.
LEMMA OthersStay ==
  ASSUME CallsInv, NEW t \in QueryThreads, NEW r, Advances(t, r) \/ Mixes(t, r)
  PROVE  /\ query'[t] = r
         /\ \A u \in QueryThreads : u # t =>
              /\ Grows(query[u], query'[u])
              /\ query'[u].at = query[u].at /\ query'[u].status = query[u].status
<1>1. query \in [QueryThreads -> QueryRecords]
  BY DEF CallsInv
<1>2. CASE Advances(t, r)
  BY <1>1, <1>2 DEF Advances, Grows
<1>3. CASE Mixes(t, r)
  <2>1. query' = [u \in QueryThreads |->
          IF u = t THEN r
          ELSE [query[u] EXCEPT !.mixed =
                  @ \/ (query[u].route = "shared" /\ query[u].at \in {"connects", "sends", "waits"})]]
    BY <1>3 DEF Mixes
  <2>2. ASSUME NEW u \in QueryThreads, u # t
        PROVE  /\ query'[u].kind = query[u].kind /\ query'[u].lost = query[u].lost
               /\ query'[u].written = query[u].written
               /\ query'[u].at = query[u].at /\ query'[u].status = query[u].status
    <3>1. PICK b : b = (query[u].mixed
                          \/ (query[u].route = "shared" /\ query[u].at \in {"connects", "sends", "waits"}))
      OBVIOUS
    <3>2. query'[u] = [query[u] EXCEPT !.mixed = b]
      BY <2>1, <2>2, <3>1
    <3>3. query[u] \in QueryRecords
      BY <1>1
    <3> QED
      BY <3>2, <3>3 DEF QueryRecords
  <2> QED
    BY <2>1, <2>2 DEF Grows
<1> QED
  BY <1>2, <1>3

\* A step of a request's thread.
Moves(t) == \E r : Grows(query[t], r) /\ (Advances(t, r) \/ Mixes(t, r))

LEMMA WritesGrow ==
  ASSUME NEW t \in QueryThreads, query[t] \in QueryRecords, NEW p, NEW e \in StreamEvents,
         p \in QueryRecords,
         p.kind = query[t].kind, p.lost = query[t].lost, p.written = query[t].written,
         Advances(t, p) \/ Writes(t, p, e) \/ WritesBlindly(t, p, e)
  PROVE  Moves(t)
<1>1. PICK r : /\ Advances(t, r)
               /\ \/ r = p
                  \/ r = [p EXCEPT !.written = Append(@, e)]
                  \/ r = [p EXCEPT !.lost = TRUE]
                  \/ r = [p EXCEPT !.lost = TRUE, !.saw = @ \cup {"unwritten"}]
  BY DEF Writes, WritesBlindly
<1>2. /\ r.kind = p.kind /\ (p.lost => r.lost)
      /\ r.written = p.written \/ r.written = Append(p.written, e)
  BY <1>1 DEF QueryRecords
<1>3. Grows(query[t], r)
  BY <1>2 DEF Grows
<1> QED
  BY <1>1, <1>3 DEF Moves

LEMMA BackGrows ==
  ASSUME NEW q \in QueryRecords, NEW saw
  PROVE  Grows(q, Back(q, saw)) /\ Back(q, saw).written = q.written
<1>1. /\ Back(q, saw).kind = q.kind /\ Back(q, saw).lost = q.lost
      /\ Back(q, saw).written = q.written
  BY DEF Back, QueryRecords
<1> QED
  BY <1>1 DEF Grows

LEMMA BackMoves ==
  ASSUME CallsInv, NEW t \in QueryThreads, NEW q \in QueryRecords, NEW saw,
         q.kind = query[t].kind, q.lost = query[t].lost, q.written = query[t].written,
         Advances(t, Back(q, saw)) \/ Answer(t, Back(q, saw))
  PROVE  Moves(t)
<1>1. Advances(t, Back(q, saw)) \/ Mixes(t, Back(q, saw))
  BY DEF Answer
<1>2. Grows(q, Back(q, saw))
  BY BackGrows
<1>3. Grows(query[t], Back(q, saw))
  BY <1>2 DEF Grows
<1> QED
  BY <1>1, <1>3 DEF Moves

LEMMA StepsMove ==
  ASSUME CallsInv, NEW t \in QueryThreads,
         \/ QueryStep(t) \/ ClientLeaves(t) \/ Finish(t)
         \/ QueryAt(t, "route") /\ Advances(t, Back(query[t], {"refused"}))
  PROVE  Moves(t) /\ query[t].at # "idle"
<1>1. query[t] \in QueryRecords
  BY DEF CallsInv
<1>2. PICK q \in QueryRecords : q = query[t]
  BY <1>1
<1>3. /\ Event("status", 0) \in StreamEvents /\ Event("error", 0) \in StreamEvents
      /\ Event("complete", 0) \in StreamEvents /\ Event("partial", 1) \in StreamEvents
  BY EventFacts DEF Chunks
<1>4. <<1>> \in Seq(Chunks)
  BY DEF Chunks
<1>5. CASE CancelledBefore(t) \/ RefusedByService(t) \/ RefusedByAdapter(t) \/ ExecutionThrows(t)
           \/ (QueryAt(t, "route") /\ Advances(t, Back(query[t], {"refused"})))
  <2>1. \E saw : Advances(t, Back(query[t], saw))
    BY <1>5 DEF CancelledBefore, RefusedByService, RefusedByAdapter, ExecutionThrows
  <2>2. query[t].at # "idle"
    BY <1>5 DEF CancelledBefore, RefusedByService, RefusedByAdapter, ExecutionThrows, QueryAt
  <2> QED
    BY <1>1, <2>1, <2>2, BackMoves
<1>6. CASE AgentFails(t) \/ StreamEnds(t) \/ StreamThrows(t)
  <2>1. \E saw : Advances(t, Back(query[t], saw)) \/ Answer(t, Back(query[t], saw))
    BY <1>6 DEF AgentFails, StreamEnds, StreamThrows
  <2>2. query[t].at # "idle"
    BY <1>6 DEF AgentFails, StreamEnds, StreamThrows, QueryAt
  <2> QED
    BY <1>1, <2>1, <2>2, BackMoves
<1>7. CASE AgentAnswers(t)
  <2> DEFINE p == [q EXCEPT !.answer = <<1>>]
  <2>1. /\ p \in QueryRecords /\ p.kind = q.kind /\ p.lost = q.lost /\ p.written = q.written
    BY <1>4 DEF QueryRecords
  <2>2. Answer(t, Back(p, {})) /\ q.at # "idle"
    BY <1>2, <1>7 DEF AgentAnswers, QueryAt
  <2> HIDE DEF p
  <2> QED
    BY <1>2, <2>1, <2>2, BackMoves
<1>8. CASE setRequestTimeout(t)
  <2>1. PICK p : p = [q EXCEPT !.at = "connects", !.route = "shared"]
    OBVIOUS
  <2>2. p.kind = q.kind /\ p.lost = q.lost /\ p.written = q.written
    BY <2>1 DEF QueryRecords
  <2>3. (Advances(t, p) \/ Mixes(t, p)) /\ q.at # "idle"
    BY <1>2, <1>8, <2>1 DEF setRequestTimeout, QueryAt
  <2> QED
    BY <1>2, <2>2, <2>3 DEF Moves, Grows
<1>9. CASE add_header(t)
  <2>1. PICK p : p = [q EXCEPT !.at = "sends"]
    OBVIOUS
  <2>2. p.kind = q.kind /\ p.lost = q.lost /\ p.written = q.written
    BY <2>1 DEF QueryRecords
  <2>3. (Advances(t, p) \/ Mixes(t, p)) /\ q.at # "idle"
    BY <1>2, <1>9, <2>1 DEF add_header, QueryAt
  <2> QED
    BY <1>2, <2>2, <2>3 DEF Moves, Grows
<1>10. CASE send_message(t)
  <2>1. \E c, a : Advances(t, [q EXCEPT !.carried = c, !.attempts = @ + 1, !.at = a])
    BY <1>2, <1>10 DEF send_message
  <2>2. PICK p, c, a :
          p = [q EXCEPT !.carried = c, !.attempts = @ + 1, !.at = a] /\ Advances(t, p)
    BY <2>1
  <2>3. p.kind = q.kind /\ p.lost = q.lost /\ p.written = q.written
    BY <2>2 DEF QueryRecords
  <2>4. q.at # "idle"
    BY <1>2, <1>10 DEF send_message, QueryAt
  <2> QED
    BY <1>2, <2>2, <2>3, <2>4 DEF Moves, Grows
<1>11. CASE ConversionFails(t)
  <2>1. q.at # "idle"
    BY <1>2, <1>11 DEF ConversionFails, QueryAt
  <2>2. CASE Advances(t, Back(query[t], {"failed"}))
    BY <1>1, <1>2, <2>1, <2>2, BackMoves
  <2>3. CASE Advances(t, [query[t] EXCEPT !.at = "sends"])
    <3>1. PICK p : p = [q EXCEPT !.at = "sends"]
      OBVIOUS
    <3>2. p.kind = q.kind /\ p.lost = q.lost /\ p.written = q.written
      BY <3>1 DEF QueryRecords
    <3> QED
      BY <1>2, <2>1, <2>3, <3>1, <3>2 DEF Moves, Grows
  <2> QED
    BY <1>11, <2>2, <2>3 DEF ConversionFails
<1>12. CASE PlanQuery(t)
  <2>1. PICK r \in {"shared", "direct", "multi"} :
          \/ WritesBlindly(t, Routed(q, r), Event("status", 0))
          \/ Advances(t, Routed(q, r))
    BY <1>2, <1>12 DEF PlanQuery, Routed
  <2>2. PICK p : p = Routed(q, r)
    OBVIOUS
  <2>3. p \in QueryRecords /\ p.kind = q.kind /\ p.lost = q.lost /\ p.written = q.written
    BY <2>2 DEF Routed, QueryRecords
  <2>4. q.at # "idle"
    BY <1>2, <1>12 DEF PlanQuery, QueryAt
  <2> QED
    BY <1>2, <1>3, <2>1, <2>2, <2>3, <2>4, WritesGrow
<1>13. CASE Progress(t)
  <2>1. PICK n \in Nat : n = q.events + 1
    <3>1. q.events \in Nat
      BY DEF QueryRecords
    <3> QED
      BY <3>1
  <2>2. PICK p : p = [q EXCEPT !.events = n]
    OBVIOUS
  <2>3. WritesBlindly(t, p, Event("status", 0)) /\ q.at # "idle"
    <3>1. Received(t, Event("status", 0)) = p
      <4>1. Event("status", 0).type # "partial"
        BY DEF Event
      <4> QED
        BY <1>2, <2>1, <2>2, <4>1 DEF Received
    <3> QED
      BY <1>2, <1>13, <3>1 DEF Progress, QueryAt
  <2>4. p \in QueryRecords /\ p.kind = q.kind /\ p.lost = q.lost /\ p.written = q.written
    BY <2>2 DEF QueryRecords
  <2> QED
    BY <1>2, <1>3, <2>3, <2>4, WritesGrow
<1>14. CASE Aggregated(t)
  <2>1. PICK p : p = Back([q EXCEPT !.answer = <<1>>], {})
    OBVIOUS
  <2>2. /\ WritesBlindly(t, p, Event("partial", 1)) \/ Advances(t, p)
        /\ q.at # "idle"
    BY <1>2, <1>14, <2>1 DEF Aggregated, QueryAt
  <2>3. p \in QueryRecords /\ p.kind = q.kind /\ p.lost = q.lost /\ p.written = q.written
    <3>1. NoCarried \in [trace: QueryThreads \cup {NoThread}, timeout: QueryThreads \cup {NoThread}]
      BY DEF NoCarried
    <3>2. {} \in SUBSET SawSet
      OBVIOUS
    <3> QED
      BY <1>4, <2>1, <3>1, <3>2 DEF Back, QueryRecords
  <2> QED
    BY <1>2, <1>3, <2>2, <2>3, WritesGrow
<1>15. CASE AgentSends(t)
  <2>1. PICK e : /\ e \in {Event("status", 0), Event("error", 0), Event("partial", q.events + 1)}
                 /\ Relay(t, e)
    BY <1>2, <1>15 DEF AgentSends
  <2>2. q.at # "idle"
    BY <1>2, <1>15 DEF AgentSends, QueryAt
  <2>3. PICK n : n = q.events + 1
    OBVIOUS
  <2>4. n \in Nat /\ n \in Chunks
    <3>1. MaxEvents[t] \in Nat /\ q.events \in Nat /\ q.events < MaxEvents[t]
      BY <1>2, <1>15, AgentCallBounds DEF QueryRecords, AgentSends
    <3>2. n \in Nat /\ n \in 1..MaxEvents[t]
      BY <2>3, <3>1
    <3> QED
      BY <3>2 DEF Chunks
  <2>5. e \in StreamEvents /\ (e.type = "partial" => e.chunk \in Chunks)
    BY <2>1, <2>3, <2>4, EventFacts
  <2>6. PICK p : p = Received(t, e)
    OBVIOUS
  <2>7. /\ p \in QueryRecords /\ p.kind = q.kind /\ p.lost = q.lost /\ p.written = q.written
        /\ p.saw = q.saw
    <3>1. CASE e.type = "partial"
      <4>1. Append(q.answer, e.chunk) \in Seq(Chunks)
        BY <2>5, <3>1 DEF QueryRecords
      <4>2. PICK a \in Seq(Chunks) : a = Append(q.answer, e.chunk)
        BY <4>1
      <4>3. p = [q EXCEPT !.events = n, !.answer = a]
        BY <1>2, <2>3, <2>6, <3>1, <4>2 DEF Received, QueryRecords
      <4> QED
        BY <2>4, <4>3 DEF QueryRecords
    <3>2. CASE e.type # "partial"
      <4>1. p = [q EXCEPT !.events = n]
        BY <1>2, <2>3, <2>6, <3>2 DEF Received
      <4> QED
        BY <2>4, <4>1 DEF QueryRecords
    <3> QED
      BY <3>1, <3>2
  <2>8. CASE Advances(t, [p EXCEPT !.saw = @ \cup {"failed"}])
    <3>1. PICK r : r = [p EXCEPT !.saw = @ \cup {"failed"}]
      OBVIOUS
    <3>2. r.kind = q.kind /\ r.lost = q.lost /\ r.written = q.written
      BY <2>7, <3>1 DEF QueryRecords
    <3> QED
      BY <1>2, <2>2, <2>8, <3>1, <3>2 DEF Moves, Grows
  <2>9. CASE Advances(t, [q EXCEPT !.events = @ + 1, !.saw = @ \cup {"cancelled"}])
    <3>1. PICK r : r = [q EXCEPT !.events = @ + 1, !.saw = @ \cup {"cancelled"}]
      OBVIOUS
    <3>2. r.kind = q.kind /\ r.lost = q.lost /\ r.written = q.written
      BY <3>1 DEF QueryRecords
    <3> QED
      BY <1>2, <2>2, <2>9, <3>1, <3>2 DEF Moves, Grows
  <2>10. CASE Writes(t, p, e)
    BY <1>2, <2>2, <2>5, <2>7, <2>10, WritesGrow
  <2> QED
    BY <1>2, <2>1, <2>6, <2>8, <2>9, <2>10 DEF Relay
<1>16. CASE ClientLeaves(t)
  <2>1. PICK p : p = [q EXCEPT !.lost = TRUE]
    OBVIOUS
  <2>2. p.kind = q.kind /\ p.lost /\ p.written = q.written
    BY <2>1 DEF QueryRecords
  <2>3. Advances(t, p) /\ q.at # "idle"
    BY <1>2, <1>16, <2>1 DEF ClientLeaves, QueryAt
  <2> QED
    BY <1>2, <2>2, <2>3 DEF Moves, Grows
<1>17. CASE Finish(t)
  <2>1. PICK p : p = [q EXCEPT !.at = "idle", !.status = StatusOf(query[t]), !.attempts = 0]
    OBVIOUS
  <2>2. /\ q.at # "idle"
        /\ \/ Advances(t, p)
           \/ TerminalOf(p) # "none" /\ WritesBlindly(t, p, Event(TerminalOf(p), 0))
    BY <1>2, <1>17, <2>1 DEF Finish, QueryAt
  <2>3. Event(TerminalOf(p), 0) \in StreamEvents \/ TerminalOf(p) = "none"
    BY <1>3 DEF TerminalOf
  <2>4. p \in QueryRecords /\ p.kind = q.kind /\ p.lost = q.lost /\ p.written = q.written
    <3>1. StatusOf(query[t]) \in {"none", "completed", "failed", "cancelled"}
      BY DEF StatusOf
    <3>2. 0 \in 0..MaxAttempts
      BY AgentCallBounds
    <3> QED
      BY <2>1, <3>1, <3>2 DEF QueryRecords
  <2>5. CASE Advances(t, p)
    BY <1>2, <1>3, <2>2, <2>4, <2>5, WritesGrow
  <2>6. CASE ~Advances(t, p)
    BY <1>2, <2>2, <2>3, <2>4, <2>6, WritesGrow
  <2> QED
    BY <2>5, <2>6
<1> QED
  BY <1>5, <1>6, <1>7, <1>8, <1>9, <1>10, <1>11, <1>12, <1>13, <1>14, <1>15, <1>16, <1>17
     DEF QueryStep

\* One thread acts, and the requests of the others stay as they are.
LEMMA OneRequest ==
  ASSUME GatewayInv, CallsInv', NEW t \in Browsers, NEW r, Advances(t, r) \/ Mixes(t, r),
         NEW p \in RequestRecords, proxy' = [proxy EXCEPT ![t] = p], RequestFits(p, r)
  PROVE  GatewayInv'
<1>1. t \in QueryThreads
  BY BrowserAssumption
<1>2. /\ query'[t] = r
      /\ \A u \in QueryThreads : u # t =>
           /\ Grows(query[u], query'[u])
           /\ query'[u].at = query[u].at /\ query'[u].status = query[u].status
  BY <1>1, OthersStay DEF GatewayInv
<1>3. /\ query \in [QueryThreads -> QueryRecords] /\ query' \in [QueryThreads -> QueryRecords]
  BY DEF GatewayInv, CallsInv
<1>4. /\ proxy' \in [Browsers -> RequestRecords] /\ proxy'[t] = p
      /\ \A u \in Browsers : u # t => proxy'[u] = proxy[u]
  BY DEF GatewayInv
<1>5. ASSUME NEW u \in Browsers
      PROVE  RequestFits(proxy'[u], query'[u])
  <2>1. CASE u = t
    BY <1>2, <1>4, <2>1
  <2>2. CASE u # t
    <3>1. u \in QueryThreads /\ RequestFits(proxy[u], query[u])
      BY BrowserAssumption DEF GatewayInv
    <3>2. RequestFits(proxy[u], query'[u])
      <4>1. query[u] \in QueryRecords /\ query'[u] \in QueryRecords
        BY <1>3, <3>1
      <4>2. PICK a, b : a = query[u] /\ b = query'[u]
        OBVIOUS
      <4>3. Grows(a, b) /\ b.at = a.at /\ b.status = a.status
        BY <1>2, <2>2, <3>1, <4>2
      <4>4. RequestFits(proxy[u], b)
        BY <3>1, <4>1, <4>2, <4>3, FitsWhileItGrows
      <4> QED
        BY <4>2, <4>4
    <3> QED
      BY <1>4, <2>2, <3>2
  <2> QED
    BY <2>1, <2>2
<1> QED
  BY <1>4, <1>5 DEF GatewayInv

LEMMA NoRequestFits ==
  /\ NoRequest \in RequestRecords /\ ~NoRequest.open /\ ~NoRequest.ended
  /\ NoRequest.read = 0 /\ NoRequest.out = <<>> /\ NoRequest.status = "none"
  /\ ~NoRequest.completeSeen /\ Len(NoRequest.out) = 0
<1>1. <<>> \in Seq(StreamEvents) /\ Len(<<>>) = 0
  BY EmptySeq
<1> QED
  BY <1>1 DEF NoRequest, RequestRecords

LEMMA streamCallKeeps ==
  ASSUME GatewayInv, NEW t \in Browsers, streamCall(t)
  PROVE  GatewayInv'
<1>1. t \in QueryThreads /\ Serve(t, "stream", FALSE)
  BY BrowserAssumption DEF streamCall
<1>2. CallsInv'
  BY <1>1, ServeKeeps DEF GatewayInv
<1>3. PICK r : r = [NoQuery EXCEPT !.at = "route", !.kind = "stream", !.deadline = FALSE]
  OBVIOUS
<1>4. Advances(t, r)
  BY <1>1, <1>3 DEF Serve
<1>5. r.kind = "stream" /\ r.written = <<>> /\ r.at = "route" /\ Len(<<>>) = 0
  <2>1. NoQuery \in QueryRecords /\ NoQuery.written = <<>>
    BY <1>1, NoQueryFits DEF QueryFits
  <2> QED
    BY <1>3, <2>1, EmptySeq DEF QueryRecords
<1>6. PICK p : p = [NoRequest EXCEPT !.open = TRUE]
  OBVIOUS
<1>7. /\ p \in RequestRecords /\ p.open /\ ~p.ended /\ p.read = 0 /\ p.out = <<>>
      /\ p.status = "none" /\ ~p.completeSeen
  BY <1>6, NoRequestFits DEF RequestRecords
<1>8. proxy' = [proxy EXCEPT ![t] = p]
  BY <1>6 DEF streamCall, Holds
<1>9. KeepsUp(p, r.written) /\ Relayed(p, r.written)
  BY <1>5, <1>7 DEF KeepsUp, Relayed
<1>10. RequestFits(p, r)
  BY <1>5, <1>7, <1>9 DEF RequestFits, Told
<1> QED
  BY <1>2, <1>4, <1>7, <1>8, <1>10, OneRequest

\* The thread of a request acts, and the gateway does not.
LEMMA ServiceStepKeeps ==
  ASSUME GatewayInv, NEW t \in Browsers, UNCHANGED proxy,
         \/ QueryStep(t) \/ ClientLeaves(t)
         \/ QueryAt(t, "route") /\ Advances(t, Back(query[t], {"refused"})) /\ KeepsClient
  PROVE  GatewayInv'
<1>1. t \in QueryThreads /\ CallsInv
  BY BrowserAssumption DEF GatewayInv
<1>2. CallsInv'
  BY <1>1, QueryStepKeeps, ClientLeavesKeeps, RefusalsKeep
<1>3. Moves(t) /\ query[t].at # "idle"
  BY <1>1, StepsMove
<1>4. PICK r : Grows(query[t], r) /\ (Advances(t, r) \/ Mixes(t, r))
  BY <1>3 DEF Moves
<1>5. query'[t] = r
  BY <1>1, <1>4, OthersStay
<1>6. query[t] \in QueryRecords /\ r \in QueryRecords
  BY <1>1, <1>2, <1>5 DEF CallsInv
<1>7. PICK p : p = proxy[t]
  OBVIOUS
<1>8. p \in RequestRecords /\ RequestFits(p, query[t])
  BY <1>7 DEF GatewayInv
<1>9. RequestFits(p, r)
  BY <1>3, <1>4, <1>6, <1>8, FitsWhileItGrows
<1>10. proxy' = [proxy EXCEPT ![t] = p]
  BY <1>7 DEF GatewayInv
<1> QED
  BY <1>2, <1>4, <1>8, <1>9, <1>10, OneRequest

\* The handler has returned: no event follows, so the status is the last that comes.
LEMMA RepliesKeeps ==
  ASSUME GatewayInv, NEW t \in Browsers, Replies(t)
  PROVE  GatewayInv'
<1>1. t \in QueryThreads /\ CallsInv /\ Finish(t)
  BY BrowserAssumption DEF GatewayInv, Replies
<1>2. CallsInv'
  BY <1>1, FinishKeeps
<1>3. Moves(t) /\ query[t].at # "idle"
  BY <1>1, StepsMove
<1>4. PICK r : Grows(query[t], r) /\ (Advances(t, r) \/ Mixes(t, r))
  BY <1>3 DEF Moves
<1>5. query'[t] = r
  BY <1>1, <1>4, OthersStay
<1>6. query[t] \in QueryRecords /\ r \in QueryRecords
  BY <1>1, <1>2, <1>5 DEF CallsInv
<1>7. r.at = "idle" /\ r.status = StatusOf(query[t])
  <2>1. PICK q, st : q = query[t] /\ st = StatusOf(query[t])
    OBVIOUS
  <2>2. st \in {"none", "completed", "failed", "cancelled"} /\ q \in QueryRecords
    BY <1>6, <2>1 DEF StatusOf
  <2>3. PICK f : f = [q EXCEPT !.at = "idle", !.status = st, !.attempts = 0]
    OBVIOUS
  <2>4. f \in QueryRecords /\ f.at = "idle" /\ f.status = st
    <3>1. 0 \in 0..MaxAttempts
      BY AgentCallBounds
    <3> QED
      BY <2>2, <2>3, <3>1 DEF QueryRecords
  <2>5. PICK x : /\ Advances(t, x)
                 /\ \/ x = f
                    \/ \E e : x = [f EXCEPT !.written = Append(@, e)]
                    \/ x = [f EXCEPT !.lost = TRUE]
    <3>1. Advances(t, f) \/ \E e : WritesBlindly(t, f, e)
      BY <1>1, <2>1, <2>3 DEF Finish
    <3> QED
      BY <3>1 DEF WritesBlindly
  <2>6. x.at = "idle" /\ x.status = st
    BY <2>4, <2>5 DEF QueryRecords
  <2>7. query'[t] = x
    BY <1>1, <2>5, OthersStay
  <2> QED
    BY <1>5, <2>1, <2>6, <2>7
<1>8. PICK s \in {"OK", "error"} :
        /\ s = "OK" => StatusOf(query[t]) = "completed"
        /\ proxy' = [proxy EXCEPT ![t] = [proxy[t] EXCEPT !.status = s]]
  BY DEF Replies, Holds
<1>9. PICK b : b = proxy[t]
  OBVIOUS
<1>10. b \in RequestRecords /\ RequestFits(b, query[t])
  BY <1>9 DEF GatewayInv
<1>11. RequestFits(b, r)
  BY <1>3, <1>4, <1>6, <1>10, FitsWhileItGrows
<1>12. b.open /\ b.status = "none"
  BY <1>3, <1>10 DEF RequestFits, RequestRecords
<1>13. PICK p : p = [b EXCEPT !.status = s]
  OBVIOUS
<1>14. /\ p \in RequestRecords /\ p.open /\ p.status = s /\ p.ended = b.ended /\ p.away = b.away
       /\ p.read = b.read /\ p.out = b.out /\ p.completeSeen = b.completeSeen
  BY <1>10, <1>12, <1>13 DEF RequestRecords
<1>15. KeepsUp(b, r.written) => KeepsUp(p, r.written)
  BY <1>14 DEF KeepsUp
<1>16. Relayed(p, r.written)
  BY <1>11, <1>14 DEF RequestFits, Relayed
<1>17. Told(p, r)
  BY <1>11, <1>12, <1>14 DEF RequestFits, Told
<1>18. RequestFits(p, r)
  BY <1>7, <1>8, <1>11, <1>12, <1>14, <1>15, <1>16, <1>17 DEF RequestFits
<1> QED
  BY <1>2, <1>4, <1>8, <1>9, <1>13, <1>14, <1>18, OneRequest

\* The gateway acts, and the service does not.
LEMMA OneHeld ==
  ASSUME GatewayInv, NEW t \in Browsers, UNCHANGED agentCallVars,
         NEW p \in RequestRecords, Holds(t, p), RequestFits(p, query[t])
  PROVE  GatewayInv'
<1>1. CallsInv' /\ query' = query
  BY CallsStutter DEF GatewayInv, agentCallVars
<1>2. /\ proxy' \in [Browsers -> RequestRecords] /\ proxy'[t] = p
      /\ \A u \in Browsers : u # t => proxy'[u] = proxy[u]
  BY DEF GatewayInv, Holds
<1>3. \A u \in Browsers : RequestFits(proxy'[u], query'[u])
  BY <1>1, <1>2 DEF GatewayInv
<1> QED
  BY <1>1, <1>2, <1>3 DEF GatewayInv

\* The events of a stream in the order in which they were written.
LEMMA HandleDataKeeps ==
  ASSUME GatewayInv, NEW t \in Browsers, HandleData(t)
  PROVE  GatewayInv'
<1>1. t \in QueryThreads /\ query[t] \in QueryRecords
  BY BrowserAssumption DEF GatewayInv, CallsInv
<1>2. PICK b, w : b = proxy[t] /\ w = query[t].written
  OBVIOUS
<1>3. b \in RequestRecords /\ RequestFits(b, query[t])
  BY <1>2 DEF GatewayInv
<1>4. /\ w \in Seq(StreamEvents) /\ Len(w) \in Nat /\ DOMAIN w = 1..Len(w)
      /\ b.read \in Nat /\ b.out \in Seq(StreamEvents) /\ Len(b.out) \in Nat
  BY <1>1, <1>2, <1>3 DEF QueryRecords, RequestRecords
<1>5. /\ b.open /\ b.read # Len(w) /\ b.read <= Len(w) /\ UNCHANGED agentCallVars
  BY <1>2, <1>3 DEF HandleData, AllRead, RequestFits
<1>6. PICK n : n = b.read + 1
  OBVIOUS
<1>7. n \in Nat /\ n \in 1..Len(w) /\ n <= Len(w)
  BY <1>4, <1>5, <1>6
<1>8. CASE b.ended
  <2>1. PICK p : p = [b EXCEPT !.read = n]
    OBVIOUS
  <2>2. /\ p \in RequestRecords /\ p.open /\ p.read = n /\ p.ended /\ p.away = b.away
        /\ p.out = b.out /\ p.status = b.status
    BY <1>3, <1>5, <1>7, <1>8, <2>1 DEF RequestRecords
  <2>3. Holds(t, p)
    <3>1. [b EXCEPT !.read = @ + 1] = p
      BY <1>6, <2>1
    <3> QED
      BY <1>2, <2>2, <3>1 DEF HandleData
  <2>4. Relayed(p, w)
    BY <1>2, <1>3, <1>8, <2>2 DEF RequestFits, Relayed
  <2>5. RequestFits(p, query[t])
    <3>1. Told(p, query[t])
      BY <1>3, <1>8, <2>2 DEF RequestFits, Told
    <3> QED
      BY <1>2, <1>3, <1>5, <1>7, <2>2, <2>4, <3>1 DEF RequestFits
  <2> QED
    BY <1>5, <2>2, <2>3, <2>5, OneHeld
<1>9. CASE ~b.ended
  <2>1. KeepsUp(b, w)
    BY <1>2, <1>3, <1>9 DEF RequestFits
  <2>2. PICK e \in StreamEvents : e = w[n]
    BY <1>4, <1>7
  <2>3. PICK out, c : out = Append(b.out, e) /\ c = (b.completeSeen \/ e \in Terminals)
    OBVIOUS
  <2>4. /\ out \in Seq(StreamEvents) /\ Len(out) = n /\ out[n] = e
        /\ \A i \in 1..b.read : out[i] = b.out[i]
    <3>1. Len(b.out) = b.read
      BY <2>1 DEF KeepsUp
    <3> QED
      BY <1>4, <1>6, <2>3, <3>1, AppendEvent
  <2>5. c \in BOOLEAN
    BY <1>3, <2>3 DEF RequestRecords
  <2>6. PICK p : p = [b EXCEPT !.read = n, !.out = out, !.completeSeen = c]
    OBVIOUS
  <2>7. /\ p \in RequestRecords /\ p.open /\ p.read = n /\ ~p.ended /\ p.away = b.away
        /\ p.out = out /\ p.status = b.status /\ p.completeSeen = c
    BY <1>3, <1>5, <1>7, <1>9, <2>4, <2>5, <2>6 DEF RequestRecords
  <2>8. Holds(t, p)
    <3>1. PICK x : x = [b EXCEPT !.read = @ + 1]
      OBVIOUS
    <3>2. x.read = n /\ ~x.ended /\ x.out = b.out /\ x.completeSeen = b.completeSeen
      BY <1>3, <1>6, <1>7, <1>9, <3>1 DEF RequestRecords
    <3>3. Holds(t, [x EXCEPT !.out = Append(@, query[t].written[x.read]),
                             !.completeSeen = @ \/ query[t].written[x.read] \in Terminals])
      BY <1>2, <3>1, <3>2 DEF HandleData
    <3>4. [x EXCEPT !.out = Append(@, w[n]), !.completeSeen = @ \/ w[n] \in Terminals] = p
      BY <1>3, <1>6, <2>2, <2>3, <2>6, <3>1, <3>2 DEF RequestRecords
    <3> QED
      BY <1>2, <3>2, <3>3, <3>4
  <2>9. \A i \in 1..n : i \in 1..b.read \/ i = n
    BY <1>4, <1>6
  <2>10. \A i \in 1..n : out[i] = w[i]
    BY <2>1, <2>2, <2>4, <2>9 DEF KeepsUp
  <2>11. c <=> \E i \in 1..n : w[i] \in Terminals
    <3>1. 1..b.read \subseteq 1..n /\ n \in 1..n
      BY <1>4, <1>6
    <3> QED
      BY <2>1, <2>2, <2>3, <2>9, <3>1 DEF KeepsUp
  <2>12. KeepsUp(p, w)
    BY <2>4, <2>7, <2>10, <2>11 DEF KeepsUp
  <2>13. Relayed(p, w)
    BY <1>7, <2>4, <2>7, <2>10 DEF Relayed
  <2>14. RequestFits(p, query[t])
    <3>1. Told(p, query[t])
      BY <2>7 DEF Told
    <3> QED
      BY <1>2, <1>3, <1>5, <1>7, <2>7, <2>12, <2>13, <3>1 DEF RequestFits
  <2> QED
    BY <1>5, <2>7, <2>8, <2>14, OneHeld
<1> QED
  BY <1>8, <1>9

\* The response ends, with one event more or without.
LEMMA EndsKeep ==
  ASSUME GatewayInv, NEW t \in Browsers, NEW p \in RequestRecords, NEW e \in StreamEvents,
         proxy[t].open, ~proxy[t].ended,
         p.open, p.ended, p.read = proxy[t].read, p.status = proxy[t].status,
         p.out = proxy[t].out \/ p.out = Append(proxy[t].out, e),
         Told(p, query[t]), Holds(t, p), UNCHANGED agentCallVars
  PROVE  GatewayInv'
<1>1. PICK b, q : b = proxy[t] /\ q = query[t]
  OBVIOUS
<1>2. b \in RequestRecords /\ RequestFits(b, q)
  BY <1>1 DEF GatewayInv
<1>3. /\ b.read \in Nat /\ b.out \in Seq(StreamEvents)
      /\ Len(b.out) = b.read /\ \A i \in 1..b.read : b.out[i] = q.written[i]
  BY <1>1, <1>2 DEF RequestFits, RequestRecords, KeepsUp
<1>4. /\ b.read <= Len(p.out) /\ Len(p.out) \in {b.read, b.read + 1}
      /\ \A i \in 1..b.read : p.out[i] = b.out[i]
  <2>1. CASE p.out = b.out
    BY <1>3, <2>1
  <2>2. CASE p.out = Append(b.out, e)
    BY <1>3, <2>2, AppendEvent
  <2> QED
    BY <1>1, <2>1, <2>2
<1>5. Relayed(p, q.written)
  <2>1. b.read \in 0..Len(p.out) /\ b.read <= Len(q.written)
    BY <1>2, <1>3, <1>4 DEF RequestFits
  <2>2. \A i \in 1..b.read : p.out[i] = q.written[i]
    BY <1>3, <1>4
  <2>3. Len(p.out) > b.read => Len(p.out) = b.read + 1 /\ p.ended
    BY <1>3, <1>4
  <2> QED
    BY <2>1, <2>2, <2>3 DEF Relayed
<1>6. RequestFits(p, q)
  BY <1>1, <1>2, <1>5 DEF RequestFits
<1> QED
  BY <1>1, <1>6, OneHeld

LEMMA HandleEndKeeps ==
  ASSUME GatewayInv, NEW t \in Browsers, HandleEnd(t)
  PROVE  GatewayInv'
<1>1. t \in QueryThreads /\ QueryFits(t, query[t])
  BY BrowserAssumption DEF GatewayInv, CallsInv
<1>2. PICK b, q : b = proxy[t] /\ q = query[t]
  OBVIOUS
<1>3. b \in RequestRecords /\ RequestFits(b, q)
  BY <1>2 DEF GatewayInv
<1>4. /\ b.open /\ ~b.ended /\ b.status = "OK" /\ b.read = Len(q.written) /\ ~q.lost
      /\ UNCHANGED agentCallVars
  BY <1>2 DEF HandleEnd, Awaiting, AllRead
<1>5. PICK e \in StreamEvents : /\ e = Event("complete", 0) /\ e \in Terminals
                                /\ e.type = "complete"
  BY EventFacts
<1>6. PICK x : x = [b EXCEPT !.ended = TRUE]
  OBVIOUS
<1>7. /\ x \in RequestRecords /\ x.open /\ x.ended /\ x.read = b.read /\ x.status = b.status
      /\ x.out = b.out /\ x.away = b.away /\ x.completeSeen = b.completeSeen
  BY <1>3, <1>4, <1>6 DEF RequestRecords
<1>8. Holds(t, IF x.completeSeen THEN x ELSE [x EXCEPT !.out = Append(@, e)])
  BY <1>2, <1>5, <1>6 DEF HandleEnd
<1>9. CASE x.completeSeen
  <2>1. /\ q \in QueryRecords /\ q.at = "idle" /\ q.kind = "stream" /\ q.status = "completed"
    BY <1>1, <1>2, <1>3, <1>4 DEF RequestFits, QueryFits
  <2>2. q.written \in Seq(StreamEvents) /\ Len(q.written) \in Nat /\ q.saw = {}
    BY <1>1, <1>2, <2>1 DEF QueryFits, EventsFit, QueryRecords
  <2>3. q.written # <<>> /\ q.written[Len(q.written)] = e
    BY <1>1, <1>2, <1>4, <1>5, <2>1, <2>2 DEF QueryFits, EventsFit
  <2>4. Len(q.written) # 0
    BY <2>2, <2>3, EmptySeq
  <2>5. /\ x.out \in Seq(StreamEvents) /\ Len(x.out) = Len(q.written)
        /\ x.out[Len(q.written)] = q.written[Len(q.written)]
    BY <1>3, <1>4, <1>7, <2>2, <2>4 DEF RequestFits, KeepsUp, RequestRecords
  <2>6. x.out # <<>>
    BY <2>4, <2>5, EmptySeq
  <2>7. Told(x, q)
    BY <1>4, <1>5, <1>7, <2>3, <2>5, <2>6 DEF Told
  <2>8. Holds(t, x)
    BY <1>8, <1>9
  <2> QED
    BY <1>2, <1>4, <1>7, <2>7, <2>8, EndsKeep
<1>10. CASE ~x.completeSeen
  <2>1. PICK out : out = Append(b.out, e)
    OBVIOUS
  <2>2. b.out \in Seq(StreamEvents)
    BY <1>3 DEF RequestRecords
  <2>3. out \in Seq(StreamEvents) /\ out # <<>> /\ out[Len(out)] = e
    BY <2>1, <2>2, AppendEvent
  <2>4. PICK p : p = [x EXCEPT !.out = out]
    OBVIOUS
  <2>5. /\ p \in RequestRecords /\ p.open /\ p.ended /\ p.read = b.read /\ p.status = b.status
        /\ p.out = out
    BY <1>7, <2>3, <2>4 DEF RequestRecords
  <2>6. Told(p, q)
    BY <1>4, <1>5, <2>3, <2>5 DEF Told
  <2>7. Holds(t, p)
    BY <1>7, <1>8, <1>10, <2>1, <2>4
  <2> QED
    BY <1>2, <1>4, <2>1, <2>5, <2>6, <2>7, EndsKeep
<1> QED
  BY <1>9, <1>10

LEMMA HandleErrorKeeps ==
  ASSUME GatewayInv, NEW t \in Browsers, HandleError(t)
  PROVE  GatewayInv'
<1>1. PICK b, q : b = proxy[t] /\ q = query[t]
  OBVIOUS
<1>2. b \in RequestRecords
  BY <1>1 DEF GatewayInv
<1>3. /\ b.open /\ ~b.ended /\ (q.lost \/ b.status = "error")
      /\ UNCHANGED agentCallVars
  BY <1>1 DEF HandleError, Awaiting
<1>4. PICK e \in StreamEvents : /\ e = Event("error", 0) /\ e \in Terminals /\ e.type = "error"
  BY EventFacts
<1>5. PICK out : out = Append(b.out, e)
  OBVIOUS
<1>6. b.out \in Seq(StreamEvents)
  BY <1>2 DEF RequestRecords
<1>7. out \in Seq(StreamEvents) /\ out # <<>> /\ out[Len(out)] = e
  BY <1>5, <1>6, AppendEvent
<1>8. PICK p : p = [b EXCEPT !.ended = TRUE, !.out = out]
  OBVIOUS
<1>9. /\ p \in RequestRecords /\ p.open /\ p.ended /\ p.read = b.read /\ p.status = b.status
      /\ p.out = out
  BY <1>2, <1>3, <1>7, <1>8 DEF RequestRecords
<1>10. Told(p, q)
  BY <1>3, <1>4, <1>7, <1>9 DEF Told
<1>11. Holds(t, p)
  BY <1>1, <1>4, <1>5, <1>8 DEF HandleError
<1> QED
  BY <1>1, <1>3, <1>5, <1>9, <1>10, <1>11, EndsKeep

LEMMA HandleCloseKeeps ==
  ASSUME GatewayInv, NEW t \in Browsers, HandleClose(t)
  PROVE  GatewayInv'
<1>1. PICK b, q : b = proxy[t] /\ q = query[t]
  OBVIOUS
<1>2. b \in RequestRecords
  BY <1>1 DEF GatewayInv
<1>3. b.open /\ ~b.ended /\ UNCHANGED agentCallVars
  BY <1>1 DEF HandleClose, Awaiting
<1>4. PICK p : p = [b EXCEPT !.ended = TRUE, !.away = TRUE]
  OBVIOUS
<1>5. /\ p \in RequestRecords /\ p.open /\ p.ended /\ p.read = b.read /\ p.status = b.status
      /\ p.out = b.out /\ p.away
  BY <1>2, <1>3, <1>4 DEF RequestRecords
<1>6. Told(p, q)
  BY <1>5 DEF Told
<1>7. Holds(t, p)
  BY <1>1, <1>4 DEF HandleClose
<1>8. PICK e \in StreamEvents : e = Event("error", 0)
  BY EventFacts
<1> QED
  BY <1>1, <1>3, <1>5, <1>6, <1>7, EndsKeep

LEMMA GatewayStarts ==
  ASSUME GatewayInit
  PROVE  GatewayInv
<1>1. CallsInv /\ proxy = [t \in Browsers |-> NoRequest]
  BY CallsInit DEF GatewayInit
<1>2. /\ NoRequest \in RequestRecords /\ ~NoRequest.open /\ ~NoRequest.ended
      /\ NoRequest.read = 0 /\ NoRequest.out = <<>> /\ NoRequest.status = "none"
      /\ ~NoRequest.completeSeen /\ Len(NoRequest.out) = 0
  BY NoRequestFits
<1>3. ASSUME NEW t \in Browsers
      PROVE  RequestFits(NoRequest, query[t])
  <2>1. query[t] = NoQuery /\ t \in QueryThreads
    BY BrowserAssumption DEF GatewayInit, AgentCallsInit
  <2>2. NoQuery.at = "idle" /\ NoQuery.written = <<>> /\ Len(<<>>) = 0
    BY <2>1, NoQueryFits, EmptySeq
  <2>3. KeepsUp(NoRequest, <<>>) /\ Relayed(NoRequest, <<>>)
    BY <1>2, <2>2 DEF KeepsUp, Relayed
  <2> QED
    BY <1>2, <2>1, <2>2, <2>3 DEF RequestFits, Told
<1> QED
  BY <1>1, <1>2, <1>3 DEF GatewayInv

LEMMA GatewayKeeps ==
  ASSUME GatewayInv, [GatewayNext]_gatewayVars
  PROVE  GatewayInv'
<1>1. CASE UNCHANGED gatewayVars
  <2>1. CallsInv' /\ query' = query /\ proxy' = proxy
    BY <1>1, CallsStutter DEF GatewayInv, gatewayVars, agentCallVars
  <2> QED
    BY <2>1 DEF GatewayInv
<1>2. CASE GatewayNext
  <2>1. PICK t \in Browsers :
          \/ streamCall(t) \/ Refused(t) \/ Replies(t)
          \/ HandleData(t) \/ HandleEnd(t) \/ HandleError(t) \/ HandleClose(t)
          \/ (ClientLeaves(t) \/ QueryStep(t)) /\ UNCHANGED proxy
    BY <1>2 DEF GatewayNext
  <2>2. CASE Refused(t) \/ ((ClientLeaves(t) \/ QueryStep(t)) /\ UNCHANGED proxy)
    BY <2>2, ServiceStepKeeps DEF Refused
  <2>3. CASE streamCall(t) \/ Replies(t)
    BY <2>3, streamCallKeeps, RepliesKeeps
  <2>4. CASE HandleData(t) \/ HandleEnd(t) \/ HandleError(t) \/ HandleClose(t)
    BY <2>4, HandleDataKeeps, HandleEndKeeps, HandleErrorKeeps, HandleCloseKeeps
  <2> QED
    BY <2>1, <2>2, <2>3, <2>4
<1> QED
  BY <1>1, <1>2

LEMMA GatewayInvSays == GatewayInv => GatewayInvariant
<1> SUFFICES ASSUME GatewayInv
             PROVE  GatewayInvariant
  OBVIOUS
<1>1. GatewayTypeOK
  BY DEF GatewayInv, GatewayTypeOK, RequestRecords
<1>2. ASSUME NEW t \in Browsers
      PROVE  \E n \in 0..Len(proxy[t].out) :
               /\ n <= Len(query[t].written)
               /\ SubSeq(proxy[t].out, 1, n) = SubSeq(query[t].written, 1, n)
               /\ Len(proxy[t].out) > n => Len(proxy[t].out) = n + 1 /\ proxy[t].ended
  <2>1. t \in QueryThreads
    BY BrowserAssumption
  <2>2. PICK b, w : b = proxy[t] /\ w = query[t].written
    OBVIOUS
  <2>3. /\ b \in RequestRecords /\ Relayed(b, w)
        /\ b.out \in Seq(StreamEvents) /\ Len(b.out) \in Nat
        /\ w \in Seq(StreamEvents) /\ Len(w) \in Nat
    <3>1. b \in RequestRecords /\ Relayed(b, w)
      BY <2>2 DEF GatewayInv, RequestFits
    <3>2. query[t] \in QueryRecords
      BY <2>1 DEF GatewayInv, CallsInv
    <3> QED
      BY <2>2, <3>1, <3>2 DEF RequestRecords, QueryRecords
  <2>4. PICK n \in 0..Len(b.out) :
          /\ n <= Len(w) /\ \A i \in 1..n : b.out[i] = w[i]
          /\ Len(b.out) > n => Len(b.out) = n + 1 /\ b.ended
    BY <2>3 DEF Relayed
  <2>5. SubSeq(b.out, 1, n) = SubSeq(w, 1, n)
    BY <2>3, <2>4
  <2> QED
    BY <2>2, <2>4, <2>5
<1>3. RelayedInOrder
  BY <1>2 DEF RelayedInOrder
<1>4. OutcomeTold
  <2> SUFFICES ASSUME NEW t \in Browsers, proxy[t].ended, ~proxy[t].away
               PROVE  /\ proxy[t].out # <<>> /\ proxy[t].out[Len(proxy[t].out)] \in Terminals
                      /\ proxy[t].out[Len(proxy[t].out)].type = "complete" => proxy[t].status = "OK"
                      /\ proxy[t].out[Len(proxy[t].out)].type = "error" =>
                           proxy[t].status = "error" \/ query[t].lost
    BY DEF OutcomeTold
  <2>1. Told(proxy[t], query[t])
    BY DEF GatewayInv, RequestFits
  <2> QED
    BY <2>1 DEF Told
<1> QED
  BY <1>1, <1>3, <1>4 DEF GatewayInvariant

\* streamCall of the gateway, over AIQueryServiceImpl::QueryStream, with any number of
\* browsers and agents of any length of answer, and whatever breaks or leaves at
\* whichever moment: a browser gets the events of the service in their order and one
\* more at most, and one that stays is told, last, how its query really ended.
THEOREM GatewayCorrect == GatewaySpec => []GatewayInvariant
<1>1. GatewayInit => GatewayInv
  BY GatewayStarts
<1>2. GatewayInv /\ [GatewayNext]_gatewayVars => GatewayInv'
  BY GatewayKeeps
<1> QED
  BY <1>1, <1>2, GatewayInvSays, PTL DEF GatewaySpec
------------------------------------------------------------------------------
(* ClientFailover: the state of each thread of the client. *)

Notifications == [due: BOOLEAN, snapshot: SUBSET Servers]
ThreadRecords ==
  [at: FailoverSteps, kind: Kinds, to: Here, view: [Servers -> Healths], left: SUBSET Servers]

ClientTyped ==
  /\ up \subseteq Servers /\ registered \subseteq Servers
  /\ notice \in [Servers -> Notifications]
  /\ known \in [Servers -> Healths]
  /\ current \in Here /\ channel \in Here /\ stub \in Here
  /\ watching \in BOOLEAN /\ connected \in BOOLEAN /\ agent \in BOOLEAN
  /\ crossed \in BOOLEAN /\ outrun \in BOOLEAN /\ live \subseteq Servers
  /\ thread \in [AllThreads -> ThreadRecords]
  /\ beating \in {"none", "loops", "ended"}
  /\ tries \in Nat /\ stops \in 0..MaxStops /\ entries \in 0..MaxEntries
  /\ connects \in 0..MaxConnects

IdleSteps == {"free", "ready", "asks"}
CarrierSteps == {"store", "heal", "assign", "watch"}
OpenSteps == {"opens", "assigns", "loads", "waits", "stubs", "keeps"}

\* Each step is one of its kind of activity; whoever fails over was connected, so
\* that the watcher is set, and whoever tries candidates knows a server.
ThreadFits(r) ==
  /\ r.at \in {"discover", "assign", "watch"} => r.kind = "connect"
  /\ r.at \in {"ready", "asks", "mark", "reconnect", "sleeps", "store", "snapshot", "heal", "select"} =>
       r.kind # "connect" /\ watching
  /\ r.at \in {"next", "marks"} \cup OpenSteps => watching
  /\ r.at \in {"assign", "watch", "next"} => Known(r.view) # {}
  /\ r.kind = "connect" /\ r.at \in OpenSteps => Known(r.view) # {}

FailoverBase ==
  ClientTyped /\ (connected => watching) /\ \A t \in AllThreads : ThreadFits(thread[t])

LEMMA ViewsTyped ==
  /\ \A S : Of(S) \in [Servers -> Healths]
  /\ \A S \in SUBSET Servers : Known(Of(S)) = S
  /\ \A S \in SUBSET Servers : WithHealth(Of(S), "healthy") = S
<1>1. \A S : Of(S) \in [Servers -> Healths]
  BY DEF Of, Healths
<1>2. \A S \in SUBSET Servers : Known(Of(S)) = S
  BY DEF Of, Known
<1>3. \A S \in SUBSET Servers : WithHealth(Of(S), "healthy") = S
  BY DEF Of, WithHealth
<1> QED
  BY <1>1, <1>2, <1>3

LEMMA FreeFits ==
  /\ Free \in ThreadRecords /\ Free.at = "free" /\ Free.kind = "none"
  /\ ThreadFits(Free)
<1>1. Free \in ThreadRecords
  BY ViewsTyped DEF Free, ThreadRecords, FailoverSteps, Kinds, Here
<1> QED
  BY <1>1 DEF Free, ThreadFits, OpenSteps

\* What one thread does, seen by it and by the others.
LEMMA ThreadStep ==
  ASSUME FailoverBase, NEW t \in AllThreads, NEW r \in ThreadRecords,
         thread' = [thread EXCEPT ![t] = r],
         watching => watching', ThreadFits(r)'
  PROVE  /\ thread' \in [AllThreads -> ThreadRecords] /\ thread'[t] = r
         /\ \A u \in AllThreads : u # t => thread'[u] = thread[u]
         /\ \A u \in AllThreads : ThreadFits(thread[u])'
<1>1. /\ thread' \in [AllThreads -> ThreadRecords] /\ thread'[t] = r
      /\ \A u \in AllThreads : u # t => thread'[u] = thread[u]
  BY DEF FailoverBase, ClientTyped
<1>2. ASSUME NEW u \in AllThreads
      PROVE  ThreadFits(thread[u])'
  <2>1. ThreadFits(thread[u])
    BY DEF FailoverBase
  <2>2. CASE u = t
    BY <1>1, <2>2 DEF ThreadFits
  <2>3. CASE u # t
    BY <1>1, <2>1, <2>3 DEF ThreadFits
  <2> QED
    BY <2>2, <2>3
<1> QED
  BY <1>1, <1>2

\* A thread is in an attempt that will be counted, unless the channel opens.
Attempting(r) ==
  r.kind # "connect" /\ r.at \in {"sleeps", "store", "snapshot", "heal", "select", "next"} \cup OpenSteps

\* A view on its way is what the registry has, or will be once it is there.
ViewFits(r) ==
  /\ r.at \in {"store", "assign", "heal"} => Known(r.view) = registered
  /\ r.at = "watch" => Known(known) = registered

\* The channel and the stub that a thread without rivals works on lead to the current
\* endpoint.
Aligned(r) ==
  /\ r.at \in {"assigns", "keeps"} => r.to = current
  /\ r.at \in {"loads", "waits", "stubs"} => channel = current
  /\ (r.at \notin OpenSteps \/ Known(r.view) = {}) /\ connected => stub = current

\* A thread without rivals has left out none of the servers that were always up.
Complete(r) ==
  r.kind # "connect" =>
    /\ r.at \in {"store", "select"} => r.view = Of(registered)
    /\ r.at = "snapshot" => known = Of(registered)
    /\ r.at # "heal"
    /\ r.at = "next" => Known(r.view) \cap live \subseteq r.left
    /\ r.at = "opens" => Known(r.view) \cap live \subseteq r.left \cup {current}
    /\ r.at \in {"assigns", "waits"} => Known(r.view) \cap live \subseteq r.left \cup {r.to}
    /\ r.at = "loads" => Known(r.view) \cap live \subseteq r.left \cup {channel}
------------------------------------------------------------------------------
(* ClientFailover: what a step of t does, after which its state is r. *)

Acts(t, r) ==
  /\ thread' = [thread EXCEPT ![t] = r] /\ UNCHANGED world
  /\ known' \in [Servers -> Healths]
  /\ current' \in Here /\ channel' \in Here /\ stub' \in Here
  /\ watching' \in BOOLEAN /\ (watching => watching')
  /\ connected' \in BOOLEAN /\ (connected' => watching')
  /\ agent' \in BOOLEAN /\ beating' \in {"none", "loops", "ended"}
  /\ connects' \in 0..MaxConnects
  /\ thread[t].at \in IdleSteps => UNCHANGED <<known, current, channel, stub, connected, watching>>
  /\ Attempting(r) /\ ~Attempting(thread[t]) => tries < MaxTries /\ tries' = tries
  /\ tries' \in {tries, 0} \/ (tries' = tries + 1 /\ Attempting(thread[t]) /\ ~Attempting(r))

\* Only a thread with a view changes which endpoints the client knows.
Conveys(t, r) ==
  /\ thread[t].at \notin CarrierSteps => Known(known') = Known(known) /\ watching' = watching
  /\ thread[t].at \in {"store", "heal", "assign"} =>
       Known(known') = Known(thread[t].view) /\ watching' = watching
  /\ thread[t].at = "watch" => known' = known
  /\ r.at \in {"store", "assign"} => thread[t].at \notin CarrierSteps /\ Known(r.view) = registered
  /\ r.at = "heal" => thread[t].at \notin CarrierSteps /\ Known(r.view) = Known(known) /\ watching
  /\ r.at = "watch" => thread[t].at = "assign"

\* A thread that chose the endpoint itself works on it, whatever was there before.
Aligns(t, r) ==
  Aligned(thread[t]) \/ (thread[t].at = "next" /\ r.at = "opens") => Aligned(r)'

Completes(t, r) ==
  /\ Complete(thread[t]) /\ (thread[t].at = "sleeps" => Known(known) = registered)
  /\ live' \subseteq live /\ live \subseteq up
  => Complete(r)'

Does(t, r) ==
  r \in ThreadRecords /\ ThreadFits(r)' /\ Acts(t, r) /\ Conveys(t, r) /\ Aligns(t, r) /\ Completes(t, r)

\* A thread that goes on and keeps what it knows.
LEMMA TakesStep ==
  ASSUME FailoverBase, NEW t \in AllThreads, NEW s \in Here, NEW goal \in FailoverSteps,
         Takes(t, s, goal)
  PROVE  \E r \in ThreadRecords :
           /\ thread' = [thread EXCEPT ![t] = r]
           /\ r.at = goal /\ r.to = s /\ r.kind = thread[t].kind
           /\ r.view = thread[t].view /\ r.left = thread[t].left
<1>1. thread[t] \in ThreadRecords /\ thread \in [AllThreads -> ThreadRecords]
  BY DEF FailoverBase, ClientTyped
<1>2. PICK o \in ThreadRecords : o = thread[t]
  BY <1>1
<1>3. PICK r : r = [o EXCEPT !.at = goal, !.to = s]
  OBVIOUS
<1>4. /\ r \in ThreadRecords /\ r.at = goal /\ r.to = s /\ r.kind = o.kind
      /\ r.view = o.view /\ r.left = o.left
  BY <1>3 DEF ThreadRecords
<1>5. thread' = [thread EXCEPT ![t] = r]
  BY <1>1, <1>2, <1>3 DEF Takes
<1> QED
  BY <1>2, <1>4, <1>5

\* A thread that is not busy disturbs nobody.
LEMMA IdleDoes ==
  ASSUME FailoverBase, NEW t \in AllThreads, NEW r \in ThreadRecords, ThreadFits(r)',
         thread' = [thread EXCEPT ![t] = r], UNCHANGED <<world, client>>,
         agent' \in BOOLEAN, beating' \in {"none", "loops", "ended"}, connects' \in 0..MaxConnects,
         thread[t].at \in IdleSteps, r.at \in IdleSteps \cup {"mark", "reconnect", "discover"}
  PROVE  Does(t, r)
<1>1. ClientTyped /\ (connected => watching)
  BY DEF FailoverBase
<1>2. Acts(t, r)
  BY <1>1 DEF Acts, ClientTyped, Attempting, client, IdleSteps, OpenSteps
<1>3. Conveys(t, r)
  BY DEF Conveys, client, IdleSteps, CarrierSteps
<1>4. Aligns(t, r)
  BY DEF Aligns, Aligned, client, IdleSteps, OpenSteps
<1>5. Completes(t, r)
  BY DEF Completes, Complete, IdleSteps
<1> QED
  BY <1>2, <1>3, <1>4, <1>5 DEF Does

LEMMA AskDoes ==
  ASSUME FailoverBase, NEW t \in AllThreads, NEW kind \in {"call", "register", "beat"}, Ask(t, kind)
  PROVE  \E r : Does(t, r)
<1>1. thread[t].at = "free" /\ connected /\ watching /\ UNCHANGED <<world, client, life>>
  BY DEF Ask, At, FailoverBase
<1>2. PICK r : r = [Free EXCEPT !.at = "ready", !.kind = kind]
  OBVIOUS
<1>3. /\ r \in ThreadRecords /\ r.at = "ready" /\ r.kind = kind
      /\ thread' = [thread EXCEPT ![t] = r]
  BY <1>2, FreeFits DEF ThreadRecords, FailoverSteps, Kinds, Ask
<1>4. ThreadFits(r)'
  BY <1>1, <1>3 DEF ThreadFits, client, OpenSteps
<1>5. agent' \in BOOLEAN /\ beating' \in {"none", "loops", "ended"} /\ connects' \in 0..MaxConnects
  BY <1>1 DEF life, FailoverBase, ClientTyped
<1>6. thread[t].at \in IdleSteps /\ r.at \in IdleSteps
  BY <1>1, <1>3 DEF IdleSteps
<1>7. UNCHANGED <<world, client>>
  BY <1>1
<1> QED
  BY <1>3, <1>4, <1>5, <1>6, <1>7, IdleDoes

LEMMA AskOverStubDoes ==
  ASSUME FailoverBase, NEW t \in AllThreads, AskOverStub(t)
  PROVE  \E r : Does(t, r)
<1>1. /\ thread[t].at = "ready" /\ UNCHANGED <<world, client, life>>
      /\ ThreadFits(thread[t]) /\ stub \in Here
      /\ "asks" \in FailoverSteps
  BY DEF AskOverStub, At, FailoverBase, ClientTyped, FailoverSteps
<1>2. PICK r \in ThreadRecords :
        thread' = [thread EXCEPT ![t] = r] /\ r.at = "asks" /\ r.kind = thread[t].kind
  BY <1>1, TakesStep DEF AskOverStub
<1>3. ThreadFits(r)'
  BY <1>1, <1>2 DEF ThreadFits, client, OpenSteps
<1>4. agent' \in BOOLEAN /\ beating' \in {"none", "loops", "ended"} /\ connects' \in 0..MaxConnects
  BY <1>1 DEF life, FailoverBase, ClientTyped
<1>5. thread[t].at \in IdleSteps /\ r.at \in IdleSteps
  BY <1>1, <1>2 DEF IdleSteps
<1>6. UNCHANGED <<world, client>>
  BY <1>1
<1> QED
  BY <1>2, <1>3, <1>4, <1>5, <1>6, IdleDoes

LEMMA sendHeartbeatDoes ==
  ASSUME FailoverBase, NEW t \in AllThreads, sendHeartbeat(t)
  PROVE  \E r : Does(t, r)
<1>1. /\ thread[t].at = "ready" /\ UNCHANGED <<world, client, life>>
      /\ ThreadFits(thread[t])
  BY DEF sendHeartbeat, At, FailoverBase
<1>2. PICK r : r = [Free EXCEPT !.at = "reconnect", !.kind = "again"]
  OBVIOUS
<1>3. /\ r \in ThreadRecords /\ r.at = "reconnect" /\ r.kind = "again"
      /\ thread' = [thread EXCEPT ![t] = r]
  BY <1>2, FreeFits DEF ThreadRecords, FailoverSteps, Kinds, sendHeartbeat
<1>4. ThreadFits(r)'
  BY <1>1, <1>3 DEF ThreadFits, client, OpenSteps
<1>5. agent' \in BOOLEAN /\ beating' \in {"none", "loops", "ended"} /\ connects' \in 0..MaxConnects
  BY <1>1 DEF life, FailoverBase, ClientTyped
<1>6. thread[t].at \in IdleSteps
  BY <1>1 DEF IdleSteps
<1>7. UNCHANGED <<world, client>>
  BY <1>1
<1> QED
  BY <1>3, <1>4, <1>5, <1>6, <1>7, IdleDoes

LEMMA AnsweredDoes ==
  ASSUME FailoverBase, NEW t \in AllThreads, Answered(t) \/ Unanswered(t)
  PROVE  \E r : Does(t, r)
<1>1. /\ thread[t].at = "asks" /\ UNCHANGED <<world, client, connects>>
      /\ ThreadFits(thread[t]) /\ ClientTyped
  BY DEF Answered, Unanswered, At, FailoverBase, life
<1>2. agent' \in BOOLEAN /\ beating' \in {"none", "loops", "ended"} /\ connects' \in 0..MaxConnects
  BY <1>1 DEF Answered, Unanswered, life, ClientTyped
<1>3. PICK r \in ThreadRecords :
        /\ thread' = [thread EXCEPT ![t] = r]
        /\ r.at = "free" \/ (r.at = "mark" /\ r.kind = thread[t].kind)
  <2>1. CASE Answered(t)
    BY <2>1, FreeFits DEF Answered
  <2>2. CASE Unanswered(t)
    <3>1. NoServer \in Here /\ "mark" \in FailoverSteps /\ Takes(t, NoServer, "mark")
      BY <2>2 DEF Unanswered, Goes, Here, FailoverSteps
    <3> QED
      BY <3>1, TakesStep
  <2> QED
    BY <2>1, <2>2
<1>4. ThreadFits(r)'
  BY <1>1, <1>3 DEF ThreadFits, client, OpenSteps
<1>5. thread[t].at \in IdleSteps /\ r.at \in IdleSteps \cup {"mark", "reconnect", "discover"}
  BY <1>1, <1>3 DEF IdleSteps
<1>6. UNCHANGED <<world, client>>
  BY <1>1
<1> QED
  BY <1>2, <1>3, <1>4, <1>5, <1>6, IdleDoes

LEMMA connectViaRegistryDoes ==
  ASSUME FailoverBase, NEW t \in AllThreads, connectViaRegistry(t)
  PROVE  \E r : Does(t, r)
<1>1. /\ thread[t].at = "free" /\ UNCHANGED <<world, client, agent, beating>>
      /\ connects < MaxConnects /\ connects' = connects + 1
  BY DEF connectViaRegistry, At
<1>2. PICK r : r = [Free EXCEPT !.at = "discover", !.kind = "connect"]
  OBVIOUS
<1>3. /\ r \in ThreadRecords /\ r.at = "discover" /\ r.kind = "connect"
      /\ thread' = [thread EXCEPT ![t] = r]
  BY <1>2, FreeFits DEF ThreadRecords, FailoverSteps, Kinds, connectViaRegistry
<1>4. ThreadFits(r)'
  BY <1>1, <1>3 DEF ThreadFits, client, OpenSteps
<1>5. agent' \in BOOLEAN /\ beating' \in {"none", "loops", "ended"} /\ connects' \in 0..MaxConnects
  BY <1>1, FailoverBounds DEF FailoverBase, ClientTyped
<1>6. thread[t].at \in IdleSteps
  BY <1>1 DEF IdleSteps
<1>7. UNCHANGED <<world, client>>
  BY <1>1
<1> QED
  BY <1>3, <1>4, <1>5, <1>6, <1>7, IdleDoes
------------------------------------------------------------------------------
(* ClientFailover: the steps of reconnect. *)

LEMMA handleTransportFailureDoes ==
  ASSUME FailoverBase, NEW t \in AllThreads, handleTransportFailure(t)
  PROVE  \E r : Does(t, r)
<1>1. /\ thread[t].at = "mark" /\ connected' = FALSE
      /\ UNCHANGED <<world, watching, current, channel, stub, tries, life>>
      /\ known' = [s \in Servers |-> IF s = current /\ known[s] # "absent" THEN "unhealthy" ELSE known[s]]
      /\ ThreadFits(thread[t]) /\ ClientTyped
      /\ Takes(t, NoServer, "reconnect")
  BY DEF handleTransportFailure, At, FailoverBase, Goes
<1>2. NoServer \in Here /\ "reconnect" \in FailoverSteps
  BY DEF Here, FailoverSteps
<1>3. PICK r \in ThreadRecords :
        thread' = [thread EXCEPT ![t] = r] /\ r.at = "reconnect" /\ r.kind = thread[t].kind
  BY <1>1, <1>2, TakesStep
<1>4. ThreadFits(r)'
  BY <1>1, <1>3 DEF ThreadFits, OpenSteps
<1>5. known' \in [Servers -> Healths] /\ Known(known') = Known(known)
  BY <1>1 DEF ClientTyped, Healths, Known
<1>6. Acts(t, r)
  BY <1>1, <1>3, <1>5 DEF Acts, ClientTyped, Attempting, life, IdleSteps, OpenSteps
<1>7. Conveys(t, r)
  BY <1>1, <1>3, <1>5 DEF Conveys, CarrierSteps
<1>8. Aligns(t, r)
  BY <1>1, <1>3 DEF Aligns, Aligned
<1>9. Completes(t, r)
  BY <1>3 DEF Completes, Complete
<1> QED
  BY <1>4, <1>6, <1>7, <1>8, <1>9 DEF Does

\* An attempt ends; a heartbeat has another.
LEMMA EndsIn ==
  ASSUME FailoverBase, NEW t \in AllThreads, NEW ok \in BOOLEAN, Ends(t, ok)
  PROVE  \E r \in ThreadRecords :
           /\ thread' = [thread EXCEPT ![t] = r]
           /\ r.at \in {"free", "reconnect"} /\ r.kind \in {"none", "again"}
           /\ beating' \in {"none", "loops", "ended"}
<1>1. thread[t] \in ThreadRecords /\ beating \in {"none", "loops", "ended"}
      /\ thread \in [AllThreads -> ThreadRecords]
  BY DEF FailoverBase, ClientTyped
<1>2. beating' \in {"none", "loops", "ended"}
  BY <1>1 DEF Ends
<1>3. PICK a : a = [Free EXCEPT !.at = "reconnect", !.kind = "again"]
  OBVIOUS
<1>4. a \in ThreadRecords /\ a.at = "reconnect" /\ a.kind = "again"
  BY <1>3, FreeFits DEF ThreadRecords, FailoverSteps, Kinds
<1>5. CASE thread[t].kind = "beat"
  <2>1. thread' = [thread EXCEPT ![t] = a]
    BY <1>3, <1>5 DEF Ends
  <2> QED
    BY <1>2, <1>4, <2>1
<1>6. CASE thread[t].kind # "beat"
  <2>1. thread' = [thread EXCEPT ![t] = Free]
    BY <1>6 DEF Ends
  <2> QED
    BY <1>2, <2>1, FreeFits
<1> QED
  BY <1>5, <1>6

\* Whoever ends an attempt knows as many endpoints as before, and leaves the client
\* connected only if it was, or to the stub that it made.
LEMMA EndsDoes ==
  ASSUME FailoverBase, NEW t \in AllThreads, NEW ok \in BOOLEAN, Ends(t, ok),
         UNCHANGED <<world, watching, current, channel, agent, connects>>, stub' \in Here,
         watching, known' \in [Servers -> Healths], Known(known') = Known(known),
         connected' \in BOOLEAN,
         thread[t].at \notin IdleSteps \cup CarrierSteps,
         tries' \in {tries, 0} \/ (tries' = tries + 1 /\ Attempting(thread[t])),
         Aligned(thread[t]) => (connected' => stub' = current)
  PROVE  \E r : Does(t, r)
<1>1. ClientTyped
  BY DEF FailoverBase
<1>2. PICK r \in ThreadRecords :
        /\ thread' = [thread EXCEPT ![t] = r]
        /\ r.at \in {"free", "reconnect"} /\ r.kind \in {"none", "again"}
        /\ beating' \in {"none", "loops", "ended"}
  BY EndsIn
<1>3. ThreadFits(r)'
  BY <1>2 DEF ThreadFits, OpenSteps
<1>4. Acts(t, r)
  BY <1>1, <1>2 DEF Acts, ClientTyped, Attempting, OpenSteps
<1>5. Conveys(t, r)
  BY <1>2 DEF Conveys, CarrierSteps
<1>6. Aligns(t, r)
  BY <1>2 DEF Aligns, Aligned
<1>7. Completes(t, r)
  BY <1>2 DEF Completes, Complete
<1> QED
  BY <1>3, <1>4, <1>5, <1>6, <1>7 DEF Does

LEMMA reconnectDoes ==
  ASSUME FailoverBase, NEW t \in AllThreads, reconnect(t)
  PROVE  \E r : Does(t, r)
<1>1. /\ thread[t].at = "reconnect" /\ watching
      /\ UNCHANGED <<world, watching, known, current, channel, stub, tries, agent, connects>>
      /\ ThreadFits(thread[t]) /\ ClientTyped
  BY DEF reconnect, At, FailoverBase, ThreadFits
<1>2. CASE tries >= MaxTries
  <2>1. Ends(t, FALSE) /\ connected' = Online(t, connected)
    BY <1>2 DEF reconnect
  <2>2. connected' \in BOOLEAN /\ (connected' => connected) /\ stub' \in Here
    BY <1>1, <2>1 DEF Online, ClientTyped
  <2>3. known' \in [Servers -> Healths] /\ Known(known') = Known(known) /\ tries' \in {tries, 0}
    BY <1>1 DEF ClientTyped
  <2>4. thread[t].at \notin IdleSteps \cup CarrierSteps
    BY <1>1 DEF IdleSteps, CarrierSteps
  <2>5. Aligned(thread[t]) => (connected' => stub' = current)
    BY <1>1, <2>2 DEF Aligned, OpenSteps
  <2>6. UNCHANGED <<world, watching, current, channel, agent, connects>>
    BY <1>1
  <2> QED
    BY <1>1, <2>1, <2>2, <2>3, <2>4, <2>5, <2>6, EndsDoes
<1>3. CASE ~(tries >= MaxTries)
  <2>1. Takes(t, NoServer, "sleeps") /\ connected' = connected /\ beating' = beating
    BY <1>3 DEF reconnect, Goes
  <2>2. NoServer \in Here /\ "sleeps" \in FailoverSteps
    BY DEF Here, FailoverSteps
  <2>3. PICK r \in ThreadRecords :
          thread' = [thread EXCEPT ![t] = r] /\ r.at = "sleeps" /\ r.kind = thread[t].kind
    BY <2>1, <2>2, TakesStep
  <2>4. ThreadFits(r)'
    BY <1>1, <2>3 DEF ThreadFits, OpenSteps
  <2>5. tries < MaxTries
    BY <1>1, <1>3, FailoverBounds DEF ClientTyped
  <2>6. Acts(t, r)
    BY <1>1, <2>1, <2>3, <2>5 DEF Acts, ClientTyped, Attempting, IdleSteps, OpenSteps
  <2>7. Conveys(t, r)
    BY <1>1, <2>3 DEF Conveys, CarrierSteps
  <2>8. Aligns(t, r)
    BY <1>1, <2>1, <2>3 DEF Aligns, Aligned, OpenSteps
  <2>9. Completes(t, r)
    BY <2>3 DEF Completes, Complete
  <2> QED
    BY <2>3, <2>4, <2>6, <2>7, <2>8, <2>9 DEF Does
<1> QED
  BY <1>2, <1>3

LEMMA RediscoverDoes ==
  ASSUME FailoverBase, NEW t \in AllThreads, Rediscover(t)
  PROVE  \E r : Does(t, r)
<1>1. /\ thread[t].at = "sleeps" /\ UNCHANGED <<world, client, life>>
      /\ ThreadFits(thread[t]) /\ ClientTyped /\ (connected => watching)
  BY DEF Rediscover, At, FailoverBase
<1>2. PICK o \in ThreadRecords : o = thread[t]
  BY <1>1 DEF ClientTyped
<1>3. PICK a : a = IF registered = {} THEN "snapshot" ELSE "store"
  OBVIOUS
<1>4. PICK r : r = [o EXCEPT !.at = a, !.view = Of(registered)]
  OBVIOUS
<1>5. /\ r \in ThreadRecords /\ r.at = a /\ r.kind = o.kind /\ r.view = Of(registered)
  BY <1>3, <1>4, ViewsTyped DEF ThreadRecords, FailoverSteps
<1>6. thread' = [thread EXCEPT ![t] = r]
  BY <1>1, <1>2, <1>3, <1>4 DEF Rediscover, ClientTyped
<1>7. ThreadFits(r)'
  BY <1>1, <1>2, <1>3, <1>5 DEF ThreadFits, client, OpenSteps
<1>8. Acts(t, r)
  BY <1>1, <1>2, <1>3, <1>5, <1>6 DEF Acts, ClientTyped, Attempting, client, life, IdleSteps, OpenSteps
<1>9. Conveys(t, r)
  BY <1>1, <1>3, <1>5, ViewsTyped DEF Conveys, CarrierSteps, client, ClientTyped
<1>10. Aligns(t, r)
  BY <1>1, <1>3, <1>5 DEF Aligns, Aligned, client, OpenSteps
<1>11. ASSUME Known(known) = registered, registered = {}
       PROVE  known = Of(registered)
  <2>1. known \in [Servers -> Healths]
    BY <1>1 DEF ClientTyped
  <2>2. \A s \in Servers : known[s] = "absent"
    BY <1>11 DEF Known
  <2> QED
    BY <1>11, <2>1, <2>2 DEF Of
<1>12. Completes(t, r)
  <2>1. registered' = registered /\ known' = known
    BY <1>1 DEF world, client
  <2>2. Of(registered)' = Of(registered)
    BY <2>1 DEF Of
  <2> QED
    BY <1>1, <1>3, <1>5, <1>11, <2>1, <2>2 DEF Completes, Complete
<1> QED
  BY <1>5, <1>7, <1>8, <1>9, <1>10, <1>12 DEF Does

LEMMA StoreDiscoveredDoes ==
  ASSUME FailoverBase, NEW t \in AllThreads, StoreDiscovered(t)
  PROVE  \E r : Does(t, r)
<1>1. /\ thread[t].at = "store" /\ known' = thread[t].view
      /\ UNCHANGED <<world, watching, current, channel, stub, connected, tries, life>>
      /\ ThreadFits(thread[t]) /\ ClientTyped /\ (connected => watching)
  BY DEF StoreDiscovered, At, FailoverBase
<1>2. PICK o \in ThreadRecords : o = thread[t]
  BY <1>1 DEF ClientTyped
<1>3. PICK r : r = [o EXCEPT !.at = "snapshot", !.view = Of({})]
  OBVIOUS
<1>4. /\ r \in ThreadRecords /\ r.at = "snapshot" /\ r.kind = o.kind
  BY <1>3, ViewsTyped DEF ThreadRecords, FailoverSteps
<1>5. thread' = [thread EXCEPT ![t] = r]
  BY <1>1, <1>2, <1>3 DEF StoreDiscovered, ClientTyped
<1>6. ThreadFits(r)'
  BY <1>1, <1>2, <1>4 DEF ThreadFits, OpenSteps
<1>7. known' \in [Servers -> Healths]
  BY <1>1, <1>2 DEF ThreadRecords
<1>8. Acts(t, r)
  BY <1>1, <1>2, <1>4, <1>5, <1>7 DEF Acts, ClientTyped, Attempting, life, IdleSteps, OpenSteps
<1>9. Conveys(t, r)
  BY <1>1, <1>4 DEF Conveys, CarrierSteps
<1>10. Aligns(t, r)
  BY <1>1, <1>4 DEF Aligns, Aligned, OpenSteps
<1>11. Completes(t, r)
  <2>1. Of(registered)' = Of(registered)
    BY <1>1 DEF world, Of
  <2> QED
    BY <1>1, <1>2, <1>4, <2>1 DEF Completes, Complete
<1> QED
  BY <1>4, <1>6, <1>8, <1>9, <1>10, <1>11 DEF Does

LEMMA SnapshotDoes ==
  ASSUME FailoverBase, NEW t \in AllThreads, Snapshot(t)
  PROVE  \E r : Does(t, r)
<1>1. /\ thread[t].at = "snapshot" /\ UNCHANGED <<world, client, life>>
      /\ ThreadFits(thread[t]) /\ ClientTyped /\ (connected => watching)
  BY DEF Snapshot, At, FailoverBase
<1>2. PICK o \in ThreadRecords : o = thread[t]
  BY <1>1 DEF ClientTyped
<1>3. PICK v : v = IF WithHealth(known, "healthy") = {} THEN Of(Known(known)) ELSE known
  OBVIOUS
<1>4. v \in [Servers -> Healths] /\ Known(v) = Known(known)
  <2>1. known \in [Servers -> Healths] /\ Known(known) \in SUBSET Servers
    BY <1>1 DEF ClientTyped, Known
  <2> QED
    BY <1>3, <2>1, ViewsTyped
<1>5. PICK a : a = IF Known(known) = {} THEN "opens"
                   ELSE IF WithHealth(known, "healthy") = {} THEN "heal" ELSE "select"
  OBVIOUS
<1>6. PICK r : r = [o EXCEPT !.at = a, !.view = v]
  OBVIOUS
<1>7. /\ r \in ThreadRecords /\ r.at = a /\ r.kind = o.kind /\ r.view = v
  BY <1>4, <1>5, <1>6 DEF ThreadRecords, FailoverSteps
<1>8. thread' = [thread EXCEPT ![t] = r]
  BY <1>1, <1>2, <1>3, <1>5, <1>6 DEF Snapshot, ClientTyped
<1>9. ThreadFits(r)'
  BY <1>1, <1>2, <1>5, <1>7 DEF ThreadFits, client, OpenSteps
<1>10. Acts(t, r)
  BY <1>1, <1>2, <1>5, <1>7, <1>8 DEF Acts, ClientTyped, Attempting, client, life, IdleSteps, OpenSteps
<1>11. Conveys(t, r)
  <2>1. watching
    BY <1>1 DEF ThreadFits
  <2> QED
    BY <1>1, <1>4, <1>5, <1>7, <2>1 DEF Conveys, CarrierSteps, client
<1>12. Aligns(t, r)
  BY <1>1, <1>5, <1>7 DEF Aligns, Aligned, client, OpenSteps
<1>13. Completes(t, r)
  <2>1. Of(registered)' = Of(registered)
    BY <1>1 DEF world, Of
  <2>2. known = Of(registered) =>
          Known(known) = registered /\ WithHealth(known, "healthy") = registered
    BY <1>1, ViewsTyped DEF ClientTyped
  <2> QED
    BY <1>1, <1>2, <1>3, <1>4, <1>5, <1>7, <2>1, <2>2 DEF Completes, Complete
<1> QED
  BY <1>7, <1>9, <1>10, <1>11, <1>12, <1>13 DEF Does

LEMMA HealDoes ==
  ASSUME FailoverBase, NEW t \in AllThreads, Heal(t)
  PROVE  \E r : Does(t, r)
<1>1. /\ thread[t].at = "heal" /\ known' = thread[t].view
      /\ UNCHANGED <<world, watching, current, channel, stub, connected, tries, life>>
      /\ ThreadFits(thread[t]) /\ ClientTyped /\ (connected => watching)
      /\ Takes(t, NoServer, "select") /\ thread[t] \in ThreadRecords
  BY DEF Heal, At, FailoverBase, ClientTyped, Goes
<1>2. NoServer \in Here /\ "select" \in FailoverSteps
  BY DEF Here, FailoverSteps
<1>3. PICK r \in ThreadRecords :
        thread' = [thread EXCEPT ![t] = r] /\ r.at = "select" /\ r.kind = thread[t].kind
  BY <1>1, <1>2, TakesStep
<1>4. ThreadFits(r)'
  BY <1>1, <1>3 DEF ThreadFits, OpenSteps
<1>5. known' \in [Servers -> Healths]
  BY <1>1 DEF ThreadRecords
<1>6. Acts(t, r)
  BY <1>1, <1>3, <1>5 DEF Acts, ClientTyped, Attempting, life, IdleSteps, OpenSteps
<1>7. Conveys(t, r)
  BY <1>1, <1>3 DEF Conveys, CarrierSteps
<1>8. Aligns(t, r)
  BY <1>1, <1>3 DEF Aligns, Aligned, OpenSteps
<1>9. Completes(t, r)
  BY <1>1, <1>3 DEF Completes, Complete, ThreadFits
<1> QED
  BY <1>3, <1>4, <1>6, <1>7, <1>8, <1>9 DEF Does

LEMMA SelectCandidatesDoes ==
  ASSUME FailoverBase, NEW t \in AllThreads, SelectCandidates(t)
  PROVE  \E r : Does(t, r)
<1>1. /\ thread[t].at = "select" /\ UNCHANGED <<world, client, life>>
      /\ ThreadFits(thread[t]) /\ ClientTyped /\ (connected => watching)
  BY DEF SelectCandidates, At, FailoverBase
<1>2. PICK o \in ThreadRecords : o = thread[t]
  BY <1>1 DEF ClientTyped
<1>3. PICK s \in Known(o.view) :
        thread' = [thread EXCEPT ![t].at = "next",
                                 ![t].left = WithHealth(o.view, "healthy") \cup {s}]
  BY <1>2 DEF SelectCandidates
<1>4. PICK S : S = WithHealth(o.view, "healthy") \cup {s}
  OBVIOUS
<1>5. PICK r : r = [o EXCEPT !.at = "next", !.left = S]
  OBVIOUS
<1>6. S \in SUBSET Servers
  BY <1>4 DEF WithHealth, Known
<1>7. /\ r \in ThreadRecords /\ r.at = "next" /\ r.kind = o.kind /\ r.view = o.view /\ r.left = S
  BY <1>5, <1>6 DEF ThreadRecords, FailoverSteps
<1>8. thread' = [thread EXCEPT ![t] = r]
  BY <1>1, <1>2, <1>3, <1>4, <1>5 DEF ClientTyped
<1>9. ThreadFits(r)'
  BY <1>1, <1>2, <1>3, <1>7 DEF ThreadFits, client, OpenSteps
<1>10. Acts(t, r)
  BY <1>1, <1>2, <1>7, <1>8 DEF Acts, ClientTyped, Attempting, client, life, IdleSteps, OpenSteps
<1>11. Conveys(t, r)
  BY <1>1, <1>7 DEF Conveys, CarrierSteps, client
<1>12. Aligns(t, r)
  BY <1>1, <1>7 DEF Aligns, Aligned, client, OpenSteps
<1>13. Completes(t, r)
  <2>1. o.view = Of(registered) => Known(o.view) = registered /\ WithHealth(o.view, "healthy") = registered
    BY <1>1, ViewsTyped DEF ClientTyped
  <2> QED
    BY <1>1, <1>2, <1>4, <1>7, <2>1 DEF Completes, Complete, ThreadFits
<1> QED
  BY <1>7, <1>9, <1>10, <1>11, <1>12, <1>13 DEF Does

LEMMA GiveUpDoes ==
  ASSUME FailoverBase, NEW t \in AllThreads, GiveUp(t)
  PROVE  \E r : Does(t, r)
<1>1. /\ thread[t].at = "next" /\ Ends(t, FALSE) /\ connected' = Online(t, connected)
      /\ UNCHANGED <<world, watching, known, current, channel, stub, agent, connects>>
      /\ tries' = IF thread[t].kind = "connect" THEN tries ELSE tries + 1
      /\ ThreadFits(thread[t]) /\ ClientTyped
  BY DEF GiveUp, At, FailoverBase
<1>2. connected' \in BOOLEAN /\ (connected' => connected) /\ stub' \in Here
  BY <1>1 DEF Online, ClientTyped
<1>3. known' \in [Servers -> Healths] /\ Known(known') = Known(known)
  BY <1>1 DEF ClientTyped
<1>4. thread[t].at \notin IdleSteps \cup CarrierSteps /\ watching
  BY <1>1 DEF IdleSteps, CarrierSteps, ThreadFits
<1>5. tries' \in {tries, 0} \/ (tries' = tries + 1 /\ Attempting(thread[t]))
  BY <1>1 DEF Attempting
<1>6. Aligned(thread[t]) => (connected' => stub' = current)
  BY <1>1, <1>2 DEF Aligned, OpenSteps
<1>7. UNCHANGED <<world, watching, current, channel, agent, connects>>
  BY <1>1
<1> QED
  BY <1>1, <1>2, <1>3, <1>4, <1>5, <1>6, <1>7, EndsDoes
------------------------------------------------------------------------------
(* ClientFailover: the steps of connectToEndpoint and connectViaRegistry. *)

LEMMA connectToEndpointDoes ==
  ASSUME FailoverBase, NEW t \in AllThreads, connectToEndpoint(t)
  PROVE  \E r : Does(t, r)
<1>1. /\ thread[t].at = "next"
      /\ UNCHANGED <<world, watching, known, channel, stub, connected, tries, life>>
      /\ ThreadFits(thread[t]) /\ ClientTyped /\ (connected => watching)
  BY DEF connectToEndpoint, At, FailoverBase
<1>2. PICK o \in ThreadRecords : o = thread[t]
  BY <1>1 DEF ClientTyped
<1>3. PICK s \in o.left :
        /\ current' = s
        /\ thread' = [thread EXCEPT ![t].at = "opens", ![t].left = o.left \ {s}]
  BY <1>1, <1>2 DEF connectToEndpoint, ClientTyped
<1>4. PICK r : r = [o EXCEPT !.at = "opens", !.left = o.left \ {s}]
  OBVIOUS
<1>5. /\ r \in ThreadRecords /\ r.at = "opens" /\ r.kind = o.kind /\ r.view = o.view
      /\ r.left = o.left \ {s} /\ s \in Servers
  BY <1>3, <1>4 DEF ThreadRecords, FailoverSteps
<1>6. thread' = [thread EXCEPT ![t] = r]
  BY <1>1, <1>2, <1>3, <1>4 DEF ClientTyped
<1>7. ThreadFits(r)'
  BY <1>1, <1>2, <1>5 DEF ThreadFits, OpenSteps
<1>8. Acts(t, r)
  BY <1>1, <1>2, <1>3, <1>5, <1>6 DEF Acts, ClientTyped, Attempting, life, IdleSteps, OpenSteps, Here
<1>9. Conveys(t, r)
  BY <1>1, <1>5 DEF Conveys, CarrierSteps
<1>10. Aligns(t, r)
  BY <1>1, <1>2, <1>5 DEF Aligns, Aligned, OpenSteps, ThreadFits
<1>11. Completes(t, r)
  BY <1>1, <1>2, <1>3, <1>5 DEF Completes, Complete
<1> QED
  BY <1>5, <1>7, <1>8, <1>9, <1>10, <1>11 DEF Does

\* The steps that take a server along, or leave one that was taken.
LEMMA ConnectingDoes ==
  ASSUME FailoverBase, NEW t \in AllThreads,
         setupChannel(t) \/ AssignChannel(t) \/ WaitForConnected(t) \/ ChannelOpens(t) \/ NewStub(t)
  PROVE  \E r : Does(t, r)
<1>1. /\ ThreadFits(thread[t]) /\ ClientTyped /\ (connected => watching)
      /\ UNCHANGED <<world, watching, known, current, stub, connected, tries, life>>
      /\ thread[t] \in ThreadRecords
  BY DEF setupChannel, AssignChannel, WaitForConnected, ChannelOpens, NewStub, client, FailoverBase, ClientTyped
<1>2. PICK o \in ThreadRecords : o = thread[t]
  BY <1>1
<1>3. PICK s \in Here, a \in OpenSteps :
        /\ Takes(t, s, a)
        /\ \/ o.at = "opens" /\ a = "assigns" /\ s = current /\ channel' = channel
           \/ o.at = "assigns" /\ a = "loads" /\ channel' = o.to
           \/ o.at = "loads" /\ a = "waits" /\ s = channel /\ channel' = channel
           \/ o.at = "waits" /\ a = "stubs" /\ channel' = channel
           \/ o.at = "stubs" /\ a = "keeps" /\ s = channel /\ channel' = channel
  <2>1. current \in Here /\ channel \in Here /\ NoServer \in Here
    BY <1>1 DEF ClientTyped, Here
  <2>2. CASE setupChannel(t)
    <3>1. Takes(t, current, "assigns") /\ o.at = "opens" /\ channel' = channel
      BY <1>2, <2>2 DEF setupChannel, At, client
    <3> QED
      BY <2>1, <3>1, "assigns" \in OpenSteps DEF OpenSteps
  <2>3. CASE AssignChannel(t)
    <3>1. Takes(t, NoServer, "loads") /\ o.at = "assigns" /\ channel' = o.to
      BY <1>2, <2>3 DEF AssignChannel, At, Goes
    <3> QED
      BY <2>1, <3>1, "loads" \in OpenSteps DEF OpenSteps
  <2>4. CASE WaitForConnected(t)
    <3>1. Takes(t, channel, "waits") /\ o.at = "loads" /\ channel' = channel
      BY <1>2, <2>4 DEF WaitForConnected, At, client
    <3> QED
      BY <2>1, <3>1, "waits" \in OpenSteps DEF OpenSteps
  <2>5. CASE ChannelOpens(t)
    <3>1. Takes(t, NoServer, "stubs") /\ o.at = "waits" /\ channel' = channel
      BY <1>2, <2>5 DEF ChannelOpens, At, client, Goes
    <3> QED
      BY <2>1, <3>1, "stubs" \in OpenSteps DEF OpenSteps
  <2>6. CASE NewStub(t)
    <3>1. Takes(t, channel, "keeps") /\ o.at = "stubs" /\ channel' = channel
      BY <1>2, <2>6 DEF NewStub, At, client
    <3> QED
      BY <2>1, <3>1, "keeps" \in OpenSteps DEF OpenSteps
  <2> QED
    BY <2>2, <2>3, <2>4, <2>5, <2>6
<1>4. a \in FailoverSteps
  BY <1>3 DEF OpenSteps, FailoverSteps
<1>5. PICK r \in ThreadRecords :
        /\ thread' = [thread EXCEPT ![t] = r] /\ r.at = a /\ r.to = s
        /\ r.kind = o.kind /\ r.view = o.view /\ r.left = o.left
  BY <1>2, <1>3, <1>4, TakesStep
<1>6. o.at \in OpenSteps /\ channel' \in Here
  BY <1>1, <1>2, <1>3 DEF OpenSteps, ClientTyped, ThreadRecords
<1>7. ThreadFits(r)'
  BY <1>1, <1>2, <1>3, <1>5, <1>6 DEF ThreadFits, OpenSteps
<1>8. Acts(t, r)
  BY <1>1, <1>2, <1>3, <1>5, <1>6 DEF Acts, ClientTyped, Attempting, life, IdleSteps, OpenSteps
<1>9. Conveys(t, r)
  BY <1>1, <1>2, <1>3, <1>5 DEF Conveys, CarrierSteps
<1>10. Aligns(t, r)
  BY <1>1, <1>2, <1>3, <1>5, <1>6 DEF Aligns, Aligned
<1>11. Completes(t, r)
  BY <1>1, <1>2, <1>3, <1>5 DEF Completes, Complete
<1> QED
  BY <1>5, <1>7, <1>8, <1>9, <1>10, <1>11 DEF Does

LEMMA KeepStubDoes ==
  ASSUME FailoverBase, NEW t \in AllThreads, KeepStub(t)
  PROVE  \E r : Does(t, r)
<1>1. /\ thread[t].at = "keeps" /\ stub' = thread[t].to /\ Connects(t) /\ tries' = 0
      /\ UNCHANGED <<world, watching, known, current, channel, agent, connects>>
      /\ ThreadFits(thread[t]) /\ ClientTyped /\ watching
      /\ thread[t] \in ThreadRecords
  BY DEF KeepStub, Connects, At, FailoverBase, ClientTyped, ThreadFits, OpenSteps
<1>2. stub' \in Here
  BY <1>1 DEF ThreadRecords
<1>3. CASE Direct(t)
  <2>1. Ends(t, TRUE) /\ connected' = Online(t, TRUE) /\ connected' \in BOOLEAN
    BY <1>1, <1>3 DEF Connects, Online
  <2>2. known' \in [Servers -> Healths] /\ Known(known') = Known(known) /\ tries' \in {tries, 0}
    BY <1>1 DEF ClientTyped
  <2>3. thread[t].at \notin IdleSteps \cup CarrierSteps
    BY <1>1 DEF IdleSteps, CarrierSteps
  <2>4. Aligned(thread[t]) => (connected' => stub' = current)
    BY <1>1 DEF Aligned
  <2>5. UNCHANGED <<world, watching, current, channel, agent, connects>>
    BY <1>1
  <2> QED
    BY <1>1, <1>2, <2>1, <2>2, <2>3, <2>4, <2>5, EndsDoes
<1>4. CASE ~Direct(t)
  <2>1. connected' = TRUE /\ beating' = beating
    BY <1>1, <1>4 DEF Connects
  <2>2. PICK r : r = [Free EXCEPT !.at = "marks", !.kind = thread[t].kind]
    OBVIOUS
  <2>3. /\ r \in ThreadRecords /\ r.at = "marks" /\ r.kind = thread[t].kind
        /\ thread' = [thread EXCEPT ![t] = r]
    BY <1>1, <1>4, <2>2, FreeFits DEF ThreadRecords, FailoverSteps, Connects
  <2>4. ThreadFits(r)'
    BY <1>1, <2>3 DEF ThreadFits, OpenSteps
  <2>5. Acts(t, r)
    BY <1>1, <1>2, <2>1, <2>3 DEF Acts, ClientTyped, Attempting, IdleSteps, OpenSteps
  <2>6. Conveys(t, r)
    BY <1>1, <2>3 DEF Conveys, CarrierSteps
  <2>7. Aligns(t, r)
    BY <1>1, <2>3 DEF Aligns, Aligned
  <2>8. Completes(t, r)
    BY <2>3 DEF Completes, Complete
  <2> QED
    BY <2>3, <2>4, <2>5, <2>6, <2>7, <2>8 DEF Does
<1> QED
  BY <1>3, <1>4

LEMMA ChannelFailsDoes ==
  ASSUME FailoverBase, NEW t \in AllThreads, ChannelFails(t)
  PROVE  \E r : Does(t, r)
<1>1. /\ thread[t].at = "waits" /\ thread[t].to \notin up
      /\ UNCHANGED <<world, watching, known, current, channel, stub, agent, connects>>
      /\ ThreadFits(thread[t]) /\ ClientTyped /\ watching
  BY DEF ChannelFails, At, FailoverBase, ThreadFits, OpenSteps
<1>2. CASE Direct(t)
  <2>1. Ends(t, FALSE) /\ connected' = Online(t, connected) /\ tries' = tries + 1
    BY <1>2 DEF ChannelFails
  <2>2. connected' \in BOOLEAN /\ (connected' => connected) /\ stub' \in Here /\ stub' = stub
    BY <1>1, <2>1 DEF Online, ClientTyped
  <2>3. known' \in [Servers -> Healths] /\ Known(known') = Known(known)
    BY <1>1 DEF ClientTyped
  <2>4. thread[t].at \notin IdleSteps \cup CarrierSteps
    BY <1>1 DEF IdleSteps, CarrierSteps
  <2>5. Attempting(thread[t])
    BY <1>1, <1>2 DEF Attempting, OpenSteps, ThreadFits, Direct
  <2>6. Aligned(thread[t]) => (connected' => stub' = current)
    BY <1>2, <2>2 DEF Aligned, Direct
  <2>7. UNCHANGED <<world, watching, current, channel, agent, connects>>
    BY <1>1
  <2> QED
    BY <1>1, <2>1, <2>2, <2>3, <2>4, <2>5, <2>6, <2>7, EndsDoes
<1>3. CASE ~Direct(t)
  <2>1. Takes(t, NoServer, "next") /\ connected' = FALSE /\ UNCHANGED <<tries, beating>>
    BY <1>3 DEF ChannelFails, Goes
  <2>2. NoServer \in Here /\ "next" \in FailoverSteps
    BY DEF Here, FailoverSteps
  <2>3. PICK r \in ThreadRecords :
          /\ thread' = [thread EXCEPT ![t] = r] /\ r.at = "next" /\ r.kind = thread[t].kind
          /\ r.view = thread[t].view /\ r.left = thread[t].left
    BY <2>1, <2>2, TakesStep
  <2>4. ThreadFits(r)'
    BY <1>1, <1>3, <2>3 DEF ThreadFits, OpenSteps, Direct
  <2>5. Acts(t, r)
    BY <1>1, <2>1, <2>3 DEF Acts, ClientTyped, Attempting, IdleSteps, OpenSteps
  <2>6. Conveys(t, r)
    BY <1>1, <2>3 DEF Conveys, CarrierSteps
  <2>7. Aligns(t, r)
    BY <2>1, <2>3 DEF Aligns, Aligned
  <2>8. Completes(t, r)
    BY <1>1, <2>3 DEF Completes, Complete
  <2> QED
    BY <2>3, <2>4, <2>5, <2>6, <2>7, <2>8 DEF Does
<1> QED
  BY <1>2, <1>3

LEMMA MarkConnectedDoes ==
  ASSUME FailoverBase, NEW t \in AllThreads, MarkConnected(t)
  PROVE  \E r : Does(t, r)
<1>1. /\ thread[t].at = "marks" /\ Ends(t, TRUE) /\ connected' = Online(t, connected)
      /\ UNCHANGED <<world, watching, current, channel, stub, tries, agent, connects>>
      /\ known' = [s \in Servers |-> IF s = current /\ known[s] # "absent" THEN "healthy" ELSE known[s]]
      /\ ThreadFits(thread[t]) /\ ClientTyped
  BY DEF MarkConnected, At, FailoverBase
<1>2. connected' \in BOOLEAN /\ (connected' => connected) /\ stub' \in Here /\ stub' = stub
  BY <1>1 DEF Online, ClientTyped
<1>3. known' \in [Servers -> Healths] /\ Known(known') = Known(known) /\ tries' \in {tries, 0}
  BY <1>1 DEF ClientTyped, Healths, Known
<1>4. thread[t].at \notin IdleSteps \cup CarrierSteps /\ watching
  BY <1>1 DEF IdleSteps, CarrierSteps, ThreadFits
<1>5. Aligned(thread[t]) => (connected' => stub' = current)
  BY <1>1, <1>2 DEF Aligned, OpenSteps
<1>6. UNCHANGED <<world, watching, current, channel, agent, connects>>
  BY <1>1
<1> QED
  BY <1>1, <1>2, <1>3, <1>4, <1>5, <1>6, EndsDoes

LEMMA discoverServicesDoes ==
  ASSUME FailoverBase, NEW t \in AllThreads, discoverServices(t)
  PROVE  \E r : Does(t, r)
<1>1. /\ thread[t].at = "discover" /\ UNCHANGED <<world, client, life>>
      /\ ThreadFits(thread[t]) /\ ClientTyped /\ (connected => watching)
  BY DEF discoverServices, At, FailoverBase
<1>2. PICK o \in ThreadRecords : o = thread[t]
  BY <1>1 DEF ClientTyped
<1>3. PICK r : r = IF registered = {} THEN Free ELSE [o EXCEPT !.at = "assign", !.view = Of(registered)]
  OBVIOUS
<1>4. /\ r \in ThreadRecords
      /\ r.at = "free" \/ (r.at = "assign" /\ r.kind = o.kind /\ r.view = Of(registered) /\ registered # {})
  BY <1>3, ViewsTyped, FreeFits DEF ThreadRecords, FailoverSteps
<1>5. thread' = [thread EXCEPT ![t] = r]
  BY <1>1, <1>2, <1>3 DEF discoverServices, ClientTyped
<1>6. Known(Of(registered)) = registered
  BY <1>1, ViewsTyped DEF ClientTyped
<1>7. ThreadFits(r)'
  BY <1>1, <1>2, <1>4, <1>6 DEF ThreadFits, OpenSteps
<1>8. Acts(t, r)
  BY <1>1, <1>2, <1>4, <1>5 DEF Acts, ClientTyped, Attempting, client, life, IdleSteps, OpenSteps
<1>9. Conveys(t, r)
  BY <1>1, <1>4, <1>6 DEF Conveys, CarrierSteps, client
<1>10. Aligns(t, r)
  BY <1>1, <1>4 DEF Aligns, Aligned, client, OpenSteps
<1>11. Completes(t, r)
  BY <1>1, <1>2, <1>4 DEF Completes, Complete, ThreadFits
<1> QED
  BY <1>4, <1>7, <1>8, <1>9, <1>10, <1>11 DEF Does

LEMMA AssignEndpointsDoes ==
  ASSUME FailoverBase, NEW t \in AllThreads, AssignEndpoints(t)
  PROVE  \E r : Does(t, r)
<1>1. /\ thread[t].at = "assign" /\ known' = thread[t].view
      /\ UNCHANGED <<world, watching, current, channel, stub, connected, tries, life>>
      /\ ThreadFits(thread[t]) /\ ClientTyped /\ (connected => watching)
  BY DEF AssignEndpoints, At, FailoverBase
<1>2. PICK o \in ThreadRecords : o = thread[t]
  BY <1>1 DEF ClientTyped
<1>3. PICK s \in Known(o.view) : thread' = [thread EXCEPT ![t].at = "watch", ![t].left = {s}]
  BY <1>2 DEF AssignEndpoints
<1>4. PICK r : r = [o EXCEPT !.at = "watch", !.left = {s}]
  OBVIOUS
<1>5. {s} \in SUBSET Servers
  BY <1>3 DEF Known
<1>6. /\ r \in ThreadRecords /\ r.at = "watch" /\ r.kind = o.kind /\ r.view = o.view
  BY <1>4, <1>5 DEF ThreadRecords, FailoverSteps
<1>7. thread' = [thread EXCEPT ![t] = r]
  BY <1>1, <1>2, <1>3, <1>4 DEF ClientTyped
<1>8. ThreadFits(r)'
  BY <1>1, <1>2, <1>6 DEF ThreadFits, OpenSteps
<1>9. known' \in [Servers -> Healths]
  BY <1>1, <1>2 DEF ThreadRecords
<1>10. Acts(t, r)
  BY <1>1, <1>2, <1>6, <1>7, <1>9 DEF Acts, ClientTyped, Attempting, life, IdleSteps, OpenSteps
<1>11. Conveys(t, r)
  BY <1>1, <1>6 DEF Conveys, CarrierSteps
<1>12. Aligns(t, r)
  BY <1>1, <1>6 DEF Aligns, Aligned, OpenSteps
<1>13. Completes(t, r)
  BY <1>6 DEF Completes, Complete
<1> QED
  BY <1>6, <1>8, <1>10, <1>11, <1>12, <1>13 DEF Does

LEMMA watchServicesDoes ==
  ASSUME FailoverBase, NEW t \in AllThreads, watchServices(t)
  PROVE  \E r : Does(t, r)
<1>1. /\ thread[t].at = "watch" /\ watching' = TRUE /\ Takes(t, NoServer, "next")
      /\ UNCHANGED <<world, known, current, channel, stub, connected, tries, life>>
      /\ ThreadFits(thread[t]) /\ ClientTyped
  BY DEF watchServices, At, FailoverBase, Goes
<1>2. NoServer \in Here /\ "next" \in FailoverSteps
  BY DEF Here, FailoverSteps
<1>3. PICK r \in ThreadRecords :
        /\ thread' = [thread EXCEPT ![t] = r] /\ r.at = "next" /\ r.kind = thread[t].kind
        /\ r.view = thread[t].view
  BY <1>1, <1>2, TakesStep
<1>4. ThreadFits(r)'
  BY <1>1, <1>3 DEF ThreadFits, OpenSteps
<1>5. Acts(t, r)
  BY <1>1, <1>3 DEF Acts, ClientTyped, Attempting, life, IdleSteps, OpenSteps, ThreadFits
<1>6. Conveys(t, r)
  BY <1>1, <1>3 DEF Conveys, CarrierSteps
<1>7. Aligns(t, r)
  BY <1>1, <1>3 DEF Aligns, Aligned, OpenSteps
<1>8. Completes(t, r)
  BY <1>1, <1>3 DEF Completes, Complete, ThreadFits
<1> QED
  BY <1>3, <1>4, <1>5, <1>6, <1>7, <1>8 DEF Does
------------------------------------------------------------------------------
(* ClientFailover: what holds of all threads. *)

\* Attempts are counted when they end, the limit is checked when they begin.
Going == {t \in AllThreads : Attempting(thread[t])}
TriesFit == tries + Cardinality(Going) <= MaxTries + Cardinality(Callers)

\* Unless rivals left something behind, the only busy thread works on the current endpoint.
Lone ==
  ~crossed =>
    /\ \A t, u \in Busy : t = u
    /\ \A t \in AllThreads : t \in Busy \/ Busy = {} => Aligned(thread[t])

\* Unless views of the registry overtook each other, the only one brings what it has.
Single ==
  /\ \A m, n \in Notices : m = n
  /\ \A t, u \in Carriers : t = u
  /\ Notices = {} \/ Carriers = {}
Straight ==
  ~outrun =>
    /\ Single
    /\ \A s \in Notices : notice[s].snapshot = registered
    /\ \A t \in AllThreads : ViewFits(thread[t])
    /\ watching /\ Notices = {} /\ Carriers = {} => Known(known) = registered

\* While nothing disturbs an attempt, it has left out no server that was always up.
Watched ==
  live # {} =>
    /\ \A t, u \in Busy : t = u
    /\ ~outrun /\ Notices = {} /\ live \subseteq up
    /\ \A t \in Busy : Complete(thread[t])

FailoverInv == FailoverBase /\ TriesFit /\ Lone /\ Straight /\ Watched

\* What FailoverNext does to the variables that only the model has.
History ==
  /\ crossed' = (Several(Busy') \/ (crossed /\ ~\E t \in AllThreads : At(t, "next") /\ At(t, "opens")'))
  /\ outrun' = (Several(Views') \/ (outrun /\ ~(Views = {} /\ Views' # {} /\ ~Healing')))
  /\ live' = IF Several(Busy') \/ outrun' \/ Notices' # {} \/ Busy' = {} THEN {}
             ELSE IF \E t \in AllThreads : At(t, "reconnect")' THEN up' ELSE live \cap up'

LEMMA ThreadsFinite ==
  /\ IsFiniteSet(AllThreads) /\ Cardinality(Callers) \in Nat
  /\ Cardinality(AllThreads) <= Cardinality(Callers) + 1
  /\ \A B \in SUBSET AllThreads :
       IsFiniteSet(B) /\ Cardinality(B) \in Nat /\ Cardinality(B) <= Cardinality(AllThreads)
<1>1. Cardinality(Callers) \in Nat
  BY FailoverFinite, FS_CardinalityType
<1>2. IsFiniteSet(AllThreads) /\ Cardinality(AllThreads) <= Cardinality(Callers) + 1
  <2>1. \A S, x : IsFiniteSet(S) =>
          /\ IsFiniteSet(S \cup {x})
          /\ Cardinality(S \cup {x}) = IF x \in S THEN Cardinality(S) ELSE Cardinality(S) + 1
    BY FS_AddElement
  <2>2. /\ IsFiniteSet(AllThreads)
        /\ Cardinality(AllThreads) = IF "heartbeat" \in Callers THEN Cardinality(Callers)
                                      ELSE Cardinality(Callers) + 1
    BY <2>1, FailoverFinite DEF AllThreads
  <2> QED
    BY <1>1, <2>2
<1>3. \A B \in SUBSET AllThreads : IsFiniteSet(B) /\ Cardinality(B) <= Cardinality(AllThreads)
  BY <1>2, FS_Subset
<1>4. \A S : IsFiniteSet(S) => Cardinality(S) \in Nat
  BY FS_CardinalityType
<1> QED
  BY <1>1, <1>2, <1>3, <1>4

\* The views that are on their way, as notices and as threads that carry one.
LEMMA ViewsAre ==
  /\ Views = {} <=> Notices = {} /\ Carriers = {}
  /\ ~Several(Views) => Single
  /\ \A t \in AllThreads : t \in Carriers <=> thread[t].at \in CarrierSteps
<1>1. \A s \in Notices : <<"notice", s>> \in Views
  BY DEF Views
<1>2. \A t \in Carriers : <<"thread", t>> \in Views
  BY DEF Views
<1>3. \A v \in Views : (\E s \in Notices : v = <<"notice", s>>) \/ (\E t \in Carriers : v = <<"thread", t>>)
  BY DEF Views
<1>4. \A s, t : /\ <<"notice", s>> # <<"thread", t>>
                /\ <<"notice", s>> = <<"notice", t>> => s = t
                /\ <<"thread", s>> = <<"thread", t>> => s = t
  OBVIOUS
<1>5. ASSUME ~Several(Views) PROVE Single
  <2>1. \A v, w \in Views : v = w
    BY <1>5 DEF Several
  <2>2. (\A m, n \in Notices : m = n) /\ (\A t, u \in Carriers : t = u)
    BY <1>1, <1>2, <1>4, <2>1
  <2>3. ASSUME NEW m \in Notices, NEW t \in Carriers PROVE FALSE
    BY <1>1, <1>2, <1>4, <2>1, <2>3
  <2> QED
    BY <2>2, <2>3 DEF Single
<1>6. \A t \in AllThreads : t \in Carriers <=> thread[t].at \in CarrierSteps
  BY DEF Carriers, CarrierSteps
<1> QED
  BY <1>1, <1>2, <1>3, <1>5, <1>6

\* The busy threads and what history says of them.
LEMMA HistorySays ==
  ASSUME History
  PROVE  /\ ~crossed' => \A t, u \in Busy' : t = u
         /\ ~crossed' /\ crossed =>
              \E t \in AllThreads : thread[t].at = "next" /\ thread'[t].at = "opens"
         /\ ~outrun' => Single'
         /\ ~outrun' /\ outrun => Views = {} /\ Views' # {} /\ ~Healing'
         /\ live' # {} =>
              /\ \A t, u \in Busy' : t = u
              /\ ~outrun' /\ Notices' = {}
              /\ \/ live' = up' /\ \E t \in AllThreads : thread'[t].at = "reconnect"
                 \/ live' = live \cap up'
<1>1. ~Several(Busy') => \A t, u \in Busy' : t = u
  BY DEF Several
<1>2. ~Several(Views') => Single'
  <2>1. (~Several(Views) => Single)'
    BY ViewsAre, PTL
  <2>2. Several(Views)' <=> Several(Views')
    BY DEF Several
  <2> QED
    BY <2>1, <2>2
<1> QED
  BY <1>1, <1>2 DEF History, At

LEMMA HistoryTyped ==
  ASSUME FailoverBase, History, up' \subseteq Servers
  PROVE  live' \subseteq Servers /\ crossed' \in BOOLEAN /\ outrun' \in BOOLEAN
BY DEF History, FailoverBase, ClientTyped
------------------------------------------------------------------------------
(* ClientFailover: the steps of threads. *)

LEMMA DoesTyped ==
  ASSUME FailoverBase, History, NEW t \in AllThreads, NEW r, Does(t, r)
  PROVE  /\ FailoverBase'
         /\ thread'[t] = r /\ \A u \in AllThreads : u # t => thread'[u] = thread[u]
<1>1. ClientTyped /\ Acts(t, r) /\ ThreadFits(r)' /\ r \in ThreadRecords
  BY DEF FailoverBase, Does
<1>2. /\ thread' \in [AllThreads -> ThreadRecords] /\ thread'[t] = r
      /\ \A u \in AllThreads : u # t => thread'[u] = thread[u]
      /\ \A u \in AllThreads : ThreadFits(thread[u])'
  <2>1. thread' = [thread EXCEPT ![t] = r] /\ (watching => watching')
    BY <1>1 DEF Acts
  <2> QED
    BY <1>1, <2>1, ThreadStep
<1>3. live' \subseteq Servers /\ crossed' \in BOOLEAN /\ outrun' \in BOOLEAN
  BY <1>1, HistoryTyped DEF Acts, world, ClientTyped
<1>4. tries' \in Nat
  BY <1>1 DEF Acts, ClientTyped
<1>5. ClientTyped'
  BY <1>1, <1>2, <1>3, <1>4 DEF ClientTyped, Acts, world
<1> QED
  BY <1>1, <1>2, <1>5 DEF FailoverBase, Acts

LEMMA DoesTries ==
  ASSUME FailoverBase, TriesFit, NEW t \in AllThreads, NEW r, Does(t, r)
  PROVE  TriesFit'
<1>1. /\ tries \in Nat /\ thread \in [AllThreads -> ThreadRecords]
      /\ MaxTries \in Nat /\ Acts(t, r)
  BY FailoverBounds DEF FailoverBase, ClientTyped, Does
<1>2. PICK G : G = Going
  OBVIOUS
<1>3. PICK H : H = Going'
  OBVIOUS
<1>4. G \in SUBSET AllThreads /\ H \in SUBSET AllThreads
  BY <1>2, <1>3 DEF Going
<1>5. /\ Cardinality(G) \in Nat /\ Cardinality(H) \in Nat /\ IsFiniteSet(G)
      /\ Cardinality(H) <= Cardinality(Callers) + 1 /\ Cardinality(Callers) \in Nat
  <2>1. /\ Cardinality(G) \in Nat /\ Cardinality(H) \in Nat /\ IsFiniteSet(G)
        /\ Cardinality(H) <= Cardinality(AllThreads)
    BY <1>4, ThreadsFinite
  <2>2. /\ Cardinality(AllThreads) \in Nat /\ Cardinality(Callers) \in Nat
        /\ Cardinality(AllThreads) <= Cardinality(Callers) + 1
    BY ThreadsFinite
  <2> QED
    BY <2>1, <2>2
<1>6. tries + Cardinality(G) <= MaxTries + Cardinality(Callers)
  BY <1>2 DEF TriesFit
<1>7. H = IF Attempting(r) THEN G \cup {t} ELSE G \ {t}
  <2>1. thread'[t] = r /\ \A u \in AllThreads : u # t => thread'[u] = thread[u]
    BY <1>1 DEF Acts
  <2>2. /\ G = {u \in AllThreads : Attempting(thread[u])}
        /\ H = {u \in AllThreads : Attempting(thread'[u])}
    BY <1>2, <1>3 DEF Going, Attempting
  <2> QED
    BY <2>1, <2>2
<1>8. t \in G <=> Attempting(thread[t])
  BY <1>2 DEF Going
<1>9. /\ Attempting(r) /\ ~Attempting(thread[t]) => tries < MaxTries /\ tries' = tries
      /\ tries' \in {tries, 0} \/ (tries' = tries + 1 /\ Attempting(thread[t]) /\ ~Attempting(r))
  BY <1>1 DEF Acts
<1>10. tries' + Cardinality(H) <= MaxTries + Cardinality(Callers)
  <2>1. CASE Attempting(r) /\ ~Attempting(thread[t])
    BY <1>1, <1>5, <1>9, <2>1
  <2>2. CASE Attempting(r) /\ Attempting(thread[t])
    <3>1. H = G
      BY <1>7, <1>8, <2>2
    <3> QED
      BY <1>1, <1>5, <1>6, <1>9, <2>2, <3>1
  <2>3. CASE ~Attempting(r) /\ Attempting(thread[t])
    <3>1. Cardinality(H) = Cardinality(G) - 1
      BY <1>5, <1>7, <1>8, <2>3, FS_RemoveElement
    <3> QED
      BY <1>1, <1>5, <1>6, <1>9, <3>1
  <2>4. CASE ~Attempting(r) /\ ~Attempting(thread[t])
    <3>1. H = G
      BY <1>7, <1>8, <2>4
    <3> QED
      BY <1>1, <1>5, <1>6, <1>9, <2>4, <3>1
  <2> QED
    BY <2>1, <2>2, <2>3, <2>4
<1> QED
  BY <1>3, <1>10 DEF TriesFit

\* The thread works on the current endpoint, or chose it in this step; it had no rival,
\* or has none any more.
LEMMA DoesLone ==
  ASSUME FailoverBase, Lone, History, NEW t \in AllThreads, NEW r, Does(t, r)
  PROVE  Lone'
<1> SUFFICES ASSUME ~crossed' PROVE Lone'
  BY DEF Lone
<1>1. /\ \A u, v \in Busy' : u = v
      /\ crossed => \E u \in AllThreads : thread[u].at = "next" /\ thread'[u].at = "opens"
  BY HistorySays
<1>2. thread'[t] = r /\ \A u \in AllThreads : u # t => thread'[u] = thread[u]
  BY DoesTyped
<1>3. /\ \A u \in AllThreads : u \in Busy <=> thread[u].at \notin IdleSteps
      /\ \A u \in AllThreads : u \in Busy' <=> thread'[u].at \notin IdleSteps
      /\ Busy \subseteq AllThreads /\ Busy' \subseteq AllThreads
  BY DEF Busy, IdleSteps
<1>4. /\ Aligns(t, r) /\ Acts(t, r)
      /\ t \notin Busy => UNCHANGED <<known, current, channel, stub, connected, watching>>
  BY <1>3 DEF Does, Acts
<1>5. SUFFICES ASSUME NEW u \in AllThreads, u \in Busy' \/ Busy' = {}
               PROVE  Aligned(thread[u])'
  BY <1>1 DEF Lone
<1>6. Aligned(r)' => Aligned(thread[t])'
  BY <1>2 DEF Aligned
<1>7. CASE crossed
  <2>1. thread[t].at = "next" /\ r.at = "opens"
    BY <1>1, <1>2, <1>7
  <2>2. t \in Busy'
    BY <1>2, <1>3, <2>1 DEF IdleSteps
  <2>3. u = t
    BY <1>1, <1>5, <2>2
  <2> QED
    BY <1>4, <1>6, <2>1, <2>3 DEF Aligns
<1>8. CASE ~crossed
  <2>1. /\ \A v, w \in Busy : v = w
        /\ \A v \in AllThreads : v \in Busy \/ Busy = {} => Aligned(thread[v])
    BY <1>8 DEF Lone
  <2>2. CASE t \in Busy
    <3>1. Aligned(r)'
      BY <1>4, <2>1, <2>2 DEF Aligns
    <3>2. CASE u = t
      BY <1>6, <3>1, <3>2
    <3>3. CASE u # t
      <4>1. u \notin Busy /\ thread'[u] = thread[u]
        BY <1>2, <2>1, <2>2, <3>3
      <4>2. Busy' = {} /\ thread'[u].at \in IdleSteps
        BY <1>3, <1>5, <4>1
      <4>3. r.at \in IdleSteps
        BY <1>2, <1>3, <4>2
      <4>4. connected' => stub' = current'
        BY <3>1, <4>3 DEF Aligned, IdleSteps, OpenSteps
      <4> QED
        BY <4>2, <4>4 DEF Aligned, IdleSteps, OpenSteps
    <3> QED
      BY <3>2, <3>3
  <2>3. CASE t \notin Busy
    <3>1. CASE u = t
      <4>1. Busy = {}
        BY <1>1, <1>2, <1>3, <1>5, <2>3, <3>1
      <4> QED
        BY <1>4, <1>6, <2>1, <3>1, <4>1 DEF Aligns
    <3>2. CASE u # t
      <4>1. u \in Busy \/ Busy = {}
        BY <1>2, <1>3, <1>5, <2>3, <3>2
      <4>2. Aligned(thread[u]) /\ thread'[u] = thread[u]
        BY <1>2, <2>1, <3>2, <4>1
      <4> QED
        BY <1>4, <2>3, <4>2 DEF Aligned
    <3> QED
      BY <3>1, <3>2
  <2> QED
    BY <2>2, <2>3
<1> QED
  BY <1>7, <1>8

\* The thread leaves the views alone, takes the only one or brings the only one.
LEMMA DoesStraight ==
  ASSUME FailoverBase, Straight, History, NEW t \in AllThreads, NEW r, Does(t, r)
  PROVE  Straight'
<1> SUFFICES ASSUME ~outrun' PROVE Straight'
  BY DEF Straight
<1>1. /\ Single' /\ (outrun => Views = {} /\ Views' # {} /\ ~Healing')
  BY HistorySays
<1>2. thread'[t] = r /\ \A u \in AllThreads : u # t => thread'[u] = thread[u]
  BY DoesTyped
<1>3. Conveys(t, r) /\ notice' = notice /\ registered' = registered
  BY DEF Does, Acts, world
<1>4. Notices' = Notices
  BY <1>3 DEF Notices
<1>5. /\ \A u \in AllThreads : u \in Carriers <=> thread[u].at \in CarrierSteps
      /\ \A u \in AllThreads : u \in Carriers' <=> thread'[u].at \in CarrierSteps
      /\ Carriers \subseteq AllThreads /\ Carriers' \subseteq AllThreads
  BY DEF Carriers, CarrierSteps
<1>6. (Views = {} <=> Notices = {} /\ Carriers = {}) /\ (Views = {} <=> Notices = {} /\ Carriers = {})'
  BY ViewsAre, PTL
<1>7. Known(known)' = Known(known')
  BY DEF Known
<1>8. \A u \in AllThreads : u \notin Carriers' => ViewFits(thread[u])'
  BY <1>5 DEF ViewFits, CarrierSteps
<1>9. ~outrun =>
        /\ Single
        /\ \A s \in Notices : notice[s].snapshot = registered
        /\ \A u \in AllThreads : ViewFits(thread[u])
        /\ watching /\ Notices = {} /\ Carriers = {} => Known(known) = registered
  BY DEF Straight
<1>10. CASE t \notin Carriers /\ t \notin Carriers'
  <2>1. Carriers' = Carriers
    BY <1>2, <1>5, <1>10
  <2>2. ~outrun
    BY <1>1, <1>4, <1>6, <2>1
  <2>3. Known(known') = Known(known) /\ watching' = watching
    BY <1>3, <1>5, <1>10 DEF Conveys
  <2>4. \A u \in AllThreads : ViewFits(thread[u])'
    <3> SUFFICES ASSUME NEW u \in AllThreads, u \in Carriers'
                 PROVE  ViewFits(thread[u])'
      BY <1>8
    <3>1. thread'[u] = thread[u] /\ ViewFits(thread[u])
      BY <1>2, <1>9, <1>10, <2>2
    <3> QED
      BY <1>3, <1>7, <2>3, <3>1 DEF ViewFits
  <2>5. \A s \in Notices' : notice'[s].snapshot = registered'
    BY <1>3, <1>4, <1>9, <2>2
  <2>6. watching' /\ Notices' = {} /\ Carriers' = {} => Known(known)' = registered'
    BY <1>3, <1>4, <1>7, <1>9, <2>1, <2>2, <2>3
  <2> QED
    BY <1>1, <2>4, <2>5, <2>6 DEF Straight
<1>11. CASE t \notin Carriers /\ t \in Carriers'
  <2>1. Notices' = {} /\ \A u \in Carriers' : u = t
    BY <1>1, <1>11 DEF Single
  <2>2. Carriers = {}
    BY <1>2, <1>5, <1>11, <2>1
  <2>3. Known(known') = Known(known) /\ watching' = watching
    BY <1>3, <1>5, <1>11 DEF Conveys
  <2>4. r.at \in {"store", "assign", "heal"}
    BY <1>2, <1>3, <1>5, <1>11 DEF Conveys, CarrierSteps
  <2>5. Known(r.view) = registered
    <3>1. CASE r.at = "heal"
      <4>1. Healing'
        BY <1>2, <3>1 DEF Healing, At
      <4>2. ~outrun
        BY <1>1, <4>1
      <4>3. watching /\ Known(r.view) = Known(known)
        BY <1>3, <3>1 DEF Conveys
      <4> QED
        BY <1>4, <1>9, <2>1, <2>2, <4>2, <4>3
    <3>2. CASE r.at # "heal"
      BY <1>3, <2>4, <3>2 DEF Conveys
    <3> QED
      BY <3>1, <3>2
  <2>6. ViewFits(thread[t])'
    BY <1>2, <1>3, <2>4, <2>5 DEF ViewFits
  <2> QED
    BY <1>1, <1>8, <1>11, <2>1, <2>6 DEF Straight
<1>12. CASE t \in Carriers
  <2>1. ~outrun
    BY <1>1, <1>6, <1>12
  <2>2. Notices = {} /\ (\A u \in Carriers : u = t) /\ ViewFits(thread[t])
    BY <1>9, <1>12, <2>1 DEF Single
  <2>3. Known(known') = registered
    BY <1>3, <1>5, <1>12, <2>2 DEF Conveys, CarrierSteps, ViewFits
  <2>4. r.at \notin {"store", "assign", "heal"}
    BY <1>3, <1>5, <1>12 DEF Conveys
  <2>5. ViewFits(thread[t])'
    BY <1>2, <1>3, <1>7, <2>3, <2>4 DEF ViewFits
  <2>6. \A u \in AllThreads : ViewFits(thread[u])'
    BY <1>2, <1>5, <1>8, <2>2, <2>5
  <2>7. \A s \in Notices' : notice'[s].snapshot = registered'
    BY <1>4, <2>2
  <2> QED
    BY <1>1, <1>3, <1>7, <2>3, <2>6, <2>7 DEF Straight
<1> QED
  BY <1>10, <1>11, <1>12

LEMMA DoesWatched ==
  ASSUME FailoverBase, Straight, Watched, History, NEW t \in AllThreads, NEW r, Does(t, r)
  PROVE  Watched'
<1> SUFFICES ASSUME live' # {} PROVE Watched'
  BY DEF Watched
<1>1. /\ \A u, v \in Busy' : u = v
      /\ ~outrun' /\ Notices' = {}
      /\ \/ live' = up' /\ \E u \in AllThreads : thread'[u].at = "reconnect"
         \/ live' = live \cap up'
  BY HistorySays
<1>2. thread'[t] = r /\ \A u \in AllThreads : u # t => thread'[u] = thread[u]
  BY DoesTyped
<1>3. /\ \A u \in AllThreads : u \in Busy <=> thread[u].at \notin IdleSteps
      /\ \A u \in AllThreads : u \in Busy' <=> thread'[u].at \notin IdleSteps
      /\ Busy \subseteq AllThreads /\ Busy' \subseteq AllThreads
  BY DEF Busy, IdleSteps
<1>4. /\ Acts(t, r) /\ Completes(t, r) /\ up' = up /\ registered' = registered
      /\ t \notin Busy => UNCHANGED <<known, current, channel, stub, connected, watching>>
  BY <1>3 DEF Does, Acts, world
<1>5. live' \subseteq up'
  BY <1>1
<1>6. SUFFICES ASSUME NEW u \in Busy' PROVE Complete(thread[u])'
  BY <1>1, <1>5 DEF Watched
<1>7. CASE \E v \in AllThreads : thread'[v].at = "reconnect"
  <2>1. thread'[u].at = "reconnect"
    BY <1>1, <1>3, <1>6, <1>7 DEF IdleSteps
  <2> QED
    BY <2>1 DEF Complete
<1>8. CASE live' = live \cap up'
  <2>1. /\ \A v, w \in Busy : v = w
        /\ ~outrun /\ Notices = {} /\ live \subseteq up /\ live' \subseteq live
        /\ \A v \in Busy : Complete(thread[v])
    BY <1>8 DEF Watched
  <2>2. CASE u = t
    <3>1. Complete(thread[t])
      BY <1>3, <2>1 DEF Complete, IdleSteps
    <3>2. ASSUME thread[t].at = "sleeps" PROVE Known(known) = registered
      <4>1. t \in Busy
        BY <1>3, <3>2 DEF IdleSteps
      <4>2. \A v \in AllThreads : thread[v].at \notin CarrierSteps
        BY <1>3, <2>1, <3>2, <4>1 DEF IdleSteps, CarrierSteps
      <4>3. Carriers = {}
        BY <4>2 DEF Carriers, CarrierSteps
      <4>4. watching
        BY <3>2 DEF FailoverBase, ThreadFits
      <4> QED
        BY <2>1, <4>3, <4>4 DEF Straight
    <3>3. Complete(r)'
      BY <1>4, <2>1, <3>1, <3>2 DEF Completes
    <3> QED
      BY <1>2, <2>2, <3>3 DEF Complete
  <2>3. CASE u # t
    <3>1. u \in Busy /\ thread'[u] = thread[u]
      BY <1>2, <1>3, <1>6, <2>3
    <3>2. t \notin Busy /\ Complete(thread[u])
      BY <2>1, <2>3, <3>1
    <3>3. Of(registered)' = Of(registered)
      BY <1>4 DEF Of
    <3> QED
      BY <1>4, <2>1, <3>1, <3>2, <3>3 DEF Complete
  <2> QED
    BY <2>2, <2>3
<1> QED
  BY <1>1, <1>7, <1>8

LEMMA DoesKeep ==
  ASSUME FailoverInv, History, NEW t \in AllThreads, \E r : Does(t, r)
  PROVE  FailoverInv'
<1>1. PICK r : Does(t, r)
  OBVIOUS
<1>2. FailoverBase /\ TriesFit /\ Lone /\ Straight /\ Watched
  BY DEF FailoverInv
<1>3. FailoverBase'
  BY <1>1, <1>2, DoesTyped
<1>4. TriesFit'
  BY <1>1, <1>2, DoesTries
<1>5. Lone'
  BY <1>1, <1>2, DoesLone
<1>6. Straight'
  BY <1>1, <1>2, DoesStraight
<1>7. Watched'
  BY <1>1, <1>2, DoesWatched
<1> QED
  BY <1>3, <1>4, <1>5, <1>6, <1>7 DEF FailoverInv

\* Every step of a thread is one that the others can live with.
LEMMA ThreadsKeep ==
  ASSUME FailoverInv, History,
         \/ \E c \in Callers : sendMessage(c) \/ registerAgent(c) \/ connectViaRegistry(c)
         \/ heartbeatLoop
         \/ \E t \in AllThreads : \/ AskOverStub(t) \/ sendHeartbeat(t) \/ Answered(t) \/ Unanswered(t)
                                  \/ ReconnectStep(t)
  PROVE  FailoverInv'
<1>1. FailoverBase
  BY DEF FailoverInv
<1>2. Callers \subseteq AllThreads /\ "heartbeat" \in AllThreads
  BY DEF AllThreads
<1>3. ASSUME NEW t \in AllThreads, NEW kind \in {"call", "register", "beat"}, Ask(t, kind)
      PROVE  FailoverInv'
  BY <1>1, <1>3, AskDoes, DoesKeep
<1>4. ASSUME NEW t \in AllThreads, connectViaRegistry(t)
      PROVE  FailoverInv'
  BY <1>1, <1>4, connectViaRegistryDoes, DoesKeep
<1>5. ASSUME NEW t \in AllThreads, AskOverStub(t) \/ sendHeartbeat(t) \/ Answered(t) \/ Unanswered(t)
      PROVE  FailoverInv'
  BY <1>1, <1>5, AskOverStubDoes, sendHeartbeatDoes, AnsweredDoes, DoesKeep
<1>6. ASSUME NEW t \in AllThreads, ReconnectStep(t)
      PROVE  FailoverInv'
  <2>1. CASE handleTransportFailure(t)
    BY <1>1, <2>1, handleTransportFailureDoes, DoesKeep
  <2>2. CASE reconnect(t)
    BY <1>1, <2>2, reconnectDoes, DoesKeep
  <2>3. CASE Rediscover(t)
    BY <1>1, <2>3, RediscoverDoes, DoesKeep
  <2>4. CASE StoreDiscovered(t)
    BY <1>1, <2>4, StoreDiscoveredDoes, DoesKeep
  <2>5. CASE Snapshot(t)
    BY <1>1, <2>5, SnapshotDoes, DoesKeep
  <2>6. CASE Heal(t)
    BY <1>1, <2>6, HealDoes, DoesKeep
  <2>7. CASE SelectCandidates(t)
    BY <1>1, <2>7, SelectCandidatesDoes, DoesKeep
  <2>8. CASE GiveUp(t)
    BY <1>1, <2>8, GiveUpDoes, DoesKeep
  <2>9. CASE connectToEndpoint(t)
    BY <1>1, <2>9, connectToEndpointDoes, DoesKeep
  <2>10. CASE setupChannel(t) \/ AssignChannel(t) \/ WaitForConnected(t) \/ ChannelOpens(t) \/ NewStub(t)
    BY <1>1, <2>10, ConnectingDoes, DoesKeep
  <2>11. CASE KeepStub(t)
    BY <1>1, <2>11, KeepStubDoes, DoesKeep
  <2>12. CASE ChannelFails(t)
    BY <1>1, <2>12, ChannelFailsDoes, DoesKeep
  <2>13. CASE MarkConnected(t)
    BY <1>1, <2>13, MarkConnectedDoes, DoesKeep
  <2>14. CASE discoverServices(t)
    BY <1>1, <2>14, discoverServicesDoes, DoesKeep
  <2>15. CASE AssignEndpoints(t)
    BY <1>1, <2>15, AssignEndpointsDoes, DoesKeep
  <2>16. CASE watchServices(t)
    BY <1>1, <2>16, watchServicesDoes, DoesKeep
  <2> QED
    BY <1>6, <2>1, <2>2, <2>3, <2>4, <2>5, <2>6, <2>7, <2>8, <2>9, <2>10, <2>11, <2>12, <2>13,
       <2>14, <2>15, <2>16 DEF ReconnectStep
<1>7. ASSUME NEW c \in Callers, sendMessage(c) \/ registerAgent(c) \/ connectViaRegistry(c)
      PROVE  FailoverInv'
  BY <1>2, <1>3, <1>4, <1>7 DEF sendMessage, registerAgent
<1>8. ASSUME heartbeatLoop PROVE FailoverInv'
  BY <1>2, <1>3, <1>8 DEF heartbeatLoop
<1> QED
  BY <1>5, <1>6, <1>7, <1>8
------------------------------------------------------------------------------
(* ClientFailover: the steps of servers and of the registry. *)

\* They leave the threads alone, and all that the client keeps but its endpoints.
Beside ==
  /\ UNCHANGED <<watching, current, channel, stub, connected, tries, thread, life>>
  /\ up' \subseteq Servers /\ registered' \subseteq Servers
  /\ notice' \in [Servers -> Notifications] /\ known' \in [Servers -> Healths]
  /\ stops' \in 0..MaxStops /\ entries' \in 0..MaxEntries

LEMMA BesideKeeps ==
  ASSUME FailoverInv, History, Beside
  PROVE  FailoverBase' /\ TriesFit' /\ Lone' /\ Busy' = Busy /\ Carriers' = Carriers
<1>1. /\ thread' = thread /\ watching' = watching /\ channel' = channel /\ current' = current
      /\ stub' = stub /\ connected' = connected /\ tries' = tries
  BY DEF Beside
<1>2. FailoverBase /\ TriesFit /\ Lone
  BY DEF FailoverInv
<1>3. live' \subseteq Servers /\ crossed' \in BOOLEAN /\ outrun' \in BOOLEAN
  BY <1>2, HistoryTyped DEF Beside
<1>4. ClientTyped'
  BY <1>2, <1>3 DEF Beside, FailoverBase, ClientTyped, life
<1>5. \A t \in AllThreads : ThreadFits(thread[t])'
  BY <1>1, <1>2 DEF FailoverBase, ThreadFits
<1>6. TriesFit'
  BY <1>1, <1>2 DEF TriesFit, Going, Attempting
<1>7. Busy' = Busy /\ Carriers' = Carriers
  BY <1>1 DEF Busy, Carriers
<1>8. Lone'
  <2> SUFFICES ASSUME ~crossed' PROVE Lone'
    BY DEF Lone
  <2>1. ~crossed
    BY <1>1, HistorySays
  <2>2. \A t \in AllThreads : Aligned(thread[t]) => Aligned(thread[t])'
    BY <1>1 DEF Aligned
  <2> QED
    BY <1>2, <1>7, <2>1, <2>2 DEF Lone
<1> QED
  BY <1>1, <1>2, <1>4, <1>5, <1>6, <1>7, <1>8 DEF FailoverBase

\* A server starts or stops: only what was always up may shrink.
LEMMA ServersKeep ==
  ASSUME FailoverInv, History, NEW s \in Servers, ServerStarts(s) \/ ServerStops(s)
  PROVE  FailoverInv'
<1>1. FailoverBase /\ Straight /\ Watched
  BY DEF FailoverInv
<1>2. /\ UNCHANGED <<registered, notice, known, entries>>
      /\ UNCHANGED <<watching, current, channel, stub, connected, tries, thread, life>>
  BY DEF ServerStarts, ServerStops
<1>3. up' \subseteq Servers /\ stops' \in 0..MaxStops
  BY <1>1, FailoverBounds DEF ServerStarts, ServerStops, FailoverBase, ClientTyped
<1>4. Beside
  BY <1>1, <1>2, <1>3 DEF Beside, FailoverBase, ClientTyped
<1>5. FailoverBase' /\ TriesFit' /\ Lone' /\ Busy' = Busy /\ Carriers' = Carriers
  BY <1>4, BesideKeeps
<1>6. Notices' = Notices
  BY <1>2 DEF Notices
<1>7. ASSUME ~outrun' PROVE Straight'
  <2>1. (Views = {} <=> Notices = {} /\ Carriers = {}) /\ (Views = {} <=> Notices = {} /\ Carriers = {})'
    BY ViewsAre, PTL
  <2>2. ~outrun /\ Single'
    BY <1>5, <1>6, <1>7, <2>1, HistorySays
  <2>3. \A t \in AllThreads : ViewFits(thread[t])'
    BY <1>1, <1>2, <2>2 DEF Straight, ViewFits, Known
  <2>4. \A n \in Notices' : notice'[n].snapshot = registered'
    BY <1>1, <1>2, <1>6, <2>2 DEF Straight
  <2>5. Known(known)' = Known(known)
    BY <1>2 DEF Known
  <2>6. watching' /\ Notices' = {} /\ Carriers' = {} => Known(known)' = registered'
    BY <1>1, <1>2, <1>5, <1>6, <2>2, <2>5 DEF Straight
  <2> QED
    BY <2>2, <2>3, <2>4, <2>6 DEF Straight
<1>8. Straight'
  BY <1>7 DEF Straight
<1>9. ASSUME live' # {} PROVE Watched'
  <2>1. /\ \A t, u \in Busy' : t = u
        /\ ~outrun' /\ Notices' = {}
        /\ \/ live' = up' /\ \E t \in AllThreads : thread'[t].at = "reconnect"
           \/ live' = live \cap up'
    BY <1>9, HistorySays
  <2>2. ASSUME NEW u \in Busy' PROVE Complete(thread[u])'
    <3>1. CASE \E t \in AllThreads : thread'[t].at = "reconnect"
      <4>1. PICK t \in AllThreads : thread'[t].at = "reconnect"
        BY <3>1
      <4>2. t \in Busy'
        BY <4>1 DEF Busy
      <4>3. thread'[u].at = "reconnect"
        BY <2>1, <2>2, <4>1, <4>2
      <4> QED
        BY <4>3 DEF Complete
    <3>2. CASE live' = live \cap up'
      <4>1. Complete(thread[u]) /\ live' \subseteq live
        BY <1>1, <1>5, <1>9, <2>2, <3>2 DEF Watched
      <4>2. Of(registered)' = Of(registered)
        BY <1>2 DEF Of
      <4> QED
        BY <1>2, <4>1, <4>2 DEF Complete
    <3> QED
      BY <2>1, <3>1, <3>2
  <2>3. live' \subseteq up'
    BY <2>1
  <2> QED
    BY <2>1, <2>2, <2>3 DEF Watched
<1>10. Watched'
  BY <1>9 DEF Watched
<1> QED
  BY <1>5, <1>8, <1>10 DEF FailoverInv

\* The registry changes, and owes the watcher what it has now.
LEMMA EntriesKeep ==
  ASSUME FailoverInv, History, NEW s \in Servers, registerService(s) \/ unregisterService(s)
  PROVE  FailoverInv'
<1>1. FailoverBase
  BY DEF FailoverInv
<1>2. /\ notice \in [Servers -> Notifications] /\ registered \subseteq Servers /\ up \subseteq Servers
      /\ entries \in 0..MaxEntries /\ stops \in 0..MaxStops /\ known \in [Servers -> Healths]
  BY <1>1 DEF FailoverBase, ClientTyped
<1>3. PICK S \in SUBSET Servers :
        Entry(s, S) /\ notice' = [notice EXCEPT ![s] = [due |-> TRUE, snapshot |-> registered']]
  BY <1>2 DEF registerService, unregisterService
<1>4. /\ ~notice[s].due /\ entries < MaxEntries /\ entries' = entries + 1 /\ registered' = S
      /\ UNCHANGED <<up, watching, known, current, channel, stub, connected, tries, thread, life, stops>>
  BY <1>3 DEF Entry
<1>5. PICK n : n = [due |-> TRUE, snapshot |-> S]
  OBVIOUS
<1>6. n \in Notifications /\ n.due = TRUE /\ n.snapshot = S
  BY <1>5 DEF Notifications
<1>7. notice' = [notice EXCEPT ![s] = n]
  BY <1>3, <1>4, <1>5
<1>8. notice' \in [Servers -> Notifications] /\ notice'[s] = n
  BY <1>2, <1>6, <1>7
<1>9. entries' \in 0..MaxEntries
  BY <1>2, <1>4, FailoverBounds
<1>10. Beside
  BY <1>2, <1>4, <1>8, <1>9 DEF Beside
<1>11. FailoverBase' /\ TriesFit' /\ Lone' /\ Carriers' = Carriers
  BY <1>10, BesideKeeps
<1>12. s \in Notices'
  BY <1>6, <1>8 DEF Notices
<1>13. ASSUME ~outrun' PROVE Straight'
  <2>1. Single'
    BY <1>13, HistorySays
  <2>2. Carriers' = {} /\ \A m \in Notices' : m = s
    BY <1>12, <2>1 DEF Single
  <2>3. \A m \in Notices' : notice'[m].snapshot = registered'
    BY <1>4, <1>6, <1>8, <2>2
  <2>4. \A t \in AllThreads : ViewFits(thread[t])'
    BY <2>2 DEF ViewFits, Carriers, At
  <2> QED
    BY <1>12, <2>1, <2>2, <2>3, <2>4 DEF Straight
<1>14. Straight'
  BY <1>13 DEF Straight
<1>15. Watched'
  BY <1>12, HistorySays DEF Watched
<1> QED
  BY <1>11, <1>14, <1>15 DEF FailoverInv

\* The watcher gets what the registry has, if no other view is on its way.
LEMMA CallWatcherKeeps ==
  ASSUME FailoverInv, History, NEW s \in Servers, CallWatcher(s)
  PROVE  FailoverInv'
<1>1. FailoverBase /\ Straight /\ Watched
  BY DEF FailoverInv
<1>2. /\ notice \in [Servers -> Notifications] /\ registered \subseteq Servers /\ up \subseteq Servers
      /\ entries \in 0..MaxEntries /\ stops \in 0..MaxStops /\ known \in [Servers -> Healths]
  BY <1>1 DEF FailoverBase, ClientTyped
<1>3. /\ notice[s].due /\ notice' = [notice EXCEPT ![s] = NoNotice]
      /\ known' = IF watching THEN Of(notice[s].snapshot) ELSE known
      /\ UNCHANGED <<up, registered, watching, current, channel, stub, connected, tries, thread,
                     life, stops, entries>>
  BY DEF CallWatcher
<1>4. NoNotice \in Notifications /\ NoNotice.due = FALSE
  BY DEF NoNotice, Notifications
<1>5. notice' \in [Servers -> Notifications] /\ known' \in [Servers -> Healths]
  BY <1>2, <1>3, <1>4, ViewsTyped
<1>6. Beside
  BY <1>2, <1>3, <1>5 DEF Beside
<1>7. FailoverBase' /\ TriesFit' /\ Lone' /\ Carriers' = Carriers
  BY <1>6, BesideKeeps
<1>8. s \in Notices
  BY <1>3 DEF Notices
<1>9. ASSUME ~outrun' PROVE Straight'
  <2>1. Views # {}
    BY <1>8, ViewsAre
  <2>2. ~outrun /\ Single'
    BY <1>9, <2>1, HistorySays
  <2>3. /\ \A m \in Notices : m = s
        /\ Carriers = {} /\ notice[s].snapshot = registered
    BY <1>1, <1>8, <2>2 DEF Straight, Single
  <2>4. Notices' = {}
    <3>1. ASSUME NEW m \in Servers, notice'[m].due PROVE FALSE
      <4>1. m # s
        BY <1>2, <1>3, <1>4, <3>1
      <4>2. notice[m].due
        BY <1>2, <1>3, <3>1, <4>1
      <4> QED
        BY <2>3, <4>1, <4>2 DEF Notices
    <3> QED
      BY <3>1 DEF Notices
  <2>5. watching' => Known(known') = registered'
    BY <1>2, <1>3, <2>3, ViewsTyped
  <2>6. Known(known)' = Known(known')
    BY DEF Known
  <2>7. \A t \in AllThreads : ViewFits(thread[t])'
    BY <1>7, <2>3 DEF ViewFits, Carriers, At
  <2> QED
    BY <2>2, <2>4, <2>5, <2>6, <2>7 DEF Straight
<1>10. Straight'
  BY <1>9 DEF Straight
<1>11. ASSUME live' # {} PROVE Watched'
  <2>1. live = {}
    BY <1>1, <1>8 DEF Watched
  <2>2. /\ \A t, u \in Busy' : t = u
        /\ ~outrun' /\ Notices' = {}
        /\ live' = up' /\ \E t \in AllThreads : thread'[t].at = "reconnect"
    BY <1>11, <2>1, HistorySays
  <2>3. PICK t \in AllThreads : thread'[t].at = "reconnect"
    BY <2>2
  <2>4. t \in Busy'
    BY <2>3 DEF Busy
  <2>5. \A u \in Busy' : thread'[u].at = "reconnect"
    BY <2>2, <2>3, <2>4
  <2>6. \A u \in Busy' : Complete(thread[u])'
    BY <2>5 DEF Complete
  <2> QED
    BY <2>2, <2>6 DEF Watched
<1>12. Watched'
  BY <1>11 DEF Watched
<1> QED
  BY <1>7, <1>10, <1>12 DEF FailoverInv
------------------------------------------------------------------------------
(* ClientFailover: what holds for any number of servers and threads. *)

LEMMA FailoverStarts == FailoverInit => FailoverInv
<1> SUFFICES ASSUME FailoverInit PROVE FailoverInv
  OBVIOUS
<1>1. /\ up = {} /\ registered = {} /\ notice = [s \in Servers |-> NoNotice] /\ watching = FALSE
      /\ known = Of({}) /\ current = NoServer /\ channel = NoServer /\ stub = NoServer
      /\ connected = FALSE /\ tries = 0 /\ agent = FALSE /\ beating = "none"
      /\ stops = 0 /\ entries = 0 /\ connects = 0 /\ crossed = FALSE /\ outrun = FALSE /\ live = {}
      /\ thread = [t \in AllThreads |-> Free]
  BY DEF FailoverInit
<1>2. NoNotice \in Notifications /\ NoNotice.due = FALSE
  BY DEF NoNotice, Notifications
<1>3. ClientTyped
  <2>1. /\ known \in [Servers -> Healths]
        /\ thread \in [AllThreads -> ThreadRecords] /\ notice \in [Servers -> Notifications]
    BY <1>1, <1>2, FreeFits, ViewsTyped
  <2>2. /\ stops \in 0..MaxStops /\ entries \in 0..MaxEntries /\ connects \in 0..MaxConnects
        /\ tries \in Nat
    BY <1>1, FailoverBounds
  <2> QED
    BY <1>1, <2>1, <2>2 DEF ClientTyped, Here
<1>4. \A t \in AllThreads : thread[t] = Free
  BY <1>1
<1>5. \A t \in AllThreads : ThreadFits(thread[t])
  BY <1>4, FreeFits
<1>6. Cardinality({}) = 0
  BY FS_EmptySet
<1>7. Busy = {} /\ Carriers = {} /\ Notices = {} /\ Going = {}
  <2>1. Busy = {} /\ Going = {} /\ Carriers = {}
    BY <1>4, FreeFits DEF Busy, Going, Carriers, Attempting, OpenSteps
  <2>2. Notices = {}
    BY <1>1, <1>2 DEF Notices
  <2> QED
    BY <2>1, <2>2
<1>8. TriesFit
  BY <1>1, <1>6, <1>7, ThreadsFinite, FailoverBounds DEF TriesFit
<1>9. Lone /\ Watched
  BY <1>1, <1>4, <1>7, FreeFits DEF Lone, Watched, Aligned
<1>10. Straight
  BY <1>1, <1>4, <1>7, FreeFits DEF Straight, Single, ViewFits
<1> QED
  BY <1>1, <1>3, <1>5, <1>8, <1>9, <1>10 DEF FailoverInv, FailoverBase

LEMMA FailoverKeeps == FailoverInv /\ [FailoverNext]_failoverVars => FailoverInv'
<1> SUFFICES ASSUME FailoverInv, [FailoverNext]_failoverVars PROVE FailoverInv'
  OBVIOUS
<1>1. CASE UNCHANGED failoverVars
  <2>1. /\ UNCHANGED <<up, registered, notice, watching, known, current, channel, stub>>
        /\ UNCHANGED <<connected, tries, thread, agent, beating, stops, entries, connects>>
        /\ UNCHANGED <<crossed, outrun, live>>
    BY <1>1 DEF failoverVars
  <2>2. FailoverBase'
    BY <2>1 DEF FailoverInv, FailoverBase, ClientTyped, ThreadFits
  <2>3. TriesFit'
    BY <2>1 DEF FailoverInv, TriesFit, Going, Attempting
  <2>4. Busy' = Busy /\ Carriers' = Carriers /\ Notices' = Notices
    BY <2>1 DEF Busy, Carriers, Notices
  <2>5. Lone'
    BY <2>1, <2>4 DEF FailoverInv, Lone, Aligned
  <2>6. Straight'
    BY <2>1, <2>4 DEF FailoverInv, Straight, Single, ViewFits, Known
  <2>7. Watched'
    BY <2>1, <2>4 DEF FailoverInv, Watched, Complete, Of
  <2> QED
    BY <2>2, <2>3, <2>5, <2>6, <2>7 DEF FailoverInv
<1>2. CASE FailoverNext
  <2>1. FailoverStep /\ History
    BY <1>2 DEF FailoverNext, History
  <2>2. CASE \E s \in Servers : \/ ServerStarts(s) \/ ServerStops(s)
                                \/ registerService(s) \/ unregisterService(s) \/ CallWatcher(s)
    BY <2>1, <2>2, ServersKeep, EntriesKeep, CallWatcherKeeps
  <2>3. CASE \/ \E c \in Callers : sendMessage(c) \/ registerAgent(c) \/ connectViaRegistry(c)
             \/ heartbeatLoop
             \/ \E t \in AllThreads : \/ AskOverStub(t) \/ sendHeartbeat(t) \/ Answered(t) \/ Unanswered(t)
                                      \/ ReconnectStep(t)
    BY <2>1, <2>3, ThreadsKeep
  <2> QED
    BY <2>1, <2>2, <2>3 DEF FailoverStep
<1> QED
  BY <1>1, <1>2

LEMMA FailoverInvSays == FailoverInv => FailoverInvariant
<1> SUFFICES ASSUME FailoverInv PROVE FailoverInvariant
  OBVIOUS
<1>1. ClientTyped /\ TriesFit /\ Lone /\ Straight /\ Watched
  BY DEF FailoverInv, FailoverBase
<1>2. tries \in 0..MaxTries + Cardinality(Callers)
  <2>1. Cardinality(Going) \in Nat /\ Cardinality(Callers) \in Nat
    BY ThreadsFinite DEF Going
  <2> QED
    BY <1>1, <2>1, FailoverBounds DEF ClientTyped, TriesFit
<1>3. FailoverTypeOK
  BY <1>1, <1>2 DEF ClientTyped, FailoverTypeOK, Notifications, ThreadRecords
<1>4. EndpointsFollowRegistry
  BY <1>1, ViewsAre DEF EndpointsFollowRegistry, Straight
<1>5. GivesUpWhenAllAreDown
  <2> SUFFICES ASSUME NEW t \in AllThreads, thread[t].at = "next", thread[t].left = {},
                      thread[t].kind # "connect", live # {}
               PROVE  Known(thread[t].view) \cap live = {}
    BY DEF GivesUpWhenAllAreDown, At
  <2>1. t \in Busy
    BY DEF Busy
  <2> QED
    BY <1>1, <2>1 DEF Watched, Complete
<1>6. StubIsCurrent
  <2> SUFFICES ASSUME Busy = {}, connected, ~crossed PROVE stub = current
    BY DEF StubIsCurrent
  <2>1. "heartbeat" \in AllThreads
    BY DEF AllThreads
  <2>2. Aligned(thread["heartbeat"])
    BY <1>1, <2>1 DEF Lone
  <2>3. thread["heartbeat"].at \notin OpenSteps
    BY <2>1 DEF Busy, OpenSteps
  <2> QED
    BY <2>2, <2>3 DEF Aligned
<1> QED
  BY <1>3, <1>4, <1>5, <1>6 DEF FailoverInvariant

\* RpcClient, with any number of servers and of threads that fail over at once: the
\* limit of attempts is passed by as many as there are callers at most; whatever rivals
\* left behind, a thread without one leaves the stub that leads to the endpoint that is
\* marked, and a view of the registry that none overtook leaves the endpoints that it
\* has; nobody whom nothing disturbed gives up while a server it knows was up all the time.
THEOREM FailoverCorrect == FailoverSpec => []FailoverInvariant
<1>1. FailoverInit => FailoverInv
  BY FailoverStarts
<1>2. FailoverInv /\ [FailoverNext]_failoverVars => FailoverInv'
  BY FailoverKeeps
<1> QED
  BY <1>1, <1>2, FailoverInvSays, PTL DEF FailoverSpec
=============================================================================
