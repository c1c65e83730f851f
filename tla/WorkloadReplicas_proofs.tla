----------------------- MODULE WorkloadReplicas_proofs -----------------------
(***************************************************************************)
(* Proofs about WorkloadReplicas, for any workloads, callers and bounds,   *)
(* and, at the end, about ReplicaCollection, which runs the garbage        *)
(* collector beside it.                                                    *)
(***************************************************************************)
EXTENDS ReplicaCollection, FiniteSetTheorems, WellFoundedInduction, TLAPS

(* A finite set of numbers has a largest one (the loop of nextReplicaIndex *)
(* ends with it).  The elements above k, for k in S, are subsets of S; one *)
(* of these subsets has none below it, and its k is the largest.           *)
LEMMA LargestExists ==
  ASSUME NEW S, S \subseteq Nat, IsFiniteSet(S), S # {}
  PROVE  \E k \in S : \A m \in S : m <= k
<1> DEFINE Above(k) == {m \in S : m > k}
           T == {Above(k) : k \in S}
<1>1. T \subseteq FiniteSubsetsOf(S) /\ T # {}
  <2>1. FiniteSubsetsOf(S) = SUBSET S
    BY FS_FiniteSubsetsOfFinite
  <2>2. \A k \in S : Above(k) \in SUBSET S
    OBVIOUS
  <2>3. T \subseteq SUBSET S
    <3> HIDE DEF Above
    <3> QED BY <2>2
  <2>4. T # {}
    <3> HIDE DEF Above
    <3>1. PICK k : k \in S
      OBVIOUS
    <3>2. Above(k) \in T
      BY <3>1
    <3> QED BY <3>2
  <2>5. QED
    BY <2>1, <2>3, <2>4
<1>2. IsWellFoundedOn(StrictSubsetOrdering(S), FiniteSubsetsOf(S))
  BY FS_StrictSubsetOrderingWellFounded
<1>3. PICK x \in T : \A y \in T : ~(<<y, x>> \in StrictSubsetOrdering(S))
  <2> HIDE DEF T
  <2> QED BY <1>1, <1>2, WFMin
<1>4. PICK k \in S : x = Above(k)
  OBVIOUS
<1>5. ASSUME NEW m \in S, m > k
      PROVE  FALSE
  <2>1. Above(m) \in T /\ Above(m) \subseteq S /\ Above(k) \subseteq S
    OBVIOUS
  <2>2. Above(m) \subseteq Above(k) /\ m \in Above(k) /\ m \notin Above(m)
    <3>1. \A n \in S : n > m => n > k
      BY <1>5
    <3>2. ~(m > m)
      BY <1>5
    <3>3. QED
      BY <1>5, <3>1, <3>2
  <2>3. <<Above(m), Above(k)>> \in StrictSubsetOrdering(S)
    BY <2>1, <2>2 DEF StrictSubsetOrdering
  <2>4. QED
    BY <1>3, <1>4, <2>1, <2>3
<1>6. \A m \in S : m <= k
  BY <1>5
<1>7. QED
  BY <1>6

-----------------------------------------------------------------------------
(* Types.                                                                  *)

Places == {"idle", "stamp", "asked", "loaded", "marked", "spawn", "insert", "provision",
           "walk", "failing"}

\* A call in flight is about a workload, and its copy is of a row that was there.
Named ==
    \A c \in Callers : call[c] # Idle => /\ call[c].wl \in Workloads
                                         /\ call[c].copy.state # "absent"

CallsTyped == call \in [Callers -> Calls] /\ Named

LEMMA IdleFields ==
  Idle \in Calls /\ Idle.at = "idle" /\ Idle.verb = "none" /\ Idle.copy = Absent /\ Idle.wl = NoOne
BY DEF Idle, Calls, Absent, Rows

(* A caller past "idle" has a call in flight.                              *)
LEMMA BusyCall ==
  ASSUME CallsTyped, NEW c \in Callers, call[c].at # "idle"
  PROVE  /\ call[c] \in Calls
         /\ call[c] # Idle
         /\ call[c].wl \in Workloads
         /\ call[c].copy \in Rows
         /\ call[c].copy.state # "absent"
         /\ call[c].goal \in Nat
         /\ call[c].todo \subseteq Nat
         /\ call[c].inst \in Nat
<1>1. call[c] \in Calls /\ call[c] # Idle
  BY IdleFields DEF CallsTyped
<1>2. QED
  BY <1>1 DEF CallsTyped, Named, Calls

(* Become replaces one call.                                               *)
LEMMA BecomeKeeps ==
  ASSUME CallsTyped, NEW c \in Callers, NEW r \in Calls, Become(c, r),
         r = Idle \/ (r.wl \in Workloads /\ r.copy.state # "absent")
  PROVE  /\ CallsTyped'
         /\ call'[c] = r
         /\ \A d \in Callers : d # c => call'[d] = call[d]
<1>1. /\ call' \in [Callers -> Calls]
      /\ call'[c] = r
      /\ \A d \in Callers : d # c => call'[d] = call[d]
  BY DEF Become, CallsTyped
<1>2. Named'
  <2> SUFFICES ASSUME NEW d \in Callers, call'[d] # Idle
               PROVE  call'[d].wl \in Workloads /\ call'[d].copy.state # "absent"
    BY DEF Named, Idle, Absent
  <2>1. CASE d = c
    BY <1>1, <2>1
  <2>2. CASE d # c
    BY <1>1, <2>2 DEF CallsTyped, Named
  <2> QED BY <2>1, <2>2
<1>3. QED
  BY <1>1, <1>2 DEF CallsTyped

LEMMA ReturnKeeps ==
  ASSUME CallsTyped, NEW c \in Callers, Return(c)
  PROVE  /\ CallsTyped'
         /\ call'[c] = Idle
         /\ \A d \in Callers : d # c => call'[d] = call[d]
<1>1. Idle \in Calls /\ Become(c, Idle)
  BY IdleFields DEF Return
<1>2. QED
  BY <1>1, BecomeKeeps

LEMMA GotoKeeps ==
  ASSUME CallsTyped, NEW c \in Callers, call[c].at # "idle", NEW place \in Places, Goto(c, place)
  PROVE  /\ CallsTyped'
         /\ call'[c] = [call[c] EXCEPT !.at = place]
         /\ \A d \in Callers : d # c => call'[d] = call[d]
<1> DEFINE r == [call[c] EXCEPT !.at = place]
<1>1. r \in Calls /\ r.wl \in Workloads /\ r.copy.state # "absent"
  BY BusyCall DEF Calls, Places
<1>2. Become(c, r)
  BY DEF Goto
<1>3. QED
  <2> HIDE DEF r
  <2>1. /\ CallsTyped'
        /\ call'[c] = r
        /\ \A d \in Callers : d # c => call'[d] = call[d]
    BY <1>1, <1>2, BecomeKeeps
  <2> QED BY <2>1 DEF r

(* The loop leaves one element behind.                                     *)
LEMMA DoneTyped ==
  ASSUME CallsTyped, NEW c \in Callers, call[c].at # "idle", NEW x
  PROVE  /\ Done(c, x) \in Calls
         /\ Done(c, x).wl = call[c].wl
         /\ Done(c, x).wl \in Workloads
         /\ Done(c, x).copy.state # "absent"
         /\ Done(c, x).todo = call[c].todo \ {x}
BY BusyCall DEF Done, Calls

(* UpdateWorkload neither creates nor drops a row.                         *)
LEMMA WriteKeeps ==
  ASSUME workload \in [Workloads -> Rows], NEW w \in Workloads, NEW r \in Rows,
         r.state # "absent", Write(w, r)
  PROVE  /\ workload' \in [Workloads -> Rows]
         /\ \A v \in Workloads : Present(v)' <=> Present(v)
<1>1. CASE Present(w)
  <2>1. workload' = [workload EXCEPT ![w] = r]
    BY <1>1 DEF Write
  <2> QED BY <1>1, <2>1 DEF Present
<1>2. CASE ~Present(w)
  BY <1>2 DEF Write, Present
<1>3. QED
  BY <1>1, <1>2

LEMMA OutcomeTyped ==
  ASSUME mishaps \in Nat, NEW ok \in BOOLEAN, Outcome(ok)
  PROVE  mishaps' \in Nat
BY DEF Outcome

LEMMA InitType == Init => TypeOK /\ Named
<1> SUFFICES ASSUME Init PROVE TypeOK /\ Named
  OBVIOUS
<1> DEFINE n == Cardinality(Legacy)
<1>1. n \in Nat /\ ExistsBijection(1 .. n, Legacy)
  BY ReplicasAssumption, FS_CardinalityType
<1>2. \E f \in [1 .. n -> Legacy] : \A i, j \in 1 .. n : f[i] = f[j] => i = j
  BY <1>1 DEF ExistsBijection, Bijection, Injection, IsInjective
<1>3. LegacyIndex \in [1 .. n -> Legacy]
  BY <1>2 DEF LegacyIndex
<1>4. instance \in [Ids -> InstanceRows]
  <2> SUFFICES ASSUME NEW i \in Ids PROVE instance[i] \in InstanceRows
    BY DEF Init
  <2>1. CASE i <= n
    <3>1. i \in 1 .. n
      BY <1>1, <2>1 DEF Ids
    <3>2. LegacyIndex[i] \in Nat
      BY <1>3, <3>1, ReplicasAssumption
    <3> QED BY <2>1, <3>2 DEF Init, InstanceRows
  <2>2. CASE ~(i <= n)
    BY <2>2 DEF Init, InstanceRows
  <2> QED BY <2>1, <2>2
<1>5. Named
  BY DEF Init, Named
<1>6. call \in [Callers -> Calls]
  BY IdleFields DEF Init
<1>7. QED
  BY <1>1, <1>4, <1>5, <1>6 DEF Init, TypeOK, Rows, Absent

(* The replica set, its highest index and the victims of a shrink.         *)
LEMMA ListTyped ==
  ASSUME TypeOK, NEW w, NEW S \in SUBSET Replicas(w)
  PROVE  /\ S \subseteq Ids
         /\ IsFiniteSet(S)
         /\ Cardinality(S) \in Nat
         /\ NextIndex(S) \in Nat
<1> DEFINE I == {instance[i].index : i \in S}
<1>1. S \subseteq Ids /\ Ids \subseteq Nat
  BY DEF Replicas, Ids
<1>2. IsFiniteSet(Ids)
  <2>1. 1 \in Int /\ MaxInstances + Cardinality(Legacy) \in Int
    BY ReplicasAssumption, FS_CardinalityType
  <2> QED BY <2>1, FS_Interval DEF Ids
<1>3. IsFiniteSet(S) /\ Cardinality(S) \in Nat
  BY <1>1, <1>2, FS_Subset, FS_CardinalityType
<1>4. I \subseteq Nat
  BY <1>1 DEF TypeOK, InstanceRows
<1>5. NextIndex(S) \in Nat
  <2>1. CASE S = {}
    BY <2>1 DEF NextIndex
  <2>2. CASE S # {}
    <3>1. IsFiniteSet(I)
      <4> DEFINE f == [i \in S |-> instance[i].index]
      <4>1. f \in Surjection(S, I)
        BY DEF Surjection
      <4> HIDE DEF I, f
      <4> QED BY <1>3, <4>1, FS_Surjection
    <3>2. I # {}
      BY <2>2
    <3>3. \E k \in I : \A m \in I : m <= k
      <4> HIDE DEF I
      <4> QED BY <1>4, <3>1, <3>2, LargestExists
    <3>4. \E k \in I : \A i \in S : instance[i].index <= k
      BY <3>3
    <3>5. (CHOOSE k \in I : \A i \in S : instance[i].index <= k) \in Nat
      <4> HIDE DEF I
      <4> QED BY <1>4, <3>4
    <3> QED BY <2>2, <3>5 DEF NextIndex
  <2> QED BY <2>1, <2>2
<1>6. QED
  BY <1>1, <1>3, <1>5

LEMMA ReplicasTyped ==
  ASSUME TypeOK, NEW w
  PROVE  /\ Replicas(w) \subseteq Ids
         /\ IsFiniteSet(Replicas(w))
         /\ Cardinality(Replicas(w)) \in Nat
BY ListTyped

(* What the two listings decide on: some of the replicas, the rest missed. *)
LEMMA ScaleListIs ==
  ASSUME NEW c \in Callers, ScaleList(c)
  PROVE  \E mine \in SUBSET Replicas(call[c].wl) :
            /\ missed' = missed \cup (Replicas(call[c].wl) \ mine)
            /\ \/ /\ call[c].goal >= Cardinality(mine)
                  /\ Become(c, [call[c] EXCEPT !.at = "spawn",
                                   !.todo = {NextIndex(mine) + k :
                                       k \in 0 .. (call[c].goal - Cardinality(mine) - 1)}])
               \/ /\ call[c].goal < Cardinality(mine)
                  /\ Become(c, [call[c] EXCEPT !.at = "walk",
                                   !.todo = Victims(mine, Cardinality(mine) - call[c].goal)])
<1>1. PICK room \in Rooms :
         LET mine == PageOf(call[c].wl, room)
         IN  /\ missed' = missed \cup (Replicas(call[c].wl) \ mine)
             /\ \/ /\ call[c].goal >= Cardinality(mine)
                   /\ Become(c, [call[c] EXCEPT !.at = "spawn",
                                    !.todo = {NextIndex(mine) + k :
                                        k \in 0 .. (call[c].goal - Cardinality(mine) - 1)}])
                \/ /\ call[c].goal < Cardinality(mine)
                   /\ Become(c, [call[c] EXCEPT !.at = "walk",
                                    !.todo = Victims(mine, Cardinality(mine) - call[c].goal)])
  BY Zenon DEF ScaleList
<1>2. PageOf(call[c].wl, room) \in SUBSET Replicas(call[c].wl)
  BY DEF PageOf
<1>3. QED
  BY <1>1, <1>2, Zenon

LEMMA WalkListIs ==
  ASSUME NEW c \in Callers, WalkList(c)
  PROVE  \E mine \in SUBSET Replicas(call[c].wl) :
            /\ missed' = missed \cup (Replicas(call[c].wl) \ mine)
            /\ \/ /\ call[c].verb = "Deploy"
                  /\ Return(c) /\ Write(call[c].wl, [call[c].copy EXCEPT !.state = "Active"])
               \/ /\ Become(c, [call[c] EXCEPT !.at = "walk", !.todo = mine])
                  /\ workload' = workload
<1>1. PICK room \in Rooms :
         LET mine == PageOf(call[c].wl, room)
         IN  /\ missed' = missed \cup (Replicas(call[c].wl) \ mine)
             /\ \/ /\ call[c].verb = "Deploy"
                   /\ Return(c) /\ Write(call[c].wl, [call[c].copy EXCEPT !.state = "Active"])
                \/ /\ Become(c, [call[c] EXCEPT !.at = "walk", !.todo = mine])
                   /\ workload' = workload
  BY Zenon DEF WalkList
<1>2. PageOf(call[c].wl, room) \in SUBSET Replicas(call[c].wl)
  BY DEF PageOf
<1>3. QED
  BY <1>1, <1>2, Zenon

(* Any set of numbers with an element has a smallest one.                  *)
LEMMA SmallestExists ==
  ASSUME NEW S, S \subseteq Nat, S # {}
  PROVE  \E k \in S : \A m \in S : k <= m
<1>1. PICK n : n \in S
  OBVIOUS
<1> DEFINE D == {d \in 0 .. n : n - d \in S}
<1>2. D \subseteq Nat /\ 0 \in D /\ IsFiniteSet(D)
  <2>1. n \in Nat /\ IsFiniteSet(0 .. n)
    BY <1>1, FS_Interval
  <2>2. D \in SUBSET (0 .. n)
    OBVIOUS
  <2>3. 0 \in D
    BY <1>1, <2>1
  <2>4. IsFiniteSet(D)
    <3> HIDE DEF D
    <3> QED BY <2>1, <2>2, FS_Subset
  <2> QED BY <2>1, <2>2, <2>3, <2>4
<1>3. PICK d \in D : \A e \in D : e <= d
  <2> HIDE DEF D
  <2> QED BY <1>2, LargestExists
<1>4. n - d \in S /\ \A m \in S : n - d <= m
  <2> SUFFICES ASSUME NEW m \in S PROVE n - d <= m
    BY <1>3
  <2>1. CASE m <= n
    <3>1. n - m \in 0 .. n /\ n - (n - m) = m
      BY <1>1, <2>1
    <3>2. n - m \in D
      BY <3>1
    <3> QED BY <1>1, <1>3, <3>2
  <2>2. CASE ~(m <= n)
    BY <1>1, <1>3, <2>2
  <2> QED BY <2>1, <2>2
<1>5. QED
  BY <1>4

(* The index a spawn loop is at is a number.                               *)
LEMMA LowestTyped ==
  ASSUME NEW S, S \subseteq Nat, S # {}
  PROVE  Lowest(S) \in S
BY SmallestExists DEF Lowest

(* A step that touches only the calls and the workload table.              *)
LEMMA RowsTyped ==
  ASSUME TypeOK, CallsTyped', workload' \in [Workloads -> Rows],
         UNCHANGED <<instance, next, born, cut, unmarked, missed, before, mishaps>>
  PROVE  TypeOK' /\ Named'
BY DEF TypeOK, CallsTyped

LEMMA LoadTyped ==
  ASSUME TypeOK, Named, NEW c \in Callers, NEW w \in Workloads, NEW verb \in Verbs,
         NEW place \in Places, NEW goal \in Nat, Load(c, verb, w, place, goal)
  PROVE  TypeOK' /\ Named'
<1> DEFINE r == [Idle EXCEPT !.verb = verb, !.wl = w, !.at = place,
                             !.copy = workload[w], !.goal = goal]
<1>1. r \in Calls /\ r.wl \in Workloads /\ r.copy.state # "absent"
  BY DEF Idle, Calls, Places, Load, Present, TypeOK
<1>2. Become(c, r)
  BY DEF Load
<1>3. CallsTyped'
  <2> HIDE DEF r
  <2> QED BY <1>1, <1>2, BecomeKeeps DEF CallsTyped, TypeOK
<1>4. QED
  BY <1>3, RowsTyped DEF Load, TypeOK

LEMMA MarkTyped ==
  ASSUME TypeOK, Named, NEW c \in Callers, NEW s \in States, call[c].at = "loaded", Mark(c, s)
  PROVE  TypeOK' /\ Named'
<1> DEFINE r == [call[c].copy EXCEPT !.state = s]
           moved == [call[c] EXCEPT !.at = "marked", !.copy = r]
<1>1. CallsTyped /\ call[c].wl \in Workloads
  BY BusyCall DEF CallsTyped, TypeOK
<1>2. r \in Rows /\ r.state # "absent"
  BY <1>1, BusyCall DEF Rows, States
<1>3. moved \in Calls /\ moved.wl \in Workloads /\ moved.copy.state # "absent"
  <2> HIDE DEF r
  <2> QED BY <1>1, <1>2, BusyCall DEF Calls
<1>4. workload' \in [Workloads -> Rows]
  BY <1>1, <1>2, WriteKeeps DEF Mark, TypeOK
<1>5. CallsTyped'
  <2>1. CASE Present(call[c].wl)
    <3>1. Become(c, moved)
      BY <2>1 DEF Mark
    <3> HIDE DEF moved
    <3> QED BY <1>1, <1>3, <3>1, BecomeKeeps
  <2>2. CASE ~Present(call[c].wl)
    BY <1>1, <2>2, ReturnKeeps DEF Mark
  <2> QED BY <2>1, <2>2
<1>6. QED
  BY <1>4, <1>5, RowsTyped DEF Mark

(* The last write of a verb, after which its caller is idle.               *)
LEMMA SettleTyped ==
  ASSUME TypeOK, Named, NEW c \in Callers, call[c].at # "idle", NEW r \in Rows,
         r.state # "absent", Write(call[c].wl, r), Return(c),
         UNCHANGED <<instance, next, born, cut, unmarked, missed, before, mishaps>>
  PROVE  TypeOK' /\ Named'
<1>1. CallsTyped /\ call[c].wl \in Workloads
  BY BusyCall DEF CallsTyped, TypeOK
<1>2. workload' \in [Workloads -> Rows]
  BY <1>1, WriteKeeps DEF TypeOK
<1>3. QED
  BY <1>1, <1>2, ReturnKeeps, RowsTyped

(* A copy with another state, or another count, is a row.                  *)
LEMMA CopyTyped ==
  ASSUME CallsTyped, NEW c \in Callers, call[c].at # "idle"
  PROVE  /\ \A s \in States : [call[c].copy EXCEPT !.state = s] \in Rows
         /\ \A s \in States : [call[c].copy EXCEPT !.state = s].state # "absent"
         /\ \A s \in States, n \in Nat :
               /\ [call[c].copy EXCEPT !.count = n, !.state = s] \in Rows
               /\ [call[c].copy EXCEPT !.count = n, !.state = s].state # "absent"
         /\ [call[c].copy EXCEPT !.prev = call[c].copy.count] \in Rows
         /\ [call[c].copy EXCEPT !.prev = call[c].copy.count].state # "absent"
BY BusyCall DEF Rows, States

(* instance.Delete and the other calls on a replica keep the table's type. *)
LEMMA RemoveTyped ==
  ASSUME TypeOK, NEW i, NEW ok \in BOOLEAN, Remove(i, ok)
  PROVE  instance' \in [Ids -> InstanceRows] /\ mishaps' \in Nat
<1>1. mishaps' \in Nat
  BY OutcomeTyped DEF Remove, TypeOK
<1>2. ASSUME instance' = [instance EXCEPT ![i].state = IF ok THEN "absent" ELSE "Failed"]
      PROVE  instance' \in [Ids -> InstanceRows]
  BY <1>2 DEF TypeOK, InstanceRows
<1>3. ASSUME instance' = instance
      PROVE  instance' \in [Ids -> InstanceRows]
  BY <1>3 DEF TypeOK
<1>4. \/ instance' = [instance EXCEPT ![i].state = IF ok THEN "absent" ELSE "Failed"]
      \/ instance' = instance
  BY DEF Remove
<1>5. QED
  BY <1>1, <1>2, <1>3, <1>4

(* Steps of spawnReplica keep the types.                                   *)
LEMMA SpawnTyped ==
  ASSUME TypeOK, Named, NEW c \in Callers,
         SpawnLookup(c) \/ SpawnInsert(c) \/ SpawnProvision(c)
  PROVE  TypeOK' /\ Named'
<1> USE DEF Places
<1>1. CallsTyped /\ call[c].at # "idle" /\ call[c].wl \in Workloads
  <2>1. CallsTyped /\ call[c].at # "idle"
    BY DEF SpawnLookup, SpawnInsert, SpawnProvision, TypeOK, CallsTyped
  <2> QED BY <2>1, BusyCall
<1>2. CASE SpawnLookup(c)
  <2>1. CallsTyped'
    <3> DEFINE k == Lowest(call[c].todo)
    <3>1. CASE Become(c, Done(c, k))
      BY <1>1, <3>1, DoneTyped, BecomeKeeps
    <3>2. CASE \E place \in Places : Goto(c, place)
      BY <1>1, <3>2, GotoKeeps
    <3> QED BY <1>2, <3>1, <3>2 DEF SpawnLookup
  <2> QED BY <1>2, <2>1, RowsTyped DEF SpawnLookup, TypeOK
<1>3. CASE SpawnInsert(c)
  <2> DEFINE k == Lowest(call[c].todo)
             row == [owner |-> call[c].wl, index |-> k, state |-> "Provisioning"]
             r == [call[c] EXCEPT !.at = "provision", !.inst = next]
  <2>1. mishaps' \in Nat
    BY <1>3, OutcomeTyped DEF SpawnInsert, TypeOK
  <2>2. CASE /\ next \in Ids
             /\ instance' = [instance EXCEPT ![next] = row]
             /\ next' = next + 1
             /\ missed' \in {missed, missed \cup {next}}
             /\ Become(c, r)
    <3>1. r \in Calls /\ r.wl \in Workloads /\ r.copy.state # "absent"
      BY <1>1, BusyCall DEF Calls, TypeOK
    <3>2. CallsTyped'
      <4> HIDE DEF r
      <4> QED BY <1>1, <2>2, <3>1, BecomeKeeps
    <3>3. instance' \in [Ids -> InstanceRows]
      <4>1. row \in InstanceRows
        <5>1. call[c].todo \subseteq Nat /\ call[c].todo # {}
          BY <1>1, <1>3, BusyCall DEF SpawnInsert
        <5>2. k \in Nat
          BY <5>1, LowestTyped
        <5> QED BY <1>1, <5>2 DEF InstanceRows
      <4> HIDE DEF row
      <4> QED BY <2>2, <4>1 DEF TypeOK
    <3>4. next' \in Nat /\ missed' \subseteq Ids
      BY <2>2 DEF TypeOK
    <3>5. UNCHANGED <<workload, born, cut, unmarked, before>>
      BY <1>3 DEF SpawnInsert
    <3> QED BY <2>1, <3>2, <3>3, <3>4, <3>5 DEF TypeOK, CallsTyped
  <2>3. CASE Goto(c, "failing") /\ UNCHANGED <<instance, next, missed>>
    <3>1. CallsTyped'
      BY <1>1, <2>3, GotoKeeps
    <3>2. UNCHANGED <<workload, born, cut, unmarked, before>>
      BY <1>3 DEF SpawnInsert
    <3> QED BY <2>1, <2>3, <3>1, <3>2 DEF TypeOK, CallsTyped
  <2> QED BY <1>3, <2>2, <2>3 DEF SpawnInsert
<1>4. CASE SpawnProvision(c)
  <2> DEFINE i == call[c].inst
             r == [Done(c, instance[i].index) EXCEPT !.at = "spawn", !.inst = 0]
  <2>1. PICK ok \in BOOLEAN :
          /\ Outcome(ok)
          /\ instance' = IF Live(i)
                         THEN [instance EXCEPT ![i].state = IF ok THEN "Running" ELSE "Failed"]
                         ELSE instance
          /\ IF ok /\ Live(i) THEN Become(c, r) ELSE Goto(c, "failing")
    BY <1>4 DEF SpawnProvision
  <2>2. instance' \in [Ids -> InstanceRows]
    BY <2>1, ZenonT(60) DEF TypeOK, InstanceRows
  <2>3. mishaps' \in Nat
    BY <2>1, OutcomeTyped DEF TypeOK
  <2>4. CallsTyped'
    <3>1. CASE Become(c, r)
      <4>1. r \in Calls /\ r.wl \in Workloads /\ r.copy.state # "absent"
        <5>1. PICK d \in Calls : /\ d = Done(c, instance[i].index)
                                 /\ d.wl \in Workloads
                                 /\ d.copy.state # "absent"
          BY <1>1, DoneTyped
        <5>2. r = [d EXCEPT !.at = "spawn", !.inst = 0]
          BY <5>1
        <5> HIDE DEF r
        <5> QED BY <5>1, <5>2 DEF Calls
      <4> HIDE DEF r
      <4> QED BY <1>1, <3>1, <4>1, BecomeKeeps
    <3>2. CASE Goto(c, "failing")
      BY <1>1, <3>2, GotoKeeps
    <3> QED BY <2>1, <3>1, <3>2
  <2>5. UNCHANGED <<workload, next, born, cut, unmarked, missed, before>>
    BY <1>4 DEF SpawnProvision
  <2> QED BY <2>2, <2>3, <2>4, <2>5 DEF TypeOK, CallsTyped
<1>5. QED
  BY <1>2, <1>3, <1>4

(* The verbs begin.                                                        *)
LEMMA BeginTyped ==
  ASSUME TypeOK, Named, NEW c \in Callers, Begin(c)
  PROVE  TypeOK' /\ Named'
<1>1. PICK w \in Workloads :
         \/ \E n \in Targets : CreateInsert(c, w, n) \/ BeginScale(c, w, n)
         \/ BeginPause(c, w)
         \/ BeginResume(c, w)
         \/ BeginUpdate(c, w)
         \/ BeginRestart(c, w)
         \/ BeginDeploy(c, w)
         \/ BeginDelete(c, w)
  BY DEF Begin
<1>3. ASSUME NEW n \in Targets, CreateInsert(c, w, n)
      PROVE  TypeOK' /\ Named'
  <2> DEFINE r == [state |-> "Provisioning", count |-> n, prev |-> 0]
             new == [Idle EXCEPT !.verb = "Create", !.wl = w, !.at = "spawn", !.copy = r,
                                 !.goal = n, !.todo = 0 .. (n - 1)]
  <2>1. n \in Nat
    BY ReplicasAssumption
  <2>2. r \in Rows /\ r.state # "absent"
    BY <2>1 DEF Rows, States
  <2>3. new \in Calls /\ new.wl \in Workloads /\ new.copy.state # "absent"
    <3>1. 0 .. (n - 1) \in SUBSET Nat
      BY <2>1
    <3>2. /\ new \in Calls
          /\ new.wl = w
          /\ new.copy = r
      <4> HIDE DEF r
      <4> QED BY <2>1, <2>2, <3>1 DEF Idle, Calls, Verbs
    <3> QED BY <2>2, <3>2
  <2>4. CallsTyped'
    <3>1. Become(c, new)
      BY <1>3 DEF CreateInsert
    <3> HIDE DEF new
    <3> QED BY <2>3, <3>1, BecomeKeeps DEF CallsTyped, TypeOK
  <2>5. workload' \in [Workloads -> Rows] /\ born' \subseteq Workloads
    <3>1. workload' = [workload EXCEPT ![w] = r] /\ born' = born \cup {w}
      BY <1>3 DEF CreateInsert
    <3> HIDE DEF r
    <3> QED BY <2>2, <3>1 DEF TypeOK
  <2>6. UNCHANGED <<instance, next, cut, unmarked, missed, before, mishaps>>
    BY <1>3 DEF CreateInsert
  <2> QED BY <2>4, <2>5, <2>6 DEF TypeOK, CallsTyped
<1>4. ASSUME NEW n \in Targets, BeginScale(c, w, n)
      PROVE  TypeOK' /\ Named'
  BY <1>4, LoadTyped, ReplicasAssumption DEF BeginScale, Verbs, Places
<1>5. CASE BeginResume(c, w)
  <2> DEFINE target == IF workload[w].prev # 0 THEN workload[w].prev
                       ELSE IF workload[w].count # 0 THEN workload[w].count ELSE 1
  <2>1. target \in Nat
    BY DEF TypeOK, Rows
  <2>2. Load(c, "Resume", w, "asked", target)
    BY <1>5 DEF BeginResume
  <2> HIDE DEF target
  <2> QED BY <2>1, <2>2, LoadTyped DEF Verbs, Places
<1>6. CASE \/ BeginPause(c, w) \/ BeginUpdate(c, w) \/ BeginRestart(c, w)
           \/ BeginDeploy(c, w) \/ BeginDelete(c, w)
  BY <1>6, LoadTyped DEF BeginPause, BeginUpdate, BeginRestart, BeginDeploy, BeginDelete,
                         Verbs, Places
<1>7. QED
  BY <1>1, <1>3, <1>4, <1>5, <1>6

(* The steps of Create, Update, Scale and Pause in flight.                 *)
LEMMA ScaleTyped ==
  ASSUME TypeOK, Named, NEW c \in Callers,
         \/ Failing(c) \/ CreateFinish(c) \/ PauseStamp(c) \/ ScaleGet(c) \/ MarkScaling(c)
         \/ ScaleList(c) \/ ScaleRemove(c) \/ ScaleFinish(c)
  PROVE  TypeOK' /\ Named'
<1> USE DEF Places
<1>1. CallsTyped /\ call[c].at # "idle" /\ call[c].wl \in Workloads
  <2>1. CallsTyped /\ call[c].at # "idle"
    BY DEF Failing, CreateFinish, PauseStamp, ScaleGet, MarkScaling, ScaleList, ScaleRemove,
           ScaleFinish, At, TypeOK, CallsTyped
  <2> QED BY <2>1, BusyCall
<1>2. CASE Failing(c)
  BY <1>1, <1>2, CopyTyped, SettleTyped DEF Failing, States
<1>3. CASE CreateFinish(c)
  BY <1>1, <1>3, CopyTyped, SettleTyped DEF CreateFinish, States
<1>4. CASE PauseStamp(c)
  <2>1. CallsTyped'
    <3>1. CASE Goto(c, "asked")
      BY <1>1, <3>1, GotoKeeps
    <3>2. CASE Return(c)
      BY <1>1, <3>2, ReturnKeeps
    <3> QED BY <1>4, <3>1, <3>2 DEF PauseStamp
  <2>2. workload' \in [Workloads -> Rows]
    <3>1. CASE workload' = workload
      BY <3>1 DEF TypeOK
    <3>2. CASE Write(call[c].wl, [call[c].copy EXCEPT !.prev = call[c].copy.count])
      BY <1>1, <3>2, CopyTyped, WriteKeeps DEF TypeOK
    <3> QED BY <1>4, <3>1, <3>2 DEF PauseStamp
  <2> QED BY <1>4, <2>1, <2>2, RowsTyped DEF PauseStamp
<1>5. CASE ScaleGet(c)
  <2> DEFINE r == workload[call[c].wl]
             new == [call[c] EXCEPT !.at = "loaded", !.copy = r]
  <2>1. CallsTyped'
    <3>1. CASE Present(call[c].wl) /\ Become(c, new)
      <4>1. r \in Rows /\ r.state # "absent"
        BY <1>1, <3>1 DEF Present, TypeOK
      <4>2. new \in Calls /\ new.wl \in Workloads /\ new.copy.state # "absent"
        <5> HIDE DEF r
        <5> QED BY <1>1, <4>1, BusyCall DEF Calls
      <4> HIDE DEF new
      <4> QED BY <1>1, <3>1, <4>2, BecomeKeeps
    <3>2. CASE Return(c)
      BY <1>1, <3>2, ReturnKeeps
    <3> QED BY <1>5, <3>1, <3>2 DEF ScaleGet
  <2> QED BY <1>5, <2>1, RowsTyped DEF ScaleGet, TypeOK
<1>6. CASE MarkScaling(c)
  BY <1>6, MarkTyped DEF MarkScaling, At, States
<1>7. CASE ScaleList(c)
  <2>1. PICK mine \in SUBSET Replicas(call[c].wl) :
           /\ missed' = missed \cup (Replicas(call[c].wl) \ mine)
           /\ \/ Become(c, [call[c] EXCEPT !.at = "spawn",
                               !.todo = {NextIndex(mine) + k :
                                   k \in 0 .. (call[c].goal - Cardinality(mine) - 1)}])
              \/ Become(c, [call[c] EXCEPT !.at = "walk",
                               !.todo = Victims(mine, Cardinality(mine) - call[c].goal)])
    BY <1>7, ScaleListIs, Zenon
  <2>2. /\ mine \subseteq Ids /\ Cardinality(mine) \in Nat /\ NextIndex(mine) \in Nat
        /\ call[c].goal \in Nat /\ Replicas(call[c].wl) \subseteq Ids
    BY <1>1, ListTyped, ReplicasTyped, BusyCall
  <2>3. PICK spawn : spawn = {NextIndex(mine) + k :
                                 k \in 0 .. (call[c].goal - Cardinality(mine) - 1)}
    OBVIOUS
  <2>4. PICK victims : victims = Victims(mine, Cardinality(mine) - call[c].goal)
    OBVIOUS
  <2>8. PICK n, m, g : n = NextIndex(mine) /\ m = Cardinality(mine) /\ g = call[c].goal
    OBVIOUS
  <2>9. spawn \subseteq Nat
    <3>1. n \in Nat /\ m \in Nat /\ g \in Nat
      BY <2>2, <2>8
    <3>2. spawn = {n + k : k \in 0 .. (g - m - 1)}
      BY <2>3, <2>8, Zenon
    <3> QED BY <3>1, <3>2
  <2>10. victims \subseteq Nat
    <3>1. victims \subseteq mine
      BY <2>4 DEF Victims
    <3> QED BY <2>2, <3>1 DEF Ids
  <2>5. spawn \subseteq Nat /\ victims \subseteq Nat
    BY <2>9, <2>10
  <2>6. CallsTyped'
    <3>1. ASSUME NEW place \in Places, NEW S \in SUBSET Nat,
                 Become(c, [call[c] EXCEPT !.at = place, !.todo = S])
          PROVE  CallsTyped'
      <4> DEFINE new == [call[c] EXCEPT !.at = place, !.todo = S]
      <4>1. new \in Calls /\ new.wl \in Workloads /\ new.copy.state # "absent"
        BY <1>1, BusyCall DEF Calls
      <4> HIDE DEF new
      <4> QED BY <1>1, <3>1, <4>1, BecomeKeeps DEF new
    <3> QED BY <2>1, <2>3, <2>4, <2>5, <3>1
  <2>7. missed' \subseteq Ids
    BY <2>1, <2>2 DEF TypeOK
  <2> QED BY <1>7, <2>6, <2>7 DEF ScaleList, TypeOK, CallsTyped
<1>8. CASE ScaleRemove(c)
  <2>1. PICK ok \in BOOLEAN : /\ Remove(FirstOf(call[c].todo), ok)
                              /\ IF ok THEN Become(c, Done(c, FirstOf(call[c].todo)))
                                       ELSE Goto(c, "failing")
    BY <1>8 DEF ScaleRemove
  <2>2. CallsTyped'
    <3>1. CASE Become(c, Done(c, FirstOf(call[c].todo)))
      BY <1>1, <3>1, DoneTyped, BecomeKeeps
    <3>2. CASE Goto(c, "failing")
      BY <1>1, <3>2, GotoKeeps
    <3> QED BY <2>1, <3>1, <3>2
  <2>3. instance' \in [Ids -> InstanceRows] /\ mishaps' \in Nat
    BY <2>1, RemoveTyped
  <2>4. UNCHANGED <<workload, next, born, cut, unmarked, missed, before>>
    BY <1>8 DEF ScaleRemove
  <2> QED BY <2>2, <2>3, <2>4 DEF TypeOK, CallsTyped
<1>9. CASE ScaleFinish(c)
  <2> DEFINE s == IF call[c].goal = 0 THEN "Paused" ELSE "Active"
             r == [call[c].copy EXCEPT !.count = call[c].goal, !.state = s]
  <2>1. s \in States /\ call[c].goal \in Nat /\ call[c].copy.count \in Nat
    BY <1>1, BusyCall DEF States, Rows
  <2>2. r \in Rows /\ r.state # "absent"
    <3> HIDE DEF s
    <3> QED BY <1>1, <2>1, CopyTyped
  <2>3. Write(call[c].wl, r)
    BY <1>9 DEF ScaleFinish
  <2>4. workload' \in [Workloads -> Rows]
    <3> HIDE DEF r
    <3> QED BY <1>1, <2>2, <2>3, WriteKeeps DEF TypeOK
  <2>5. before' \in [Workloads -> Nat]
    BY <1>9, <2>1 DEF ScaleFinish, TypeOK
  <2>6. CallsTyped'
    BY <1>1, <1>9, ReturnKeeps DEF ScaleFinish
  <2>7. UNCHANGED <<instance, next, born, cut, unmarked, missed, mishaps>>
    BY <1>9 DEF ScaleFinish
  <2> QED BY <2>4, <2>5, <2>6, <2>7 DEF TypeOK, CallsTyped
<1>10. QED
  BY <1>2, <1>3, <1>4, <1>5, <1>6, <1>7, <1>8, <1>9

(* The steps of Update, Restart, Deploy and Delete in flight.              *)
LEMMA WalkTyped ==
  ASSUME TypeOK, Named, NEW c \in Callers,
         \/ UpdateWrite(c) \/ MarkDeploying(c) \/ WalkList(c) \/ RestartOne(c)
         \/ RestartFinish(c) \/ DeployOne(c) \/ DeployFinish(c) \/ DeleteMark(c)
         \/ DeleteOne(c) \/ DeleteFinish(c)
  PROVE  TypeOK' /\ Named'
<1> USE DEF Places
<1>1. CallsTyped /\ call[c].at # "idle" /\ call[c].wl \in Workloads
  <2>1. CallsTyped /\ call[c].at # "idle"
    BY DEF UpdateWrite, MarkDeploying, WalkList, RestartOne, RestartFinish, DeployOne,
           DeployFinish, DeleteMark, DeleteOne, DeleteFinish, At, TypeOK, CallsTyped
  <2> QED BY <2>1, BusyCall
<1>2. CASE UpdateWrite(c)
  BY <1>1, <1>2, BusyCall, SettleTyped DEF UpdateWrite
<1>3. CASE MarkDeploying(c)
  BY <1>3, MarkTyped DEF MarkDeploying, At, States
<1>4. CASE WalkList(c)
  <2>1. PICK mine \in SUBSET Replicas(call[c].wl) :
           /\ missed' = missed \cup (Replicas(call[c].wl) \ mine)
           /\ \/ Return(c) /\ Write(call[c].wl, [call[c].copy EXCEPT !.state = "Active"])
              \/ /\ Become(c, [call[c] EXCEPT !.at = "walk", !.todo = mine])
                 /\ workload' = workload
    BY <1>4, WalkListIs, Zenon
  <2>2. mine \subseteq Nat /\ missed' \subseteq Ids
    BY <2>1, ListTyped, ReplicasTyped DEF Ids, TypeOK
  <2>3. UNCHANGED <<instance, next, born, cut, unmarked, before, mishaps>>
    BY <1>4 DEF WalkList
  <2>4. CASE Return(c) /\ Write(call[c].wl, [call[c].copy EXCEPT !.state = "Active"])
    <3>1. PICK r : r = [call[c].copy EXCEPT !.state = "Active"]
      OBVIOUS
    <3>2. r \in Rows /\ r.state # "absent"
      BY <1>1, <3>1, CopyTyped DEF States
    <3>3. workload' \in [Workloads -> Rows]
      BY <1>1, <2>4, <3>1, <3>2, WriteKeeps DEF TypeOK
    <3>4. CallsTyped'
      BY <1>1, <2>4, ReturnKeeps
    <3> QED BY <2>2, <2>3, <3>3, <3>4 DEF TypeOK, CallsTyped
  <2>5. CASE /\ Become(c, [call[c] EXCEPT !.at = "walk", !.todo = mine])
             /\ workload' = workload
    <3>1. PICK new : new = [call[c] EXCEPT !.at = "walk", !.todo = mine]
      OBVIOUS
    <3>2. new \in Calls /\ new.wl \in Workloads /\ new.copy.state # "absent"
      BY <1>1, <2>2, <3>1, BusyCall DEF Calls
    <3>3. CallsTyped'
      BY <1>1, <2>5, <3>1, <3>2, BecomeKeeps
    <3> QED BY <2>2, <2>3, <2>5, <3>3 DEF TypeOK, CallsTyped
  <2> QED BY <2>1, <2>4, <2>5
<1>5. CASE RestartOne(c)
  <2> DEFINE i == FirstOf(call[c].todo)
  <2>1. PICK ok \in BOOLEAN :
          /\ Outcome(ok)
          /\ instance' = IF Live(i)
                         THEN [instance EXCEPT ![i].state = IF ok THEN "Running" ELSE "Failed"]
                         ELSE instance
          /\ IF ok /\ Live(i) THEN Become(c, Done(c, i)) ELSE Return(c)
    BY <1>5 DEF RestartOne
  <2> HIDE DEF i
  <2>2. instance' \in [Ids -> InstanceRows]
    BY <2>1 DEF TypeOK, InstanceRows
  <2>3. CallsTyped'
    <3>1. CASE Become(c, Done(c, i))
      BY <1>1, <3>1, DoneTyped, BecomeKeeps
    <3>2. CASE Return(c)
      BY <1>1, <3>2, ReturnKeeps
    <3> QED BY <2>1, <3>1, <3>2
  <2>4. mishaps' \in Nat
    BY <2>1, OutcomeTyped DEF TypeOK
  <2>5. UNCHANGED <<workload, next, born, cut, unmarked, missed, before>>
    BY <1>5 DEF RestartOne
  <2> QED BY <2>2, <2>3, <2>4, <2>5 DEF TypeOK, CallsTyped
<1>6. CASE RestartFinish(c)
  BY <1>1, <1>6, ReturnKeeps, RowsTyped DEF RestartFinish, TypeOK
<1>7. CASE DeployOne(c)
  <2> DEFINE i == FirstOf(call[c].todo)
  <2>1. PICK ok \in BOOLEAN :
          /\ Outcome(ok)
          /\ IF ok /\ Live(i) THEN Become(c, Done(c, i)) ELSE Goto(c, "failing")
    BY <1>7 DEF DeployOne
  <2> HIDE DEF i
  <2>2. CallsTyped'
    <3>1. CASE Become(c, Done(c, i))
      BY <1>1, <3>1, DoneTyped, BecomeKeeps
    <3>2. CASE Goto(c, "failing")
      BY <1>1, <3>2, GotoKeeps
    <3> QED BY <2>1, <3>1, <3>2
  <2>3. mishaps' \in Nat
    BY <2>1, OutcomeTyped DEF TypeOK
  <2>4. UNCHANGED <<workload, instance, next, born, cut, unmarked, missed, before>>
    BY <1>7 DEF DeployOne
  <2> QED BY <2>2, <2>3, <2>4 DEF TypeOK, CallsTyped
<1>8. CASE DeployFinish(c)
  BY <1>1, <1>8, CopyTyped, SettleTyped DEF DeployFinish, States
<1>9. CASE DeleteMark(c)
  <2> DEFINE w == call[c].wl
             r == [call[c].copy EXCEPT !.state = "Destroying"]
             new == [call[c] EXCEPT !.at = "marked", !.copy = r]
  <2>1. PICK ok \in BOOLEAN :
          /\ Outcome(ok)
          /\ IF ok THEN Write(w, r) ELSE workload' = workload
          /\ unmarked' = IF ok THEN unmarked ELSE unmarked \cup {w}
    BY <1>9 DEF DeleteMark
  <2>2. r \in Rows /\ r.state # "absent"
    BY <1>1, CopyTyped DEF States
  <2>3. workload' \in [Workloads -> Rows] /\ unmarked' \subseteq Workloads
    <3> HIDE DEF r
    <3> QED BY <1>1, <2>1, <2>2, WriteKeeps DEF TypeOK
  <2>4. CallsTyped'
    <3>1. new \in Calls /\ new.wl \in Workloads /\ new.copy.state # "absent"
      <4> HIDE DEF r
      <4> QED BY <1>1, <2>2, BusyCall DEF Calls
    <3>2. Become(c, new)
      BY <1>9 DEF DeleteMark
    <3> HIDE DEF new
    <3> QED BY <1>1, <3>1, <3>2, BecomeKeeps
  <2>5. mishaps' \in Nat
    BY <2>1, OutcomeTyped DEF TypeOK
  <2>6. UNCHANGED <<instance, next, born, cut, missed, before>>
    BY <1>9 DEF DeleteMark
  <2> QED BY <2>3, <2>4, <2>5, <2>6 DEF TypeOK, CallsTyped
<1>10. CASE DeleteOne(c)
  <2> DEFINE i == FirstOf(call[c].todo)
  <2>1. PICK ok \in BOOLEAN :
          /\ Remove(i, ok)
          /\ Become(c, [Done(c, i) EXCEPT !.failed = call[c].failed \/ ~ok])
    BY <1>10 DEF DeleteOne
  <2> HIDE DEF i
  <2>2. instance' \in [Ids -> InstanceRows] /\ mishaps' \in Nat
    BY <2>1, RemoveTyped
  <2>3. CallsTyped'
    <3>1. PICK d \in Calls : d = Done(c, i) /\ d.wl \in Workloads /\ d.copy.state # "absent"
      BY <1>1, DoneTyped
    <3>2. call[c].failed \in BOOLEAN
      BY <1>1, BusyCall DEF Calls
    <3> DEFINE new == [d EXCEPT !.failed = call[c].failed \/ ~ok]
    <3>3. new \in Calls /\ new.wl \in Workloads /\ new.copy.state # "absent"
      BY <3>1, <3>2 DEF Calls
    <3>4. Become(c, new)
      BY <2>1, <3>1
    <3> HIDE DEF new
    <3> QED BY <1>1, <3>3, <3>4, BecomeKeeps
  <2>4. UNCHANGED <<workload, next, born, cut, unmarked, missed, before>>
    BY <1>10 DEF DeleteOne
  <2> QED BY <2>2, <2>3, <2>4 DEF TypeOK, CallsTyped
<1>11. CASE DeleteFinish(c)
  <2>1. workload' \in [Workloads -> Rows]
    <3>1. CASE Write(call[c].wl, [call[c].copy EXCEPT !.state = "Failed"])
      BY <1>1, <3>1, CopyTyped, WriteKeeps DEF TypeOK, States
    <3>2. CASE workload' = [workload EXCEPT ![call[c].wl] = Absent]
      BY <3>2 DEF TypeOK, Absent, Rows
    <3> QED BY <1>11, <3>1, <3>2 DEF DeleteFinish
  <2> QED BY <1>1, <1>11, <2>1, ReturnKeeps, RowsTyped DEF DeleteFinish
<1>12. QED
  BY <1>2, <1>3, <1>4, <1>5, <1>6, <1>7, <1>8, <1>9, <1>10, <1>11

(* Every step keeps the tables and the calls within their types.           *)
LEMMA TypeStep == TypeOK /\ Named /\ [Next]_vars => TypeOK' /\ Named'
<1> SUFFICES ASSUME TypeOK, Named, [Next]_vars PROVE TypeOK' /\ Named'
  OBVIOUS
<1>1. ASSUME NEW c \in Callers, Begin(c)
      PROVE  TypeOK' /\ Named'
  BY <1>1, BeginTyped
<1>2. ASSUME NEW c \in Callers, Advance(c)
      PROVE  TypeOK' /\ Named'
  BY <1>2, SpawnTyped, ScaleTyped, WalkTyped DEF Advance
<1>3. ASSUME NEW c \in Callers, Interrupt(c)
      PROVE  TypeOK' /\ Named'
  <2>1. CallsTyped' /\ mishaps' \in Nat
    BY <1>3, ReturnKeeps DEF Interrupt, TypeOK, CallsTyped
  <2>2. cut' \subseteq Workloads
    BY <1>3 DEF Interrupt, Named, TypeOK
  <2> QED BY <1>3, <2>1, <2>2 DEF Interrupt, TypeOK, CallsTyped
<1>4. CASE Reboot
  <2>1. CallsTyped' /\ cut' \subseteq Workloads /\ mishaps' \in Nat
    BY <1>4, IdleFields DEF Reboot, TypeOK, CallsTyped, Named
  <2> QED BY <1>4, <2>1 DEF Reboot, TypeOK, CallsTyped
<1>5. CASE UNCHANGED vars
  BY <1>5 DEF vars, TypeOK, Named, Ids
<1>6. QED
  BY <1>1, <1>2, <1>3, <1>4, <1>5 DEF Next

(* The tables, the calls and the history stay within their types, and a    *)
(* call in flight is always about a workload (every verb of the service).  *)
THEOREM TypeCorrect == Spec => []TypeOK
<1>1. TypeOK /\ Named /\ [Next]_vars => TypeOK' /\ Named'
  BY TypeStep
<1>2. QED
  BY <1>1, InitType, PTL DEF Spec

-----------------------------------------------------------------------------
(* No orphans.                                                             *)

\* A Delete that is still clean when it walks has every live replica of its
\* workload ahead of it, save those inserted since it began and those that it,
\* or a listing before it, could not see.
Covered ==
    \A c \in Callers : At(c, {"Delete"}, "walk") /\ ~call[c].failed =>
        \A i \in Ids : Live(i) /\ instance[i].owner = call[c].wl =>
            i \in call[c].todo \cup missed

IInv == TypeOK /\ Named /\ Covered /\ NoOrphanReplica

\* No replica appears or changes hands, and no workload row disappears.
Shrinks == \A i \in Ids : Live(i)' => Live(i) /\ instance'[i].owner = instance[i].owner

Keeps == \A w \in Workloads : Present(w) => Present(w)'

\* c alone moves, and it is not walking for a Delete afterwards.
Elsewhere(c) ==
    /\ \A d \in Callers : d # c => call'[d] = call[d]
    /\ ~At(c, {"Delete"}, "walk")'

(* Most steps disturb neither the replicas' owners nor a walking Delete.   *)
LEMMA QuietStep ==
  ASSUME Covered, NoOrphanReplica, NEW c \in Callers,
         Shrinks, Keeps, Elsewhere(c), missed \subseteq missed'
  PROVE  Covered' /\ NoOrphanReplica'
<1>1. Covered'
  <2> SUFFICES ASSUME NEW d \in Callers, At(d, {"Delete"}, "walk")', ~call'[d].failed,
                      NEW i \in Ids, Live(i)', instance'[i].owner = call'[d].wl
               PROVE  i \in call'[d].todo \cup missed'
    BY DEF Covered, Ids
  <2>1. d # c /\ call'[d] = call[d]
    BY DEF Elsewhere
  <2>2. At(d, {"Delete"}, "walk") /\ ~call[d].failed
    BY <2>1 DEF At
  <2>3. Live(i) /\ instance[i].owner = call[d].wl
    BY <2>1 DEF Shrinks
  <2> QED BY <2>1, <2>2, <2>3 DEF Covered
<1>2. NoOrphanReplica'
  <2> SUFFICES ASSUME NEW i \in Ids, Live(i)', instance'[i].owner \in Workloads,
                      ~Present(instance[i].owner)'
               PROVE  i \in missed'
    BY DEF NoOrphanReplica, Ids
  <2>1. Live(i) /\ instance'[i].owner = instance[i].owner
    BY DEF Shrinks
  <2>2. ~Present(instance[i].owner)
    BY <2>1 DEF Keeps, Present
  <2> QED BY <2>1, <2>2 DEF NoOrphanReplica
<1>3. QED
  BY <1>1, <1>2

(* What the shared steps do to the rows.                                   *)
LEMMA SameRows ==
  ASSUME instance' = instance
  PROVE  Shrinks
BY DEF Shrinks, Live

LEMMA SameWorkloads ==
  ASSUME workload' = workload
  PROVE  Keeps
BY DEF Keeps, Present

LEMMA WriteKeepsAll ==
  ASSUME TypeOK, NEW w \in Workloads, NEW r \in Rows, r.state # "absent", Write(w, r)
  PROVE  Keeps
BY WriteKeeps DEF Keeps, TypeOK

\* A replica that is there changes its state.
LEMMA StateShrinks ==
  ASSUME TypeOK, NEW i, Live(i), NEW s, instance' = [instance EXCEPT ![i].state = s]
  PROVE  Shrinks
<1> SUFFICES ASSUME NEW j \in Ids, Live(j)'
             PROVE  Live(j) /\ instance'[j].owner = instance[j].owner
  BY DEF Shrinks
<1>1. CASE j = i
  BY <1>1 DEF TypeOK, InstanceRows
<1>2. CASE j # i
  BY <1>2 DEF TypeOK, Live
<1>3. QED
  BY <1>1, <1>2

(* instance.Delete: the replica is gone when it says so.                   *)
LEMMA RemoveShrinks ==
  ASSUME TypeOK, NEW i, NEW ok \in BOOLEAN, Remove(i, ok)
  PROVE  Shrinks /\ (ok /\ i \in Ids => ~Live(i)')
<1>1. CASE Live(i) /\ instance' = [instance EXCEPT ![i].state = IF ok THEN "absent" ELSE "Failed"]
  <2>1. Shrinks
    <3> DEFINE s == IF ok THEN "absent" ELSE "Failed"
    <3>1. instance' = [instance EXCEPT ![i].state = s]
      BY <1>1
    <3> HIDE DEF s
    <3> QED BY <1>1, <3>1, StateShrinks
  <2>2. ok /\ i \in Ids => ~Live(i)'
    BY <1>1 DEF Live, TypeOK, InstanceRows
  <2> QED BY <2>1, <2>2
<1>2. CASE ~ok /\ instance' = instance
  BY <1>2, SameRows
<1>3. QED
  BY <1>1, <1>2 DEF Remove

(* A caller that moves on, or returns, is elsewhere.                       *)
LEMMA ReturnElsewhere ==
  ASSUME CallsTyped, NEW c \in Callers, Return(c)
  PROVE  Elsewhere(c)
<1>1. call'[c] = Idle /\ \A d \in Callers : d # c => call'[d] = call[d]
  BY ReturnKeeps
<1>2. QED
  BY <1>1, IdleFields DEF Elsewhere, At

LEMMA GotoElsewhere ==
  ASSUME CallsTyped, NEW c \in Callers, call[c].at # "idle",
         NEW place \in Places, place # "walk", Goto(c, place)
  PROVE  Elsewhere(c)
<1>1. /\ call'[c] = [call[c] EXCEPT !.at = place]
      /\ \A d \in Callers : d # c => call'[d] = call[d]
  BY GotoKeeps
<1>2. call'[c].at = place
  BY <1>1, BusyCall DEF Calls
<1>3. QED
  BY <1>1, <1>2 DEF Elsewhere, At

LEMMA BecomeElsewhere ==
  ASSUME CallsTyped, NEW c \in Callers, NEW r, Become(c, r),
         r.at # "walk" \/ r.verb # "Delete"
  PROVE  Elsewhere(c)
<1>1. call'[c] = r /\ \A d \in Callers : d # c => call'[d] = call[d]
  BY DEF Become, CallsTyped
<1>2. QED
  BY <1>1 DEF Elsewhere, At

\* A loop of another verb than Delete, or in another place than its walk.
LEMMA DoneElsewhere ==
  ASSUME CallsTyped, NEW c \in Callers, call[c].at # "idle", NEW x, Become(c, Done(c, x)),
         call[c].at # "walk" \/ call[c].verb # "Delete"
  PROVE  Elsewhere(c)
<1>1. Done(c, x).at = call[c].at /\ Done(c, x).verb = call[c].verb
  BY BusyCall DEF Done, Calls
<1>2. PICK r : r = Done(c, x)
  OBVIOUS
<1>3. QED
  BY <1>1, <1>2, BecomeElsewhere

(* The verbs begin: a row appears at most, and nobody walks yet.           *)
LEMMA BeginQuiet ==
  ASSUME IInv, NEW c \in Callers, Begin(c)
  PROVE  Covered' /\ NoOrphanReplica'
<1>1. CallsTyped
  BY DEF IInv, TypeOK, CallsTyped
<1>2. ASSUME NEW w \in Workloads, NEW verb, NEW place, place # "walk", NEW goal,
             Load(c, verb, w, place, goal)
      PROVE  Covered' /\ NoOrphanReplica'
  <2> DEFINE r == [Idle EXCEPT !.verb = verb, !.wl = w, !.at = place,
                               !.copy = workload[w], !.goal = goal]
  <2>1. r.at = place
    BY DEF Idle
  <2>2. Become(c, r)
    BY <1>2 DEF Load
  <2>3. Elsewhere(c)
    <3> HIDE DEF r
    <3> QED BY <1>1, <1>2, <2>1, <2>2, BecomeElsewhere
  <2>4. workload' = workload /\ instance' = instance /\ missed' = missed
    BY <1>2 DEF Load
  <2> QED BY <2>3, <2>4, SameRows, SameWorkloads, QuietStep DEF IInv
<1>3. ASSUME NEW w \in Workloads, NEW n \in Targets, CreateInsert(c, w, n)
      PROVE  Covered' /\ NoOrphanReplica'
  <2> DEFINE r == [state |-> "Provisioning", count |-> n, prev |-> 0]
             new == [Idle EXCEPT !.verb = "Create", !.wl = w, !.at = "spawn", !.copy = r,
                                 !.goal = n, !.todo = 0 .. (n - 1)]
  <2>1. new.at = "spawn"
    BY DEF Idle
  <2>2. Become(c, new)
    BY <1>3 DEF CreateInsert
  <2>3. Elsewhere(c)
    <3> HIDE DEF new
    <3> QED BY <1>1, <2>1, <2>2, BecomeElsewhere
  <2>4. Keeps
    BY <1>3 DEF CreateInsert, Keeps, Present, IInv, TypeOK
  <2>5. instance' = instance /\ missed' = missed
    BY <1>3 DEF CreateInsert
  <2> QED BY <2>3, <2>4, <2>5, SameRows, QuietStep DEF IInv
<1>4. PICK w \in Workloads :
         \/ \E n \in Targets : CreateInsert(c, w, n) \/ BeginScale(c, w, n)
         \/ BeginPause(c, w)
         \/ BeginResume(c, w)
         \/ BeginUpdate(c, w)
         \/ BeginRestart(c, w)
         \/ BeginDeploy(c, w)
         \/ BeginDelete(c, w)
  BY DEF Begin
<1>5. ASSUME NEW n \in Targets, BeginScale(c, w, n)
      PROVE  Covered' /\ NoOrphanReplica'
  BY <1>2, <1>5 DEF BeginScale
<1>6. CASE BeginResume(c, w)
  <2>1. \E goal : Load(c, "Resume", w, "asked", goal)
    BY <1>6 DEF BeginResume
  <2> QED BY <1>2, <2>1
<1>7. CASE \/ BeginPause(c, w) \/ BeginUpdate(c, w) \/ BeginRestart(c, w)
           \/ BeginDeploy(c, w) \/ BeginDelete(c, w)
  BY <1>2, <1>7 DEF BeginPause, BeginUpdate, BeginRestart, BeginDeploy, BeginDelete
<1>8. QED
  BY <1>3, <1>4, <1>5, <1>6, <1>7

(* A spawned row is missed when a Delete is in flight or the workload   *)
(* is gone, and covered by its workload's row otherwise.                   *)
LEMMA SpawnCovered ==
  ASSUME IInv, NEW c \in Callers, SpawnLookup(c) \/ SpawnInsert(c) \/ SpawnProvision(c)
  PROVE  Covered' /\ NoOrphanReplica'
<1> USE DEF Places
<1>1. CallsTyped /\ TypeOK /\ call[c].at \in {"spawn", "insert", "provision"}
  BY DEF SpawnLookup, SpawnInsert, SpawnProvision, IInv, TypeOK, CallsTyped
<1>2. CASE SpawnLookup(c)
  <2>1. Elsewhere(c)
    <3>1. CASE Become(c, Done(c, Lowest(call[c].todo)))
      BY <1>1, <3>1, DoneElsewhere
    <3>2. CASE Goto(c, "failing") \/ Goto(c, "insert")
      BY <1>1, <3>2, GotoElsewhere
    <3> QED BY <1>2, <3>1, <3>2 DEF SpawnLookup
  <2>2. workload' = workload /\ instance' = instance /\ missed' = missed
    BY <1>2 DEF SpawnLookup
  <2> QED BY <2>1, <2>2, SameRows, SameWorkloads, QuietStep DEF IInv
<1>3. CASE SpawnInsert(c)
  <2> DEFINE w == call[c].wl
             row == [owner |-> w, index |-> Lowest(call[c].todo), state |-> "Provisioning"]
             r == [call[c] EXCEPT !.at = "provision", !.inst = next]
  <2>1. workload' = workload
    BY <1>3 DEF SpawnInsert
  <2>2. CASE /\ next \in Ids
             /\ instance' = [instance EXCEPT ![next] = row]
             /\ missed' = IF Deleting(w) \/ ~Present(w)
                             THEN missed \cup {next} ELSE missed
             /\ Become(c, r)
    <3>1. \A i \in Ids : i # next => instance'[i] = instance[i]
      BY <2>2 DEF IInv, TypeOK
    <3>2. instance'[next].owner = w
      BY <2>2 DEF IInv, TypeOK
    <3>3. \A d \in Callers : d # c => call'[d] = call[d]
      <4> HIDE DEF r
      <4> QED BY <2>2 DEF Become, IInv, TypeOK
    <3>4. ~At(c, {"Delete"}, "walk")'
      <4>1. r.at = "provision"
        BY <1>1, BusyCall DEF Calls
      <4> HIDE DEF r
      <4> QED BY <2>2, <4>1 DEF Become, At, IInv, TypeOK
    <3>5. Covered'
      <4> SUFFICES ASSUME NEW d \in Callers, At(d, {"Delete"}, "walk")', ~call'[d].failed,
                          NEW i \in Ids, Live(i)', instance'[i].owner = call'[d].wl
                   PROVE  i \in call'[d].todo \cup missed'
        BY DEF Covered, Ids
      <4>1. d # c /\ call'[d] = call[d] /\ At(d, {"Delete"}, "walk")
        BY <3>3, <3>4 DEF At
      <4>2. CASE i = next
        <5>1. Deleting(w)
          BY <3>2, <4>1, <4>2 DEF Deleting, At
        <5> QED BY <2>2, <4>2, <5>1
      <4>3. CASE i # next
        <5>1. i \in call[d].todo \cup missed
          BY <3>1, <4>1, <4>3 DEF IInv, Covered, Live
        <5> QED BY <2>2, <4>1, <5>1
      <4> QED BY <4>2, <4>3
    <3>6. NoOrphanReplica'
      <4> SUFFICES ASSUME NEW i \in Ids, Live(i)', instance'[i].owner \in Workloads,
                          ~Present(instance[i].owner)'
                   PROVE  i \in missed'
        BY DEF NoOrphanReplica, Ids
      <4>1. CASE i = next
        <5>1. ~Present(w)
          BY <2>1, <3>2, <4>1 DEF Present
        <5> QED BY <2>2, <4>1, <5>1
      <4>2. CASE i # next
        <5>1. i \in missed
          BY <2>1, <3>1, <4>2 DEF IInv, NoOrphanReplica, Live, Present
        <5> QED BY <2>2, <5>1
      <4> QED BY <4>1, <4>2
    <3> QED BY <3>5, <3>6
  <2>3. CASE Goto(c, "failing") /\ UNCHANGED <<instance, next, missed>>
    <3>1. Elsewhere(c)
      BY <1>1, <2>3, GotoElsewhere
    <3> QED BY <2>1, <2>3, <3>1, SameRows, SameWorkloads, QuietStep DEF IInv
  <2> QED BY <1>3, <2>2, <2>3 DEF SpawnInsert
<1>4. CASE SpawnProvision(c)
  <2> DEFINE i == call[c].inst
             r == [Done(c, instance[i].index) EXCEPT !.at = "spawn", !.inst = 0]
  <2>1. PICK ok \in BOOLEAN :
          /\ instance' = IF Live(i)
                         THEN [instance EXCEPT ![i].state = IF ok THEN "Running" ELSE "Failed"]
                         ELSE instance
          /\ Become(c, r) \/ Goto(c, "failing")
    BY <1>4 DEF SpawnProvision
  <2>2. Shrinks
    <3> DEFINE s == IF ok THEN "Running" ELSE "Failed"
    <3>1. CASE Live(i) /\ instance' = [instance EXCEPT ![i].state = s]
      <4> HIDE DEF s, i
      <4> QED BY <1>1, <3>1, StateShrinks
    <3>2. CASE instance' = instance
      BY <3>2, SameRows
    <3> QED BY <2>1, <3>1, <3>2
  <2>3. Elsewhere(c)
    <3>1. CASE Become(c, r)
      <4>1. r.at = "spawn"
        BY <1>1, BusyCall DEF Done, Calls
      <4> HIDE DEF r
      <4> QED BY <1>1, <3>1, <4>1, BecomeElsewhere
    <3>2. CASE Goto(c, "failing")
      BY <1>1, <3>2, GotoElsewhere
    <3> QED BY <2>1, <3>1, <3>2
  <2>4. workload' = workload /\ missed' = missed
    BY <1>4 DEF SpawnProvision
  <2> QED BY <2>2, <2>3, <2>4, SameWorkloads, QuietStep DEF IInv
<1>5. QED
  BY <1>2, <1>3, <1>4

(* The verbs other than Delete write rows back, walk and return.           *)
LEMMA ScaleQuiet ==
  ASSUME IInv, NEW c \in Callers,
         \/ Failing(c) \/ CreateFinish(c) \/ PauseStamp(c) \/ ScaleGet(c) \/ MarkScaling(c)
         \/ ScaleList(c) \/ ScaleRemove(c) \/ ScaleFinish(c)
  PROVE  Covered' /\ NoOrphanReplica'
<1> USE DEF Places
<1>1. CallsTyped /\ TypeOK /\ call[c].at # "idle" /\ call[c].wl \in Workloads
  <2>1. CallsTyped /\ TypeOK /\ call[c].at # "idle"
    BY DEF Failing, CreateFinish, PauseStamp, ScaleGet, MarkScaling, ScaleList, ScaleRemove,
           ScaleFinish, At, IInv, TypeOK, CallsTyped
  <2> QED BY <2>1, BusyCall
<1>2. missed \subseteq missed'
  BY DEF Failing, CreateFinish, PauseStamp, ScaleGet, MarkScaling, Mark, ScaleList, ScaleRemove,
         ScaleFinish
<1>3. Shrinks
  <2>1. CASE ScaleRemove(c)
    BY <1>1, <2>1, RemoveShrinks DEF ScaleRemove
  <2>2. CASE instance' = instance
    BY <2>2, SameRows
  <2> QED BY <2>1, <2>2 DEF Failing, CreateFinish, PauseStamp, ScaleGet, MarkScaling, Mark,
                            ScaleList, ScaleFinish
<1>4. Keeps
  <2>1. CASE workload' = workload
    BY <2>1, SameWorkloads
  <2>2. CASE \E r \in Rows : r.state # "absent" /\ Write(call[c].wl, r)
    BY <1>1, <2>2, WriteKeepsAll
  <2>3. CASE Failing(c) \/ CreateFinish(c)
    BY <1>1, <2>2, <2>3, CopyTyped DEF Failing, CreateFinish, States
  <2>4. CASE PauseStamp(c)
    BY <1>1, <2>1, <2>2, <2>4, CopyTyped DEF PauseStamp
  <2>5. CASE MarkScaling(c)
    BY <1>1, <2>2, <2>5, CopyTyped DEF MarkScaling, Mark, States
  <2>6. CASE ScaleFinish(c)
    <3> DEFINE s == IF call[c].goal = 0 THEN "Paused" ELSE "Active"
               r == [call[c].copy EXCEPT !.count = call[c].goal, !.state = s]
    <3>1. s \in States /\ call[c].goal \in Nat
      BY <1>1, BusyCall DEF States
    <3>2. r \in Rows /\ r.state # "absent"
      <4> HIDE DEF s
      <4> QED BY <1>1, <3>1, CopyTyped
    <3>3. Write(call[c].wl, r)
      BY <2>6 DEF ScaleFinish
    <3> HIDE DEF r
    <3> QED BY <2>2, <3>2, <3>3
  <2> QED BY <2>1, <2>3, <2>4, <2>5, <2>6 DEF ScaleGet, ScaleList, ScaleRemove
<1>5. Elsewhere(c)
  <2>1. CASE Return(c)
    BY <1>1, <2>1, ReturnElsewhere
  <2>2. CASE \E place \in Places : place # "walk" /\ Goto(c, place)
    BY <1>1, <2>2, GotoElsewhere
  <2>3. CASE \E r : (r.at # "walk" \/ r.verb # "Delete") /\ Become(c, r)
    BY <1>1, <2>3, BecomeElsewhere
  <2>4. CASE Failing(c) \/ CreateFinish(c) \/ ScaleFinish(c)
    BY <2>1, <2>4 DEF Failing, CreateFinish, ScaleFinish
  <2>5. CASE PauseStamp(c)
    BY <2>1, <2>2, <2>5 DEF PauseStamp
  <2>6. CASE ScaleGet(c)
    <3> DEFINE r == [call[c] EXCEPT !.at = "loaded", !.copy = workload[call[c].wl]]
    <3>1. r.at = "loaded"
      BY <1>1, BusyCall DEF Calls
    <3>2. Return(c) \/ Become(c, r)
      BY <2>6 DEF ScaleGet
    <3> HIDE DEF r
    <3> QED BY <2>1, <2>3, <3>1, <3>2
  <2>7. CASE MarkScaling(c)
    <3> DEFINE r == [call[c] EXCEPT !.at = "marked",
                                    !.copy = [call[c].copy EXCEPT !.state = "Scaling"]]
    <3>1. r.at = "marked"
      BY <1>1, BusyCall DEF Calls
    <3>2. Return(c) \/ Become(c, r)
      BY <2>7 DEF MarkScaling, Mark
    <3> HIDE DEF r
    <3> QED BY <2>1, <2>3, <3>1, <3>2
  <2>8. CASE ScaleList(c)
    <3>1. \E place, S : Become(c, [call[c] EXCEPT !.at = place, !.todo = S])
      BY <2>8 DEF ScaleList
    <3>2. PICK place, S : Become(c, [call[c] EXCEPT !.at = place, !.todo = S])
      BY <3>1
    <3> DEFINE r == [call[c] EXCEPT !.at = place, !.todo = S]
    <3>3. r.verb # "Delete"
      BY <1>1, <2>8, BusyCall DEF Calls, ScaleList, At, Scalers
    <3> HIDE DEF r
    <3> QED BY <2>3, <3>2, <3>3 DEF r
  <2>9. CASE ScaleRemove(c)
    <3>1. call[c].verb # "Delete"
      BY <2>9 DEF ScaleRemove, At, Scalers
    <3>2. Goto(c, "failing") \/ \E x : Become(c, Done(c, x))
      BY <2>9 DEF ScaleRemove
    <3> QED BY <1>1, <2>2, <3>1, <3>2, DoneElsewhere
  <2> QED BY <2>4, <2>5, <2>6, <2>7, <2>8, <2>9
<1>6. QED
  BY <1>2, <1>3, <1>4, <1>5, QuietStep DEF IInv

(* Update, Restart and Deploy too.                                         *)
LEMMA WalkQuiet ==
  ASSUME IInv, NEW c \in Callers,
         \/ UpdateWrite(c) \/ MarkDeploying(c) \/ RestartOne(c) \/ RestartFinish(c)
         \/ DeployOne(c) \/ DeployFinish(c) \/ DeleteMark(c)
  PROVE  Covered' /\ NoOrphanReplica'
<1> USE DEF Places
<1>1. CallsTyped /\ TypeOK /\ call[c].at # "idle" /\ call[c].wl \in Workloads
  <2>1. CallsTyped /\ TypeOK /\ call[c].at # "idle"
    BY DEF UpdateWrite, MarkDeploying, RestartOne, RestartFinish, DeployOne, DeployFinish,
           DeleteMark, At, IInv, TypeOK, CallsTyped
  <2> QED BY <2>1, BusyCall
<1>2. missed' = missed
  BY DEF UpdateWrite, MarkDeploying, Mark, RestartOne, RestartFinish, DeployOne, DeployFinish,
         DeleteMark
<1>3. Shrinks
  <2>1. CASE instance' = instance
    BY <2>1, SameRows
  <2>2. CASE RestartOne(c)
    <3>1. \/ instance' = instance
          \/ \E i, s : Live(i) /\ instance' = [instance EXCEPT ![i].state = s]
      BY <2>2 DEF RestartOne
    <3> QED BY <1>1, <2>1, <3>1, StateShrinks
  <2> QED BY <2>1, <2>2 DEF UpdateWrite, MarkDeploying, Mark, RestartFinish, DeployOne,
                            DeployFinish, DeleteMark
<1>4. Keeps
  <2>1. CASE workload' = workload
    BY <2>1, SameWorkloads
  <2>2. CASE \E r \in Rows : r.state # "absent" /\ Write(call[c].wl, r)
    BY <1>1, <2>2, WriteKeepsAll
  <2>3. CASE UpdateWrite(c)
    BY <1>1, <2>2, <2>3, BusyCall DEF UpdateWrite
  <2>4. CASE MarkDeploying(c) \/ DeployFinish(c) \/ DeleteMark(c)
    BY <1>1, <2>1, <2>2, <2>4, CopyTyped DEF MarkDeploying, Mark, DeployFinish, DeleteMark, States
  <2> QED BY <2>1, <2>3, <2>4 DEF RestartOne, RestartFinish, DeployOne
<1>5. Elsewhere(c)
  <2>1. CASE Return(c)
    BY <1>1, <2>1, ReturnElsewhere
  <2>2. CASE UpdateWrite(c) \/ RestartFinish(c) \/ DeployFinish(c)
    BY <2>1, <2>2 DEF UpdateWrite, RestartFinish, DeployFinish
  <2>3. CASE MarkDeploying(c) \/ DeleteMark(c)
    <3>1. Return(c) \/ \E copy : Become(c, [call[c] EXCEPT !.at = "marked", !.copy = copy])
      BY <2>3 DEF MarkDeploying, Mark, DeleteMark
    <3>2. ASSUME NEW copy, Become(c, [call[c] EXCEPT !.at = "marked", !.copy = copy])
          PROVE  Elsewhere(c)
      <4> DEFINE r == [call[c] EXCEPT !.at = "marked", !.copy = copy]
      <4>1. r.at = "marked"
        BY <1>1, BusyCall DEF Calls
      <4> HIDE DEF r
      <4> QED BY <1>1, <3>2, <4>1, BecomeElsewhere DEF r
    <3> QED BY <2>1, <3>1, <3>2
  <2>4. CASE RestartOne(c) \/ DeployOne(c)
    <3>1. call[c].verb # "Delete"
      BY <2>4 DEF RestartOne, DeployOne, At
    <3>2. Return(c) \/ Goto(c, "failing") \/ \E x : Become(c, Done(c, x))
      BY <2>4 DEF RestartOne, DeployOne
    <3> QED BY <1>1, <2>1, <3>1, <3>2, GotoElsewhere, DoneElsewhere
  <2> QED BY <2>2, <2>3, <2>4
<1>6. QED
  BY <1>2, <1>3, <1>4, <1>5, QuietStep DEF IInv

(* ListInstances puts every replica ahead of a Delete's walk or misses it. *)
LEMMA ListCovered ==
  ASSUME IInv, NEW c \in Callers, WalkList(c)
  PROVE  Covered' /\ NoOrphanReplica'
<1>1. CallsTyped /\ TypeOK /\ call[c].at # "idle" /\ call[c].wl \in Workloads
  <2>1. CallsTyped /\ TypeOK /\ call[c].at # "idle"
    BY DEF WalkList, At, IInv, TypeOK, CallsTyped
  <2> QED BY <2>1, BusyCall
<1>2. PICK mine \in SUBSET Replicas(call[c].wl) :
         /\ missed' = missed \cup (Replicas(call[c].wl) \ mine)
         /\ \/ Return(c) /\ Write(call[c].wl, [call[c].copy EXCEPT !.state = "Active"])
            \/ /\ Become(c, [call[c] EXCEPT !.at = "walk", !.todo = mine])
               /\ workload' = workload
  BY WalkListIs, Zenon
<1>3. instance' = instance /\ missed \subseteq missed'
  BY <1>2 DEF WalkList
<1>4. CASE Return(c) /\ Write(call[c].wl, [call[c].copy EXCEPT !.state = "Active"])
  <2>1. Elsewhere(c) /\ Keeps /\ Shrinks
    BY <1>1, <1>3, <1>4, ReturnElsewhere, SameRows, CopyTyped, WriteKeepsAll DEF States
  <2> QED BY <1>3, <2>1, QuietStep DEF IInv
<1>5. CASE /\ Become(c, [call[c] EXCEPT !.at = "walk", !.todo = mine])
           /\ workload' = workload
  <2>1. PICK r : r = [call[c] EXCEPT !.at = "walk", !.todo = mine]
    OBVIOUS
  <2>2. r.wl = call[c].wl /\ r.todo = mine
    BY <1>1, <2>1, BusyCall DEF Calls
  <2>3. call'[c] = r /\ \A d \in Callers : d # c => call'[d] = call[d]
    BY <1>1, <1>5, <2>1 DEF Become, TypeOK
  <2>4. Covered'
    <3> SUFFICES ASSUME NEW d \in Callers, At(d, {"Delete"}, "walk")', ~call'[d].failed,
                        NEW i \in Ids, Live(i)', instance'[i].owner = call'[d].wl
                 PROVE  i \in call'[d].todo \cup missed'
      BY DEF Covered, Ids
    <3>1. Live(i) /\ instance[i].owner = call'[d].wl
      BY <1>3 DEF Live
    <3>2. CASE d = c
      <4>1. i \in Replicas(call[c].wl)
        BY <2>2, <2>3, <3>1, <3>2 DEF Replicas
      <4> QED BY <1>2, <2>2, <2>3, <3>2, <4>1
    <3>3. CASE d # c
      BY <1>3, <2>3, <3>1, <3>3 DEF IInv, Covered, At
    <3> QED BY <3>2, <3>3
  <2>5. NoOrphanReplica'
    BY <1>3, <1>5 DEF IInv, NoOrphanReplica, Ids, Live, Present
  <2> QED BY <2>4, <2>5
<1>6. QED
  BY <1>2, <1>4, <1>5

(* A clean Delete goes on only past a replica that is gone.                *)
LEMMA DeleteOneCovered ==
  ASSUME IInv, NEW c \in Callers, DeleteOne(c)
  PROVE  Covered' /\ NoOrphanReplica'
<1>0. PICK i : i = FirstOf(call[c].todo)
  OBVIOUS
<1>1. CallsTyped /\ TypeOK /\ At(c, {"Delete"}, "walk") /\ call[c].at # "idle"
  BY DEF DeleteOne, At, IInv, TypeOK, CallsTyped
<1>2. PICK ok \in BOOLEAN :
        /\ Remove(i, ok)
        /\ Become(c, [Done(c, i) EXCEPT !.failed = call[c].failed \/ ~ok])
  BY <1>0 DEF DeleteOne
<1>3. Shrinks /\ (ok /\ i \in Ids => ~Live(i)')
  BY <1>1, <1>2, RemoveShrinks
<1>4. workload' = workload /\ missed' = missed
  BY DEF DeleteOne
<1>5. /\ call'[c].wl = call[c].wl
      /\ call'[c].todo = call[c].todo \ {i}
      /\ ~call'[c].failed => ok /\ ~call[c].failed
      /\ \A d \in Callers : d # c => call'[d] = call[d]
  <2>1. PICK e \in Calls : e = Done(c, i) /\ e.wl = call[c].wl /\ e.todo = call[c].todo \ {i}
    BY <1>1, DoneTyped
  <2> DEFINE new == [e EXCEPT !.failed = call[c].failed \/ ~ok]
  <2>2. new.wl = e.wl /\ new.todo = e.todo /\ (~new.failed => ok /\ ~call[c].failed)
    BY DEF Calls
  <2>3. Become(c, new)
    BY <1>2, <2>1
  <2>4. call'[c] = new /\ \A d \in Callers : d # c => call'[d] = call[d]
    <3> HIDE DEF new
    <3> QED BY <1>1, <2>3 DEF Become, TypeOK
  <2> HIDE DEF new
  <2> QED BY <2>1, <2>2, <2>4
<1>6. Covered'
  <2> SUFFICES ASSUME NEW d \in Callers, At(d, {"Delete"}, "walk")', ~call'[d].failed,
                      NEW j \in Ids, Live(j)', instance'[j].owner = call'[d].wl
               PROVE  j \in call'[d].todo \cup missed'
    BY DEF Covered, Ids
  <2>1. Live(j) /\ instance[j].owner = call'[d].wl
    BY <1>3 DEF Shrinks
  <2>2. CASE d = c
    <3>1. ok /\ ~call[c].failed
      BY <1>5, <2>2
    <3>2. j \in call[c].todo \cup missed
      BY <1>1, <1>5, <2>1, <2>2, <3>1 DEF IInv, Covered
    <3>3. j # i
      BY <1>3, <3>1
    <3> QED BY <1>4, <1>5, <2>2, <3>2, <3>3
  <2>3. CASE d # c
    BY <1>4, <1>5, <2>1, <2>3 DEF IInv, Covered, At
  <2> QED BY <2>2, <2>3
<1>7. NoOrphanReplica'
  <2> SUFFICES ASSUME NEW j \in Ids, Live(j)', instance'[j].owner \in Workloads,
                      ~Present(instance[j].owner)'
               PROVE  j \in missed'
    BY DEF NoOrphanReplica, Ids
  <2>1. Live(j) /\ instance'[j].owner = instance[j].owner
    BY <1>3 DEF Shrinks
  <2> QED BY <1>4, <2>1 DEF IInv, NoOrphanReplica, Present
<1>8. QED
  BY <1>6, <1>7

(* Delete drops the row only after a clean walk, with no replica ahead.    *)
LEMMA DeleteFinishCovered ==
  ASSUME IInv, NEW c \in Callers, DeleteFinish(c)
  PROVE  Covered' /\ NoOrphanReplica'
<1>1. CallsTyped /\ TypeOK /\ At(c, {"Delete"}, "walk") /\ call[c].at # "idle"
  BY DEF DeleteFinish, At, IInv, TypeOK, CallsTyped
<1>2. Elsewhere(c) /\ Shrinks /\ missed' = missed
  BY <1>1, ReturnElsewhere, SameRows DEF DeleteFinish
<1>3. CASE call[c].failed
  <2>1. Keeps
    BY <1>1, <1>3, BusyCall, CopyTyped, WriteKeepsAll DEF DeleteFinish, States
  <2> QED BY <1>2, <2>1, QuietStep DEF IInv
<1>4. CASE ~call[c].failed
  <2>1. call[c].todo = {} /\ workload' = [workload EXCEPT ![call[c].wl] = Absent]
    BY <1>4 DEF DeleteFinish
  <2>2. Covered'
    <3> SUFFICES ASSUME NEW d \in Callers, At(d, {"Delete"}, "walk")', ~call'[d].failed,
                        NEW i \in Ids, Live(i)', instance'[i].owner = call'[d].wl
                 PROVE  i \in call'[d].todo \cup missed'
      BY DEF Covered, Ids
    <3>1. d # c /\ call'[d] = call[d]
      BY <1>2 DEF Elsewhere
    <3>2. Live(i) /\ instance[i].owner = call[d].wl
      BY <1>2, <3>1 DEF Shrinks
    <3> QED BY <1>2, <3>1, <3>2 DEF IInv, Covered, At
  <2>3. NoOrphanReplica'
    <3> SUFFICES ASSUME NEW i \in Ids, Live(i)', instance'[i].owner \in Workloads,
                        ~Present(instance[i].owner)'
                 PROVE  i \in missed'
      BY DEF NoOrphanReplica, Ids
    <3>1. Live(i) /\ instance'[i].owner = instance[i].owner
      BY <1>2 DEF Shrinks
    <3>2. CASE instance[i].owner = call[c].wl
      BY <1>1, <1>2, <1>4, <2>1, <3>1, <3>2 DEF IInv, Covered
    <3>3. CASE instance[i].owner # call[c].wl
      <4>1. ~Present(instance[i].owner)
        BY <2>1, <3>1, <3>3 DEF Present, IInv, TypeOK
      <4> QED BY <1>2, <3>1, <4>1 DEF IInv, NoOrphanReplica
    <3> QED BY <3>2, <3>3
  <2> QED BY <2>2, <2>3
<1>5. QED
  BY <1>3, <1>4

(* IInv is inductive.                                                      *)
LEMMA IInvStep == IInv /\ [Next]_vars => IInv'
<1> SUFFICES ASSUME IInv, [Next]_vars PROVE IInv'
  OBVIOUS
<1>1. TypeOK' /\ Named'
  BY TypeStep DEF IInv
<1>2. Covered' /\ NoOrphanReplica'
  <2>1. ASSUME NEW c \in Callers, Begin(c)
        PROVE  Covered' /\ NoOrphanReplica'
    BY <2>1, BeginQuiet
  <2>2. ASSUME NEW c \in Callers, Advance(c)
        PROVE  Covered' /\ NoOrphanReplica'
    BY <2>2, SpawnCovered, ScaleQuiet, WalkQuiet, ListCovered, DeleteOneCovered,
       DeleteFinishCovered DEF Advance
  <2>3. ASSUME NEW c \in Callers, Interrupt(c)
        PROVE  Covered' /\ NoOrphanReplica'
    <3>1. Elsewhere(c)
      BY <2>3, ReturnElsewhere DEF Interrupt, IInv, TypeOK, CallsTyped
    <3>2. workload' = workload /\ instance' = instance /\ missed' = missed
      BY <2>3 DEF Interrupt
    <3> QED BY <3>1, <3>2, SameRows, SameWorkloads, QuietStep DEF IInv
  <2>4. CASE Reboot
    <3>1. Covered'
      BY <2>4, IdleFields DEF Reboot, Covered, At
    <3>2. NoOrphanReplica'
      BY <2>4 DEF Reboot, IInv, NoOrphanReplica, Ids, Live, Present
    <3> QED BY <3>1, <3>2
  <2>5. CASE UNCHANGED vars
    BY <2>5 DEF vars, IInv, Covered, At, NoOrphanReplica, Ids, Live, Present
  <2> QED BY <2>1, <2>2, <2>3, <2>4, <2>5 DEF Next
<1>3. QED
  BY <1>1, <1>2 DEF IInv

LEMMA IInvInit == Init => IInv
<1> SUFFICES ASSUME Init PROVE IInv
  OBVIOUS
<1>1. TypeOK /\ Named
  BY InitType
<1>2. Covered
  BY IdleFields DEF Init, Covered, At
<1>3. NoOrphanReplica
  <2> SUFFICES ASSUME NEW i \in Ids PROVE ~(Live(i) /\ instance[i].owner \in Workloads)
    BY DEF NoOrphanReplica
  <2> QED BY ReplicasAssumption DEF Init, Live
<1>4. QED
  BY <1>1, <1>2, <1>3 DEF IInv

(* A replica outlives its workload's row only if it was inserted while a   *)
(* Delete of the workload was in flight, or after it, or was left out by a *)
(* listing (service.Delete drops the row last, and only when every replica *)
(* it listed is gone), however little of the replicas a listing reaches.   *)
THEOREM NoOrphans == Spec => []NoOrphanReplica
<1>1. IInv => NoOrphanReplica
  BY DEF IInv
<1>2. QED
  BY <1>1, IInvInit, IInvStep, PTL DEF Spec

-----------------------------------------------------------------------------
(* A row in a working state has a call that will settle it.                *)

\* Every verb issued ends by writing a settled state, or writes nothing: Update
\* and Pause write back the state they loaded.
Settling == \A c \in Callers : MayCall[c] \cap {"Update", "Pause"} = {}

Walking == {"marked", "spawn", "insert", "provision", "walk", "failing"}

\* Past its mark, every verb but Restart is bound to write the row once more.
Driving(c) == call[c].at \in Walking /\ call[c].verb # "Restart"

Permitted == \A c \in Callers : call[c].verb \in MayCall[c] \cup {"none"}

Driven ==
    \A w \in Workloads :
        workload[w].state \in Working =>
            w \in cut \/ \E c \in Callers : call[c].wl = w /\ Driving(c)

DrivenInv == TypeOK /\ Named /\ Permitted /\ Driven

\* A step of a caller on workload w that leaves w's row as it was, settled, cut
\* short, or with this caller still to write it, and touches no other row.
LEMMA DrivenStep ==
  ASSUME DrivenInv, NEW c \in Callers, NEW w \in Workloads,
         Driving(c) => call[c].wl = w,
         \A d \in Callers : d # c => call'[d] = call[d],
         call'[c].verb \in {call[c].verb, "none"} \cup MayCall[c],
         \A v \in Workloads \ {w} : workload'[v] = workload[v],
         cut \subseteq cut',
         \/ call'[c].wl = w /\ Driving(c)'
         \/ workload'[w].state \notin Working
         \/ w \in cut'
         \/ workload'[w] = workload[w] /\ ~Driving(c)
  PROVE  Permitted' /\ Driven'
<1>1. Permitted'
  BY DEF DrivenInv, Permitted
<1>2. ASSUME NEW v \in Workloads, workload'[v].state \in Working, v \notin cut'
      PROVE  \E d \in Callers : call'[d].wl = v /\ Driving(d)'
  <2>1. CASE v = w /\ call'[c].wl = w /\ Driving(c)'
    BY <2>1
  <2>2. CASE ~(v = w /\ call'[c].wl = w /\ Driving(c)')
    <3>1. workload'[v] = workload[v] /\ v \notin cut /\ (v = w => ~Driving(c))
      BY <1>2, <2>2
    <3>2. PICK d \in Callers : call[d].wl = v /\ Driving(d)
      BY <1>2, <3>1 DEF DrivenInv, Driven
    <3>3. d # c
      BY <3>1, <3>2
    <3> QED BY <3>2, <3>3 DEF Driving
  <2> QED BY <2>1, <2>2
<1>3. QED
  BY <1>1, <1>2 DEF Driven

\* A caller on its way over the replicas leaves the workload rows alone.
LEMMA OnTheWay ==
  ASSUME DrivenInv, NEW c \in Callers, call[c].at # "idle", NEW r, Become(c, r),
         r.wl = call[c].wl, r.verb = call[c].verb, r.at \in Walking,
         workload' = workload, cut' = cut
  PROVE  Permitted' /\ Driven'
<1>1. /\ call'[c] = r
      /\ \A d \in Callers : d # c => call'[d] = call[d]
  BY DEF Become, DrivenInv, TypeOK
<1>2. PICK w \in Workloads : w = call[c].wl
  BY BusyCall DEF DrivenInv, TypeOK, CallsTyped
<1>3. (call'[c].wl = w /\ Driving(c)') \/ ~Driving(c)
  BY <1>1, <1>2 DEF Driving
<1>4. QED
  BY <1>1, <1>2, <1>3, DrivenStep

LEMMA GotoDrives ==
  ASSUME DrivenInv, NEW c \in Callers, call[c].at # "idle", NEW place \in Walking,
         Goto(c, place), workload' = workload, cut' = cut
  PROVE  Permitted' /\ Driven'
<1>1. PICK r : r = [call[c] EXCEPT !.at = place]
  OBVIOUS
<1>2. r.wl = call[c].wl /\ r.verb = call[c].verb /\ r.at = place
  BY <1>1, BusyCall DEF Calls, DrivenInv, TypeOK, CallsTyped
<1>3. QED
  BY <1>1, <1>2, OnTheWay DEF Goto

\* The loops take their next element.
LEMMA DoneDrives ==
  ASSUME DrivenInv, NEW c \in Callers, call[c].at \in Walking, NEW x, Become(c, Done(c, x)),
         workload' = workload, cut' = cut
  PROVE  Permitted' /\ Driven'
<1>1. PICK r : r = Done(c, x)
  OBVIOUS
<1>2. call[c].at # "idle"
  BY DEF Walking
<1>3. r.wl = call[c].wl /\ r.verb = call[c].verb /\ r.at = call[c].at
  BY <1>1, <1>2, BusyCall DEF Done, Calls, DrivenInv, TypeOK, CallsTyped
<1>4. QED
  BY <1>1, <1>2, <1>3, OnTheWay

\* A caller that returns with its row settled or gone, or that never wrote it.
LEMMA ReturnDrives ==
  ASSUME DrivenInv, NEW c \in Callers, NEW w \in Workloads, w = call[c].wl, Return(c),
         \A v \in Workloads \ {w} : workload'[v] = workload[v], cut \subseteq cut',
         \/ workload'[w].state \notin Working
         \/ w \in cut'
         \/ workload' = workload /\ ~Driving(c)
  PROVE  Permitted' /\ Driven'
<1>1. call'[c].verb = "none" /\ \A d \in Callers : d # c => call'[d] = call[d]
  BY ReturnKeeps, IdleFields DEF DrivenInv, TypeOK, CallsTyped
<1>2. QED
  BY <1>1, DrivenStep

\* Writing a settled state leaves the row settled, or gone.
LEMMA WriteSettles ==
  ASSUME TypeOK, NEW w \in Workloads, NEW r \in Rows, Write(w, r)
  PROVE  /\ \A v \in Workloads \ {w} : workload'[v] = workload[v]
         /\ r.state \notin Working => workload'[w].state \notin Working
BY DEF Write, Present, TypeOK, Working

\* The last write of a verb.
LEMMA SettleDrives ==
  ASSUME DrivenInv, NEW c \in Callers, call[c].at # "idle", NEW r \in Rows,
         r.state \notin Working, Write(call[c].wl, r), Return(c), cut' = cut
  PROVE  Permitted' /\ Driven'
<1>1. PICK w \in Workloads : w = call[c].wl
  BY BusyCall DEF DrivenInv, TypeOK, CallsTyped
<1>2. QED
  BY <1>1, WriteSettles, ReturnDrives DEF DrivenInv

\* The mark: from here on the caller is bound to write the row once more.
LEMMA MarkDrives ==
  ASSUME DrivenInv, NEW c \in Callers, call[c].at = "loaded", NEW s \in States, Mark(c, s),
         call[c].verb # "Restart"
  PROVE  Permitted' /\ Driven'
<1>1. CallsTyped /\ TypeOK
  BY DEF DrivenInv, TypeOK, CallsTyped
<1>2. PICK w \in Workloads : w = call[c].wl
  BY <1>1, BusyCall
<1>3. PICK r : r = [call[c].copy EXCEPT !.state = s]
  OBVIOUS
<1>4. r \in Rows /\ Write(w, r) /\ cut' = cut
  <2>1. r \in Rows
    BY <1>1, <1>3, BusyCall DEF Rows
  <2>2. Write(w, r) /\ cut' = cut
    BY <1>2, <1>3 DEF Mark
  <2> QED BY <2>1, <2>2
<1>5. \A v \in Workloads \ {w} : workload'[v] = workload[v]
  BY <1>1, <1>4, WriteSettles
<1>6. CASE Present(w)
  <2>1. PICK moved : moved = [call[c] EXCEPT !.at = "marked", !.copy = r]
    OBVIOUS
  <2>2. moved.at = "marked" /\ moved.wl = w /\ moved.verb = call[c].verb
    BY <1>1, <1>2, <2>1, BusyCall DEF Calls
  <2>3. /\ call'[c] = moved
        /\ \A d \in Callers : d # c => call'[d] = call[d]
    BY <1>1, <1>2, <1>3, <1>6, <2>1 DEF Mark, Become, TypeOK
  <2>4. Driving(c)'
    BY <2>2, <2>3 DEF Driving, Walking
  <2> QED BY <1>2, <1>4, <1>5, <2>2, <2>3, <2>4, DrivenStep
<1>7. CASE ~Present(w)
  <2>1. workload' = workload /\ Return(c)
    BY <1>2, <1>3, <1>4, <1>7 DEF Mark, Write
  <2> QED BY <1>2, <1>4, <1>7, <2>1, ReturnDrives DEF Present, Working
<1>8. QED
  BY <1>6, <1>7

\* The verbs begin: a row appears at most, with its Create bound to settle it.
LEMMA BeginDrives ==
  ASSUME Settling, DrivenInv, NEW c \in Callers, Begin(c)
  PROVE  Permitted' /\ Driven'
<1>1. TypeOK
  BY DEF DrivenInv
<1>2. ASSUME NEW w \in Workloads, NEW verb, NEW place, NEW goal, Load(c, verb, w, place, goal)
      PROVE  Permitted' /\ Driven'
  <2>1. PICK r : r = [Idle EXCEPT !.verb = verb, !.wl = w, !.at = place,
                                  !.copy = workload[w], !.goal = goal]
    OBVIOUS
  <2>2. r.verb = verb /\ verb \in MayCall[c]
    BY <1>2, <2>1 DEF Idle, Load
  <2>3. /\ call'[c] = r
        /\ \A d \in Callers : d # c => call'[d] = call[d]
    BY <1>1, <1>2, <2>1 DEF Load, Become, TypeOK
  <2>4. workload' = workload /\ cut' = cut /\ ~Driving(c)
    BY <1>2, IdleFields DEF Load, Driving, Walking
  <2> QED BY <2>2, <2>3, <2>4, DrivenStep
<1>3. ASSUME NEW w \in Workloads, NEW n \in Targets, CreateInsert(c, w, n)
      PROVE  Permitted' /\ Driven'
  <2>1. PICK row : row = [state |-> "Provisioning", count |-> n, prev |-> 0]
    OBVIOUS
  <2>2. PICK r : r = [Idle EXCEPT !.verb = "Create", !.wl = w, !.at = "spawn", !.copy = row,
                                  !.goal = n, !.todo = 0 .. (n - 1)]
    OBVIOUS
  <2>3. r.verb = "Create" /\ r.wl = w /\ r.at = "spawn" /\ "Create" \in MayCall[c]
    BY <1>3, <2>2 DEF Idle, CreateInsert
  <2>4. /\ call'[c] = r
        /\ \A d \in Callers : d # c => call'[d] = call[d]
    BY <1>1, <1>3, <2>1, <2>2 DEF CreateInsert, Become, TypeOK
  <2>5. \A v \in Workloads \ {w} : workload'[v] = workload[v]
    BY <1>1, <1>3 DEF CreateInsert, TypeOK
  <2>6. cut' = cut /\ ~Driving(c) /\ Driving(c)'
    BY <1>3, <2>3, <2>4, IdleFields DEF CreateInsert, Driving, Walking
  <2> QED BY <2>3, <2>4, <2>5, <2>6, DrivenStep
<1>4. PICK w \in Workloads :
         \/ \E n \in Targets : CreateInsert(c, w, n) \/ BeginScale(c, w, n)
         \/ BeginPause(c, w)
         \/ BeginResume(c, w)
         \/ BeginUpdate(c, w)
         \/ BeginRestart(c, w)
         \/ BeginDeploy(c, w)
         \/ BeginDelete(c, w)
  BY DEF Begin
<1>5. QED
  BY <1>2, <1>3, <1>4 DEF BeginScale, BeginPause, BeginResume, BeginUpdate, BeginRestart,
     BeginDeploy, BeginDelete

\* Spawning: on to the next replica, or to the Failed row.
LEMMA SpawnDrives ==
  ASSUME DrivenInv, NEW c \in Callers,
         \/ SpawnLookup(c) \/ SpawnInsert(c) \/ SpawnProvision(c) \/ Failing(c)
         \/ CreateFinish(c)
  PROVE  Permitted' /\ Driven'
<1>1. CallsTyped
  BY DEF DrivenInv, TypeOK, CallsTyped
<1>2. CASE SpawnLookup(c)
  <2>1. /\ call[c].at = "spawn" /\ workload' = workload /\ cut' = cut
        /\ \/ Become(c, Done(c, Lowest(call[c].todo)))
           \/ Goto(c, "failing")
           \/ Goto(c, "insert")
    BY <1>2 DEF SpawnLookup
  <2> QED BY <2>1, DoneDrives, GotoDrives DEF Walking
<1>3. CASE SpawnInsert(c)
  <2>1. call[c].at = "insert" /\ workload' = workload /\ cut' = cut
    BY <1>3 DEF SpawnInsert
  <2>2. CASE Goto(c, "failing")
    BY <2>1, <2>2, GotoDrives DEF Walking
  <2>3. CASE ~Goto(c, "failing")
    <3>1. PICK r : r = [call[c] EXCEPT !.at = "provision", !.inst = next]
      OBVIOUS
    <3>2. r.wl = call[c].wl /\ r.verb = call[c].verb /\ r.at = "provision"
      BY <1>1, <2>1, <3>1, BusyCall DEF Calls
    <3>3. Become(c, r)
      BY <1>3, <2>3, <3>1 DEF SpawnInsert
    <3> QED BY <2>1, <3>2, <3>3, OnTheWay DEF Walking
  <2> QED BY <2>2, <2>3
<1>4. CASE SpawnProvision(c)
  <2>1. call[c].at = "provision" /\ workload' = workload /\ cut' = cut
    BY <1>4 DEF SpawnProvision
  <2>2. CASE Goto(c, "failing")
    BY <2>1, <2>2, GotoDrives DEF Walking
  <2>3. CASE ~Goto(c, "failing")
    <3>1. PICK r : r = [Done(c, instance[call[c].inst].index) EXCEPT !.at = "spawn", !.inst = 0]
      OBVIOUS
    <3>2. r.wl = call[c].wl /\ r.verb = call[c].verb /\ r.at = "spawn"
      BY <1>1, <2>1, <3>1, BusyCall DEF Done, Calls
    <3>3. Become(c, r)
      BY <1>4, <2>3, <3>1 DEF SpawnProvision
    <3> QED BY <2>1, <3>2, <3>3, OnTheWay DEF Walking
  <2> QED BY <2>2, <2>3
<1>5. ASSUME NEW s \in States, s \notin Working, call[c].at # "idle", cut' = cut,
             Write(call[c].wl, [call[c].copy EXCEPT !.state = s]), Return(c)
      PROVE  Permitted' /\ Driven'
  <2>1. PICK r : r = [call[c].copy EXCEPT !.state = s]
    OBVIOUS
  <2>2. r \in Rows /\ r.state = s
    BY <1>1, <1>5, <2>1, BusyCall DEF Rows
  <2> QED BY <1>5, <2>1, <2>2, SettleDrives
<1>6. CASE Failing(c)
  BY <1>5, <1>6 DEF Failing, States, Working
<1>7. CASE CreateFinish(c)
  BY <1>5, <1>7 DEF CreateFinish, At, States, Working
<1>8. QED
  BY <1>2, <1>3, <1>4, <1>6, <1>7

\* Scale and Resume; Pause and Update are not issued.
LEMMA ScaleDrives ==
  ASSUME Settling, DrivenInv, NEW c \in Callers,
         \/ PauseStamp(c) \/ ScaleGet(c) \/ MarkScaling(c) \/ ScaleList(c)
         \/ ScaleRemove(c) \/ ScaleFinish(c) \/ UpdateWrite(c) \/ MarkDeploying(c)
  PROVE  Permitted' /\ Driven'
<1>1. CallsTyped
  BY DEF DrivenInv, TypeOK, CallsTyped
<1>2. ~PauseStamp(c) /\ ~UpdateWrite(c)
  BY DEF Settling, DrivenInv, Permitted, PauseStamp, UpdateWrite, At
<1>3. CASE ScaleGet(c)
  <2>1. call[c].at = "asked" /\ workload' = workload /\ cut' = cut /\ ~Driving(c)
    BY <1>3 DEF ScaleGet, Driving, Walking
  <2>2. PICK w \in Workloads : w = call[c].wl
    BY <1>1, <2>1, BusyCall
  <2>3. CASE Return(c)
    BY <2>1, <2>2, <2>3, ReturnDrives
  <2>4. CASE ~Return(c)
    <3>1. PICK r : r = [call[c] EXCEPT !.at = "loaded", !.copy = workload[call[c].wl]]
      OBVIOUS
    <3>2. r.verb = call[c].verb
      BY <1>1, <2>1, <3>1, BusyCall DEF Calls
    <3>3. Become(c, r)
      BY <1>3, <2>4, <3>1 DEF ScaleGet
    <3>4. call'[c] = r /\ \A d \in Callers : d # c => call'[d] = call[d]
      BY <1>1, <3>3 DEF Become, CallsTyped
    <3> QED BY <2>1, <2>2, <3>2, <3>4, DrivenStep
  <2> QED BY <2>3, <2>4
<1>4. CASE MarkScaling(c)
  BY <1>4, MarkDrives DEF MarkScaling, At, Scalers, States
<1>5. CASE MarkDeploying(c)
  BY <1>5, MarkDrives DEF MarkDeploying, At, States
<1>6. CASE ScaleList(c)
  <2>1. call[c].at = "marked" /\ workload' = workload /\ cut' = cut
    BY <1>6 DEF ScaleList, At
  <2>2. \E place \in {"spawn", "walk"} : \E S :
           Become(c, [call[c] EXCEPT !.at = place, !.todo = S])
    BY <1>6, ScaleListIs, Zenon
  <2>3. PICK place \in {"spawn", "walk"} :
           \E S : Become(c, [call[c] EXCEPT !.at = place, !.todo = S])
    BY <2>2
  <2>7. PICK S : Become(c, [call[c] EXCEPT !.at = place, !.todo = S])
    BY <2>3
  <2>4. PICK r : r = [call[c] EXCEPT !.at = place, !.todo = S]
    OBVIOUS
  <2>5. r.wl = call[c].wl /\ r.verb = call[c].verb /\ r.at = place
    BY <1>1, <2>1, <2>4, BusyCall DEF Calls
  <2>6. Become(c, r)
    BY <2>7, <2>4
  <2> QED BY <2>1, <2>3, <2>5, <2>6, OnTheWay DEF Walking
<1>7. CASE ScaleRemove(c)
  <2>1. /\ call[c].at = "walk" /\ workload' = workload /\ cut' = cut
        /\ Become(c, Done(c, FirstOf(call[c].todo))) \/ Goto(c, "failing")
    BY <1>7 DEF ScaleRemove, At
  <2> QED BY <2>1, DoneDrives, GotoDrives DEF Walking
<1>8. CASE ScaleFinish(c)
  <2>1. PICK s \in {"Paused", "Active"} :
           Write(call[c].wl, [call[c].copy EXCEPT !.count = call[c].goal, !.state = s])
    BY <1>8 DEF ScaleFinish
  <2>2. PICK r : r = [call[c].copy EXCEPT !.count = call[c].goal, !.state = s]
    OBVIOUS
  <2>3. call[c].at # "idle" /\ cut' = cut /\ Return(c)
    BY <1>8 DEF ScaleFinish, At
  <2>4. r \in Rows /\ r.state = s
    BY <1>1, <2>2, <2>3, BusyCall DEF Rows, States
  <2> QED BY <2>1, <2>2, <2>3, <2>4, SettleDrives DEF Working
<1>9. QED
  BY <1>2, <1>3, <1>4, <1>5, <1>6, <1>7, <1>8

\* Restart writes no row; Deploy and Delete walk and settle it.
LEMMA WalkDrives ==
  ASSUME DrivenInv, NEW c \in Callers,
         \/ WalkList(c) \/ RestartOne(c) \/ RestartFinish(c) \/ DeployOne(c)
         \/ DeployFinish(c) \/ DeleteMark(c) \/ DeleteOne(c) \/ DeleteFinish(c)
  PROVE  Permitted' /\ Driven'
<1>1. CallsTyped /\ TypeOK
  BY DEF DrivenInv, TypeOK, CallsTyped
<1>2. call[c].at # "idle"
  BY DEF WalkList, RestartOne, RestartFinish, DeployOne, DeployFinish, DeleteMark, DeleteOne,
     DeleteFinish, At
<1>3. PICK w \in Workloads : w = call[c].wl
  BY <1>1, <1>2, BusyCall
<1>4. ASSUME NEW s \in States, s \notin Working, cut' = cut,
             Write(call[c].wl, [call[c].copy EXCEPT !.state = s]), Return(c)
      PROVE  Permitted' /\ Driven'
  <2>1. PICK r : r = [call[c].copy EXCEPT !.state = s]
    OBVIOUS
  <2>2. r \in Rows /\ r.state = s
    BY <1>1, <1>2, <2>1, BusyCall DEF Rows
  <2> QED BY <1>2, <1>4, <2>1, <2>2, SettleDrives
<1>5. CASE WalkList(c)
  <2>1. call[c].at = "marked" /\ cut' = cut
    BY <1>5 DEF WalkList, At
  <2>2. CASE Return(c) /\ Write(call[c].wl, [call[c].copy EXCEPT !.state = "Active"])
    BY <1>4, <2>1, <2>2 DEF States, Working
  <2>3. CASE ~(Return(c) /\ Write(call[c].wl, [call[c].copy EXCEPT !.state = "Active"]))
    <3>0. PICK mine : /\ Become(c, [call[c] EXCEPT !.at = "walk", !.todo = mine])
                      /\ workload' = workload
      BY <1>5, <2>3, WalkListIs, Zenon
    <3>1. PICK r : r = [call[c] EXCEPT !.at = "walk", !.todo = mine]
      OBVIOUS
    <3>2. r.wl = call[c].wl /\ r.verb = call[c].verb /\ r.at = "walk"
      BY <1>1, <1>2, <3>1, BusyCall DEF Calls
    <3>3. Become(c, r) /\ workload' = workload
      BY <3>0, <3>1
    <3> QED BY <1>2, <2>1, <3>2, <3>3, OnTheWay DEF Walking
  <2> QED BY <2>2, <2>3
<1>6. CASE RestartOne(c)
  <2>1. /\ workload' = workload /\ cut' = cut /\ ~Driving(c) /\ call[c].at = "walk"
        /\ Become(c, Done(c, FirstOf(call[c].todo))) \/ Return(c)
    BY <1>6 DEF RestartOne, At, Driving
  <2> QED BY <1>3, <2>1, DoneDrives, ReturnDrives DEF Walking
<1>7. CASE RestartFinish(c)
  <2>1. workload' = workload /\ cut' = cut /\ ~Driving(c) /\ Return(c)
    BY <1>7 DEF RestartFinish, At, Driving
  <2> QED BY <1>3, <2>1, ReturnDrives
<1>8. CASE DeployOne(c)
  <2>1. /\ workload' = workload /\ cut' = cut /\ call[c].at = "walk"
        /\ Become(c, Done(c, FirstOf(call[c].todo))) \/ Goto(c, "failing")
    BY <1>8 DEF DeployOne, At
  <2> QED BY <2>1, DoneDrives, GotoDrives DEF Walking
<1>9. CASE DeployFinish(c)
  BY <1>4, <1>9 DEF DeployFinish, States, Working
<1>10. CASE DeleteMark(c)
  <2>1. PICK row : row = [call[c].copy EXCEPT !.state = "Destroying"]
    OBVIOUS
  <2>2. PICK r : r = [call[c] EXCEPT !.at = "marked", !.copy = row]
    OBVIOUS
  <2>3. row \in Rows
    BY <1>1, <1>2, <2>1, BusyCall DEF Rows, States
  <2>4. r.wl = w /\ r.verb = "Delete" /\ r.at = "marked"
    BY <1>1, <1>2, <1>3, <1>10, <2>2, BusyCall DEF Calls, DeleteMark, At
  <2>5. /\ Become(c, r) /\ cut' = cut /\ call[c].verb = "Delete"
        /\ Write(w, row) \/ workload' = workload
    BY <1>3, <1>10, <2>1, <2>2 DEF DeleteMark, At
  <2>6. \A v \in Workloads \ {w} : workload'[v] = workload[v]
    BY <1>1, <2>3, <2>5, WriteSettles
  <2>7. call'[c] = r /\ \A d \in Callers : d # c => call'[d] = call[d]
    BY <1>1, <2>5 DEF Become, CallsTyped
  <2>8. Driving(c)'
    BY <2>4, <2>7 DEF Driving, Walking
  <2> QED BY <1>3, <2>4, <2>5, <2>6, <2>7, <2>8, DrivenStep
<1>11. CASE DeleteOne(c)
  <2>1. PICK ok \in BOOLEAN :
           Become(c, [Done(c, FirstOf(call[c].todo)) EXCEPT !.failed = call[c].failed \/ ~ok])
    BY <1>11 DEF DeleteOne
  <2>2. PICK r : r = [Done(c, FirstOf(call[c].todo)) EXCEPT !.failed = call[c].failed \/ ~ok]
    OBVIOUS
  <2>3. call[c].at = "walk" /\ workload' = workload /\ cut' = cut
    BY <1>11 DEF DeleteOne, At
  <2>4. r.wl = call[c].wl /\ r.verb = call[c].verb /\ r.at = "walk"
    BY <1>1, <1>2, <2>2, <2>3, BusyCall DEF Done, Calls
  <2> QED BY <1>2, <2>1, <2>2, <2>3, <2>4, OnTheWay DEF Walking
<1>12. CASE DeleteFinish(c)
  <2>1. CASE call[c].failed
    BY <1>4, <1>12, <2>1 DEF DeleteFinish, States, Working
  <2>2. CASE ~call[c].failed
    <3>1. workload' = [workload EXCEPT ![w] = Absent] /\ cut' = cut /\ Return(c)
      BY <1>3, <1>12, <2>2 DEF DeleteFinish
    <3>2. /\ workload'[w].state \notin Working
          /\ \A v \in Workloads \ {w} : workload'[v] = workload[v]
      BY <1>1, <3>1 DEF TypeOK, Absent, Working
    <3> QED BY <1>3, <3>1, <3>2, ReturnDrives
  <2> QED BY <2>1, <2>2
<1>13. QED
  BY <1>5, <1>6, <1>7, <1>8, <1>9, <1>10, <1>11, <1>12

\* Whoever writes a working state stays bound to write the row once more.
LEMMA DrivenNext ==
  ASSUME Settling, DrivenInv, [Next]_vars
  PROVE  DrivenInv'
<1>1. TypeOK' /\ Named'
  BY TypeStep DEF DrivenInv
<1>2. ASSUME NEW c \in Callers, Begin(c)
      PROVE  Permitted' /\ Driven'
  BY <1>2, BeginDrives
<1>3. ASSUME NEW c \in Callers, Advance(c)
      PROVE  Permitted' /\ Driven'
  BY <1>3, SpawnDrives, ScaleDrives, WalkDrives DEF Advance
<1>4. ASSUME NEW c \in Callers, Interrupt(c)
      PROVE  Permitted' /\ Driven'
  <2>1. call[c].at # "idle" \/ call[c] # Idle
    BY <1>4 DEF Interrupt
  <2>2. PICK w \in Workloads : w = call[c].wl
    BY <1>4 DEF Interrupt, DrivenInv, Named
  <2>3. workload' = workload /\ cut \subseteq cut' /\ w \in cut' /\ Return(c)
    BY <1>4, <2>2 DEF Interrupt
  <2> QED BY <2>2, <2>3, ReturnDrives
<1>5. CASE Reboot
  <2>1. Permitted'
    BY <1>5, IdleFields DEF Reboot, Permitted
  <2>2. Driven'
    BY <1>5 DEF Reboot, Driven, DrivenInv, InFlight
  <2> QED BY <1>1, <2>1, <2>2 DEF DrivenInv
<1>6. CASE UNCHANGED vars
  BY <1>1, <1>6 DEF vars, DrivenInv, Permitted, Driven, Driving
<1>7. QED
  BY <1>1, <1>2, <1>3, <1>4, <1>5, <1>6 DEF Next, DrivenInv

LEMMA DrivenInit == Init => DrivenInv
<1> SUFFICES ASSUME Init PROVE DrivenInv
  OBVIOUS
<1>1. Permitted
  BY IdleFields DEF Init, Permitted
<1>2. Driven
  BY DEF Init, Driven, Absent, Working
<1>3. QED
  BY <1>1, <1>2, InitType DEF DrivenInv

\* A row in a working state with no call on it was cut short: for callers whose
\* verbs end by settling the row, however they interleave, the last write of a
\* verb (Active, Paused, Failed, or the row dropped) comes after its mark.
THEOREM NeverStuck == Settling => (Spec => []NoStuckState)
<1> SUFFICES ASSUME Settling PROVE Spec => []NoStuckState
  OBVIOUS
<1>1. Init => DrivenInv
  BY DrivenInit
<1>2. DrivenInv /\ [Next]_vars => DrivenInv'
  BY DrivenNext
<1>3. DrivenInv => NoStuckState
  BY DEF DrivenInv, Driven, NoStuckState, InFlight
<1>4. QED
  BY <1>1, <1>2, <1>3, PTL DEF Spec

-----------------------------------------------------------------------------
(* Calls made one at a time.                                               *)
(*                                                                         *)
(* A verb works on a copy of the row, so nothing that relates the row to   *)
(* the replicas survives a second caller.  Alone, the row is the copy's    *)
(* until the verb writes it, and the loops can be counted.                 *)

Solo == \A c, d \in Callers : c = d

\* A call that goes on walking keeps its verb, its workload, its copy and its goal.
Onward(c) ==
    /\ call[c].at \in Walking /\ call'[c].at \in Walking
    /\ call'[c].verb = call[c].verb
    /\ call'[c].wl = call[c].wl
    /\ call'[c].copy = call[c].copy
    /\ call'[c].goal = call[c].goal

LEMMA CallIs ==
  ASSUME CallsTyped, NEW c \in Callers, NEW r, Become(c, r)
  PROVE  call'[c] = r /\ \A d \in Callers : d # c => call'[d] = call[d]
BY DEF Become, CallsTyped

LEMMA GotoOn ==
  ASSUME CallsTyped, NEW c \in Callers, call[c].at \in Walking, NEW place \in Walking,
         Goto(c, place)
  PROVE  /\ Onward(c)
         /\ call'[c].at = place
         /\ call'[c].todo = call[c].todo
         /\ call'[c].inst = call[c].inst
<1>1. call[c].at # "idle"
  BY DEF Walking
<1>2. call[c] \in Calls
  BY DEF CallsTyped
<1>3. PICK r : r = [call[c] EXCEPT !.at = place]
  OBVIOUS
<1>4. call'[c] = r
  BY <1>3, CallIs DEF Goto
<1>5. QED
  BY <1>2, <1>3, <1>4 DEF Onward, Calls

LEMMA TodoOn ==
  ASSUME CallsTyped, NEW c \in Callers, call[c].at \in Walking, NEW place \in Walking, NEW S,
         Become(c, [call[c] EXCEPT !.at = place, !.todo = S])
  PROVE  /\ Onward(c)
         /\ call'[c].at = place
         /\ call'[c].todo = S
         /\ call'[c].inst = call[c].inst
<1>1. call[c] \in Calls
  BY DEF CallsTyped
<1>2. PICK r : r = [call[c] EXCEPT !.at = place, !.todo = S]
  OBVIOUS
<1>3. call'[c] = r
  BY <1>2, CallIs
<1>4. QED
  BY <1>1, <1>2, <1>3 DEF Onward, Calls

LEMMA DoneOn ==
  ASSUME CallsTyped, NEW c \in Callers, call[c].at \in Walking, NEW x, Become(c, Done(c, x))
  PROVE  /\ Onward(c)
         /\ call'[c].at = call[c].at
         /\ call'[c].todo = call[c].todo \ {x}
<1>1. call[c] \in Calls
  BY DEF CallsTyped
<1>2. PICK r : r = Done(c, x)
  OBVIOUS
<1>3. call'[c] = r
  BY <1>2, CallIs
<1>4. QED
  BY <1>1, <1>2, <1>3 DEF Onward, Calls, Done

LEMMA InsertedOn ==
  ASSUME CallsTyped, NEW c \in Callers, call[c].at \in Walking, NEW i,
         Become(c, [call[c] EXCEPT !.at = "provision", !.inst = i])
  PROVE  /\ Onward(c)
         /\ call'[c].at = "provision"
         /\ call'[c].todo = call[c].todo
         /\ call'[c].inst = i
<1>1. call[c] \in Calls
  BY DEF CallsTyped
<1>2. PICK r : r = [call[c] EXCEPT !.at = "provision", !.inst = i]
  OBVIOUS
<1>3. call'[c] = r
  BY <1>2, CallIs
<1>4. QED
  BY <1>1, <1>2, <1>3 DEF Onward, Calls, Walking

LEMMA ProvisionedOn ==
  ASSUME CallsTyped, NEW c \in Callers, call[c].at \in Walking, NEW x,
         Become(c, [Done(c, x) EXCEPT !.at = "spawn", !.inst = 0])
  PROVE  /\ Onward(c)
         /\ call'[c].at = "spawn"
         /\ call'[c].todo = call[c].todo \ {x}
<1>1. call[c] \in Calls
  BY DEF CallsTyped
<1>2. PICK r : r = [Done(c, x) EXCEPT !.at = "spawn", !.inst = 0]
  OBVIOUS
<1>3. call'[c] = r
  BY <1>2, CallIs
<1>4. QED
  BY <1>1, <1>2, <1>3 DEF Onward, Calls, Done, Walking

LEMMA DeletedOn ==
  ASSUME CallsTyped, NEW c \in Callers, call[c].at \in Walking, NEW x, NEW b,
         Become(c, [Done(c, x) EXCEPT !.failed = b])
  PROVE  Onward(c)
<1>1. call[c] \in Calls
  BY DEF CallsTyped
<1>2. PICK r : r = [Done(c, x) EXCEPT !.failed = b]
  OBVIOUS
<1>3. call'[c] = r
  BY <1>2, CallIs
<1>4. QED
  BY <1>1, <1>2, <1>3 DEF Onward, Calls, Done

\* The steps that walk: on to the next stage, or back to the caller.
LEMMA WalkSteps ==
  ASSUME CallsTyped, NEW c \in Callers,
         \/ SpawnLookup(c) \/ SpawnInsert(c) \/ SpawnProvision(c) \/ ScaleList(c)
         \/ ScaleRemove(c) \/ WalkList(c) \/ RestartOne(c) \/ DeployOne(c) \/ DeleteOne(c)
  PROVE  /\ call[c].at \in Walking
         /\ UNCHANGED <<born, unmarked, before>>
         /\ \/ Onward(c) /\ workload' = workload
            \/ Return(c) /\ workload' = workload
            \/ /\ WalkList(c) /\ call[c].verb = "Deploy"
               /\ Return(c) /\ Write(call[c].wl, [call[c].copy EXCEPT !.state = "Active"])
<1>1. call[c].at \in Walking
  BY DEF Walking, At, SpawnLookup, SpawnInsert, SpawnProvision, ScaleList, ScaleRemove, WalkList,
         RestartOne, DeployOne, DeleteOne
<1>2. UNCHANGED <<born, unmarked, before>>
  BY DEF SpawnLookup, SpawnInsert, SpawnProvision, ScaleList, ScaleRemove, WalkList,
         RestartOne, DeployOne, DeleteOne
<1>3. ASSUME NEW x, Become(c, Done(c, x)) PROVE Onward(c)
  BY <1>1, <1>3, DoneOn
<1>4. ASSUME NEW place \in Walking, Goto(c, place) PROVE Onward(c)
  BY <1>1, <1>4, GotoOn
<1>5. "failing" \in Walking /\ "insert" \in Walking /\ "spawn" \in Walking /\ "walk" \in Walking
  BY DEF Walking
<1>6. CASE SpawnLookup(c)
  BY <1>1, <1>2, <1>3, <1>4, <1>5, <1>6, Zenon DEF SpawnLookup
<1>7. CASE SpawnInsert(c)
  <2>1. \/ Goto(c, "failing")
        \/ Become(c, [call[c] EXCEPT !.at = "provision", !.inst = next])
    BY <1>7 DEF SpawnInsert
  <2>2. Onward(c)
    BY <1>1, <1>4, <1>5, <2>1, InsertedOn
  <2> QED BY <1>1, <1>2, <1>7, <2>2 DEF SpawnInsert
<1>8. CASE SpawnProvision(c)
  <2>1. \/ Goto(c, "failing")
        \/ \E x : Become(c, [Done(c, x) EXCEPT !.at = "spawn", !.inst = 0])
    BY <1>8 DEF SpawnProvision
  <2>2. Onward(c)
    BY <1>1, <1>4, <1>5, <2>1, ProvisionedOn
  <2> QED BY <1>1, <1>2, <1>8, <2>2 DEF SpawnProvision
<1>9. CASE ScaleList(c)
  <2>1. \E place \in {"spawn", "walk"} : \E S :
           Become(c, [call[c] EXCEPT !.at = place, !.todo = S])
    BY <1>9, ScaleListIs, Zenon
  <2>2. Onward(c)
    BY <1>1, <1>5, <2>1, TodoOn
  <2> QED BY <1>1, <1>2, <1>9, <2>2 DEF ScaleList
<1>10. CASE ScaleRemove(c)
  <2>1. Goto(c, "failing") \/ \E x : Become(c, Done(c, x))
    BY <1>10 DEF ScaleRemove
  <2> QED BY <1>1, <1>2, <1>3, <1>4, <1>5, <1>10, <2>1 DEF ScaleRemove
<1>11. CASE WalkList(c)
  <2>1. \/ /\ call[c].verb = "Deploy"
           /\ Return(c) /\ Write(call[c].wl, [call[c].copy EXCEPT !.state = "Active"])
        \/ /\ workload' = workload
           /\ \E mine : Become(c, [call[c] EXCEPT !.at = "walk", !.todo = mine])
    BY <1>11, WalkListIs, Zenon
  <2> QED BY <1>1, <1>2, <1>5, <1>11, <2>1, TodoOn
<1>12. CASE RestartOne(c)
  <2>1. Return(c) \/ \E x : Become(c, Done(c, x))
    BY <1>12 DEF RestartOne
  <2> QED BY <1>1, <1>2, <1>3, <1>12, <2>1 DEF RestartOne
<1>13. CASE DeployOne(c)
  <2>1. Goto(c, "failing") \/ \E x : Become(c, Done(c, x))
    BY <1>13 DEF DeployOne
  <2> QED BY <1>1, <1>2, <1>3, <1>4, <1>5, <1>13, <2>1 DEF DeployOne
<1>14. CASE DeleteOne(c)
  <2>1. \E x, b : Become(c, [Done(c, x) EXCEPT !.failed = b])
    BY <1>14 DEF DeleteOne
  <2>2. Onward(c)
    BY <1>1, <2>1, DeletedOn
  <2> QED BY <1>1, <1>2, <1>14, <2>2 DEF DeleteOne
<1>15. QED
  BY <1>6, <1>7, <1>8, <1>9, <1>10, <1>11, <1>12, <1>13, <1>14


(* The copy that a lone call works on is the row, but for what it wrote.   *)

HeldBy(c) ==
    call[c] # Idle =>
        LET r == workload[call[c].wl] IN
        /\ r.state # "absent"
        /\ r.count = call[c].copy.count
        /\ call[c].at # "asked" => r.prev = call[c].copy.prev
        /\ call[c].at \in {"stamp", "loaded"} => r = call[c].copy
        /\ call[c].at \in Walking /\ call[c].verb \notin {"Restart", "Deploy"} =>
              r.state \in {"Provisioning", "Scaling", "Destroying"} \/ call[c].wl \in unmarked
        /\ call[c].verb = "Create" => call[c].copy.count = call[c].goal

HeldInv == TypeOK /\ Named /\ \A c \in Callers : HeldBy(c)

LEMMA HeldFacts ==
  ASSUME HeldInv, NEW c \in Callers, call[c].at # "idle"
  PROVE  /\ TypeOK /\ CallsTyped
         /\ call[c] \in Calls /\ call[c] # Idle
         /\ call[c].wl \in Workloads /\ Present(call[c].wl)
         /\ call[c].copy \in Rows /\ call[c].copy.state # "absent"
         /\ workload[call[c].wl].count = call[c].copy.count
         /\ call[c].at # "asked" => workload[call[c].wl].prev = call[c].copy.prev
         /\ call[c].at \in {"stamp", "loaded"} => workload[call[c].wl] = call[c].copy
<1>1. TypeOK /\ CallsTyped
  BY DEF HeldInv, TypeOK, CallsTyped
<1>2. /\ call[c] \in Calls /\ call[c] # Idle
      /\ call[c].wl \in Workloads
      /\ call[c].copy \in Rows /\ call[c].copy.state # "absent"
  BY <1>1, BusyCall
<1>3. HeldBy(c)
  BY DEF HeldInv
<1>4. QED
  BY <1>1, <1>2, <1>3 DEF HeldBy, Present

\* The row is there, so UpdateWorkload replaces it.
LEMMA HeldWrite ==
  ASSUME HeldInv, NEW c \in Callers, call[c].at # "idle", NEW r, Write(call[c].wl, r)
  PROVE  workload' = [workload EXCEPT ![call[c].wl] = r]
BY HeldFacts DEF Write

LEMMA HeldOnward ==
  ASSUME Solo, HeldInv, NEW c \in Callers, Onward(c), workload' = workload, unmarked' = unmarked
  PROVE  \A d \in Callers : HeldBy(d)'
<1> SUFFICES HeldBy(c)'
  BY DEF Solo
<1>1. call[c].at # "idle" /\ call[c].at # "asked" /\ call'[c].at # "asked"
      /\ call'[c].at \notin {"stamp", "loaded"}
  BY DEF Onward, Walking
<1>2. call[c] # Idle
  BY <1>1, HeldFacts
<1>3. HeldBy(c)
  BY DEF HeldInv
<1>4. QED
  BY <1>1, <1>2, <1>3 DEF Onward, HeldBy

LEMMA HeldIdle ==
  ASSUME \A c \in Callers : call'[c] = Idle
  PROVE  \A c \in Callers : HeldBy(c)'
BY DEF HeldBy

LEMMA HeldReturn ==
  ASSUME Solo, HeldInv, NEW c \in Callers, Return(c)
  PROVE  \A d \in Callers : HeldBy(d)'
<1>1. call'[c] = Idle
  BY ReturnKeeps DEF HeldInv, TypeOK, CallsTyped
<1>2. QED
  BY <1>1, HeldIdle DEF Solo

LEMMA HeldSame ==
  ASSUME HeldInv, call' = call, workload' = workload, unmarked' = unmarked
  PROVE  \A d \in Callers : HeldBy(d)'
BY DEF HeldInv, HeldBy

\* The verb's working state: written to the row and kept in the copy.
LEMMA MarkIs ==
  ASSUME HeldInv, NEW c \in Callers, call[c].at = "loaded", NEW s \in States, Mark(c, s)
  PROVE  /\ workload' = [workload EXCEPT ![call[c].wl] = [call[c].copy EXCEPT !.state = s]]
         /\ call'[c] = [call[c] EXCEPT !.at = "marked", !.copy = [call[c].copy EXCEPT !.state = s]]
         /\ UNCHANGED <<instance, next, born, unmarked, before>>
<1>1. TypeOK /\ CallsTyped /\ Present(call[c].wl)
  BY HeldFacts
<1>2. PICK r : r = [call[c].copy EXCEPT !.state = s]
  OBVIOUS
<1>3. Write(call[c].wl, r) /\ Become(c, [call[c] EXCEPT !.at = "marked", !.copy = r])
      /\ UNCHANGED <<instance, next, born, unmarked, before>>
  BY <1>1, <1>2 DEF Mark
<1>4. PICK q : q = [call[c] EXCEPT !.at = "marked", !.copy = r]
  OBVIOUS
<1>5. call'[c] = q
  BY <1>1, <1>3, <1>4, CallIs
<1>6. workload' = [workload EXCEPT ![call[c].wl] = r]
  BY <1>3, HeldWrite
<1>7. QED
  BY <1>2, <1>3, <1>4, <1>5, <1>6

\* Past a mark: c's copy of the row, with the state it marked or tried to.
LEMMA HeldMarked ==
  ASSUME Solo, HeldInv, NEW c \in Callers, call[c].at = "loaded", NEW s \in States,
         call'[c] = [call[c] EXCEPT !.at = "marked", !.copy = [call[c].copy EXCEPT !.state = s]],
         \/ workload' = [workload EXCEPT ![call[c].wl] = [call[c].copy EXCEPT !.state = s]]
         \/ workload' = workload /\ call[c].wl \in unmarked',
         call[c].verb \in {"Restart", "Deploy"} \/ s \in {"Provisioning", "Scaling", "Destroying"}
  PROVE  \A d \in Callers : HeldBy(d)'
<1> SUFFICES HeldBy(c)'
  BY DEF Solo
<1>1. /\ TypeOK /\ call[c] \in Calls /\ call[c].wl \in Workloads
      /\ call[c].copy \in Rows /\ call[c].copy.state # "absent"
      /\ workload[call[c].wl] = call[c].copy
      /\ call[c] # Idle
  BY HeldFacts
<1>2. call[c].verb = "Create" => call[c].copy.count = call[c].goal
  BY <1>1 DEF HeldInv, HeldBy
<1>3. PICK r : r = [call[c].copy EXCEPT !.state = s]
  OBVIOUS
<1>4. r.state = s /\ s # "absent" /\ r.count = call[c].copy.count /\ r.prev = call[c].copy.prev
  BY <1>1, <1>3 DEF Rows, States
<1>5. PICK q : q = [call[c] EXCEPT !.at = "marked", !.copy = r]
  OBVIOUS
<1>6. call'[c] = q
  BY <1>3, <1>5
<1>7. /\ q.at = "marked" /\ q.copy = r /\ q.wl = call[c].wl /\ q.goal = call[c].goal
      /\ q.verb = call[c].verb
  BY <1>1, <1>5 DEF Calls
<1>8. \/ workload'[call[c].wl] = r
      \/ workload'[call[c].wl] = call[c].copy /\ call[c].wl \in unmarked'
  <2>1. ASSUME workload' = [workload EXCEPT ![call[c].wl] = r]
        PROVE  workload'[call[c].wl] = r
    BY <1>1, <2>1 DEF TypeOK
  <2> QED BY <1>1, <1>3, <2>1
<1>9. PICK x : x = workload'[call[c].wl]
  OBVIOUS
<1>10. /\ x.state # "absent" /\ x.count = r.count /\ x.prev = r.prev
       /\ call[c].verb \notin {"Restart", "Deploy"} =>
             x.state \in {"Provisioning", "Scaling", "Destroying"} \/ call[c].wl \in unmarked'
  BY <1>1, <1>4, <1>8, <1>9
<1>11. q.verb = "Create" => r.count = q.goal
  BY <1>2, <1>4, <1>7
<1>12. QED
  BY <1>6, <1>7, <1>9, <1>10, <1>11 DEF HeldBy

LEMMA HeldStamp ==
  ASSUME Solo, HeldInv, NEW c \in Callers, PauseStamp(c)
  PROVE  \A d \in Callers : HeldBy(d)'
<1>1. call[c].at = "stamp" /\ call[c].verb = "Pause"
  BY DEF PauseStamp, At
<1>2. /\ TypeOK /\ CallsTyped /\ call[c] \in Calls /\ call[c].wl \in Workloads
      /\ call[c].copy \in Rows /\ call[c].copy.state # "absent"
      /\ workload[call[c].wl] = call[c].copy
      /\ Present(call[c].wl)
  BY <1>1, HeldFacts
<1>3. PICK r : r = [call[c].copy EXCEPT !.prev = call[c].copy.count]
  OBVIOUS
<1>4. workload'[call[c].wl] \in {r, call[c].copy}
  <2>1. ASSUME Write(call[c].wl, r) PROVE workload'[call[c].wl] = r
    <3>1. workload' = [workload EXCEPT ![call[c].wl] = r]
      BY <1>1, <2>1, HeldWrite
    <3> QED BY <1>2, <3>1 DEF TypeOK
  <2>2. Write(call[c].wl, r) \/ workload' = workload
    BY <1>3 DEF PauseStamp
  <2> QED BY <1>2, <2>1, <2>2
<1>5. r.state = call[c].copy.state /\ r.count = call[c].copy.count
  BY <1>2, <1>3 DEF Rows
<1>6. PICK q : q = [call[c] EXCEPT !.at = "asked"]
  OBVIOUS
<1>7. call'[c] = q
  <2>1. Become(c, q)
    BY <1>2, <1>6 DEF PauseStamp, Goto
  <2> QED BY <1>2, <2>1, CallIs
<1>8. q.at = "asked" /\ q.copy = call[c].copy /\ q.wl = call[c].wl /\ q.verb = "Pause"
  BY <1>1, <1>2, <1>6 DEF Calls
<1>9. HeldBy(c)'
  BY <1>2, <1>4, <1>5, <1>7, <1>8 DEF HeldBy, Walking
<1>10. QED
  BY <1>9 DEF Solo

\* Scale's Get gives up, or takes the row as it is now.
LEMMA GetIs ==
  ASSUME HeldInv, NEW c \in Callers, ScaleGet(c)
  PROVE  \/ Return(c)
         \/ /\ call'[c] = [call[c] EXCEPT !.at = "loaded", !.copy = workload[call[c].wl]]
            /\ Present(call[c].wl)
<1>1. CallsTyped
  BY HeldFacts DEF ScaleGet
<1>2. PICK q : q = [call[c] EXCEPT !.at = "loaded", !.copy = workload[call[c].wl]]
  OBVIOUS
<1>3. Return(c) \/ (Become(c, q) /\ Present(call[c].wl))
  BY <1>2 DEF ScaleGet
<1>4. QED
  BY <1>1, <1>2, <1>3, CallIs

LEMMA HeldGet ==
  ASSUME Solo, HeldInv, NEW c \in Callers, ScaleGet(c)
  PROVE  \A d \in Callers : HeldBy(d)'
<1>1. call[c].at = "asked" /\ workload' = workload
  BY DEF ScaleGet
<1>2. /\ TypeOK /\ call[c] \in Calls /\ call[c].wl \in Workloads
      /\ workload[call[c].wl].count = call[c].copy.count
      /\ call[c] # Idle
  BY <1>1, HeldFacts
<1>3. call[c].verb = "Create" => call[c].copy.count = call[c].goal
  BY <1>2 DEF HeldInv, HeldBy
<1>4. CASE Return(c)
  BY <1>4, HeldReturn
<1>5. CASE /\ call'[c] = [call[c] EXCEPT !.at = "loaded", !.copy = workload[call[c].wl]]
           /\ Present(call[c].wl)
  <2>1. PICK q : q = [call[c] EXCEPT !.at = "loaded", !.copy = workload[call[c].wl]]
    OBVIOUS
  <2>2. /\ q.at = "loaded" /\ q.copy = workload[call[c].wl] /\ q.wl = call[c].wl
        /\ q.verb = call[c].verb /\ q.goal = call[c].goal
    BY <1>2, <2>1 DEF Calls
  <2>3. HeldBy(c)'
    BY <1>1, <1>2, <1>3, <1>5, <2>1, <2>2 DEF HeldBy, Present, Walking
  <2> QED BY <2>3 DEF Solo
<1>6. QED
  BY <1>4, <1>5, GetIs

\* A verb begins with the row it reads.
LEMMA LoadIs ==
  ASSUME TypeOK, Named, NEW c \in Callers, NEW verb, NEW w \in Workloads, NEW place, NEW goal,
         Load(c, verb, w, place, goal)
  PROVE  /\ call'[c].verb = verb /\ call'[c].wl = w /\ call'[c].at = place
         /\ call'[c].copy = workload[w] /\ call'[c].goal = goal /\ call'[c].todo = {}
         /\ Present(w)
         /\ UNCHANGED <<workload, instance, next, born, unmarked, missed, before>>
<1>1. PICK r : r = [Idle EXCEPT !.verb = verb, !.wl = w, !.at = place,
                                !.copy = workload[w], !.goal = goal]
  OBVIOUS
<1>2. call'[c] = r
  BY <1>1, CallIs DEF Load, CallsTyped, TypeOK
<1>3. QED
  BY <1>1, <1>2 DEF Idle, Load

LEMMA CreateIs ==
  ASSUME TypeOK, Named, NEW c \in Callers, NEW w \in Workloads, NEW n, CreateInsert(c, w, n)
  PROVE  /\ call'[c].verb = "Create" /\ call'[c].wl = w /\ call'[c].at = "spawn"
         /\ call'[c].copy = [state |-> "Provisioning", count |-> n, prev |-> 0]
         /\ call'[c].goal = n /\ call'[c].todo = 0 .. (n - 1)
         /\ workload'[w] = [state |-> "Provisioning", count |-> n, prev |-> 0]
         /\ \A v \in Workloads \ {w} : workload'[v] = workload[v]
         /\ w \notin born /\ born' = born \cup {w} /\ n > 0
         /\ UNCHANGED <<instance, next, unmarked, missed, before>>
<1>1. PICK row : row = [state |-> "Provisioning", count |-> n, prev |-> 0]
  OBVIOUS
<1>2. PICK r : r = [Idle EXCEPT !.verb = "Create", !.wl = w, !.at = "spawn", !.copy = row,
                                !.goal = n, !.todo = 0 .. (n - 1)]
  OBVIOUS
<1>3. call'[c] = r
  BY <1>1, <1>2, CallIs DEF CreateInsert, CallsTyped, TypeOK
<1>4. workload' = [workload EXCEPT ![w] = row]
  BY <1>1 DEF CreateInsert
<1>5. workload'[w] = row /\ \A v \in Workloads \ {w} : workload'[v] = workload[v]
  BY <1>4 DEF TypeOK
<1>6. r.verb = "Create" /\ r.wl = w /\ r.at = "spawn" /\ r.copy = row /\ r.goal = n
      /\ r.todo = 0 .. (n - 1)
  BY <1>2 DEF Idle
<1>7. w \notin born /\ born' = born \cup {w} /\ n > 0
      /\ UNCHANGED <<instance, next, unmarked, missed, before>>
  BY DEF CreateInsert
<1>8. QED
  BY <1>1, <1>3, <1>5, <1>6, <1>7

\* The verbs that read a row, with the place they go on from.
LEMMA BeginIs ==
  ASSUME NEW c \in Callers, Begin(c)
  PROVE  \E w \in Workloads :
            \/ \E n \in Targets : CreateInsert(c, w, n)
            \/ \E n \in Targets : Load(c, "Scale", w, "loaded", n)
            \/ Load(c, "Pause", w, "stamp", 0)
            \/ LET r == workload[w] IN
               Load(c, "Resume", w, "asked",
                    IF r.prev # 0 THEN r.prev ELSE IF r.count # 0 THEN r.count ELSE 1)
            \/ Load(c, "Update", w, "loaded", 0)
            \/ Load(c, "Restart", w, "marked", 0)
            \/ CanMove(workload[w].state, "Deploying") /\ Load(c, "Deploy", w, "loaded", 0)
            \/ Load(c, "Delete", w, "loaded", 0)
<1>1. PICK w \in Workloads :
         \/ \E n \in Targets : CreateInsert(c, w, n) \/ BeginScale(c, w, n)
         \/ BeginPause(c, w)
         \/ BeginResume(c, w)
         \/ BeginUpdate(c, w)
         \/ BeginRestart(c, w)
         \/ BeginDeploy(c, w)
         \/ BeginDelete(c, w)
  BY DEF Begin
<1>2. QED
  BY <1>1, Zenon DEF BeginScale, BeginPause, BeginResume, BeginUpdate, BeginRestart, BeginDeploy,
     BeginDelete

LEMMA HeldBegin ==
  ASSUME Solo, HeldInv, NEW c \in Callers, Begin(c)
  PROVE  \A d \in Callers : HeldBy(d)'
<1>1. TypeOK /\ Named
  BY DEF HeldInv
<1>2. ASSUME NEW w \in Workloads, NEW verb, NEW goal,
             NEW place \in {"stamp", "asked", "loaded", "marked"}, Load(c, verb, w, place, goal),
             verb # "Create", place = "marked" => verb \in {"Restart"}
      PROVE  HeldBy(c)'
  <2>1. /\ call'[c].verb = verb /\ call'[c].wl = w /\ call'[c].at = place
        /\ call'[c].copy = workload[w] /\ workload' = workload
        /\ workload[w].state # "absent"
    BY <1>1, <1>2, LoadIs DEF Present
  <2> QED BY <1>2, <2>1 DEF HeldBy, Walking
<1>3. ASSUME NEW w \in Workloads, NEW n \in Targets, CreateInsert(c, w, n)
      PROVE  HeldBy(c)'
  <2>1. PICK r : r = [state |-> "Provisioning", count |-> n, prev |-> 0]
    OBVIOUS
  <2>2. /\ call'[c].verb = "Create" /\ call'[c].wl = w /\ call'[c].at = "spawn"
        /\ call'[c].copy = r /\ call'[c].goal = n /\ workload'[w] = r
    BY <1>1, <1>3, <2>1, CreateIs
  <2>3. r.state = "Provisioning" /\ r.count = n /\ r.prev = 0
    BY <2>1
  <2> QED BY <2>2, <2>3 DEF HeldBy, Walking
<1>4. HeldBy(c)'
  BY <1>2, <1>3, BeginIs
<1>5. QED
  BY <1>4 DEF Solo

LEMMA DeleteMarkIs ==
  ASSUME HeldInv, NEW c \in Callers, DeleteMark(c)
  PROVE  /\ call'[c] = [call[c] EXCEPT !.at = "marked",
                                       !.copy = [call[c].copy EXCEPT !.state = "Destroying"]]
         /\ \/ /\ workload' = [workload EXCEPT
                                  ![call[c].wl] = [call[c].copy EXCEPT !.state = "Destroying"]]
               /\ unmarked' = unmarked
            \/ workload' = workload /\ unmarked' = unmarked \cup {call[c].wl}
         /\ UNCHANGED <<instance, next, born, before>>
<1>1. call[c].at = "loaded"
  BY DEF DeleteMark, At
<1>2. CallsTyped
  BY <1>1, HeldFacts
<1>3. PICK r : r = [call[c].copy EXCEPT !.state = "Destroying"]
  OBVIOUS
<1>4. PICK q : q = [call[c] EXCEPT !.at = "marked", !.copy = r]
  OBVIOUS
<1>5. /\ Become(c, q)
      /\ \/ Write(call[c].wl, r) /\ unmarked' = unmarked
         \/ workload' = workload /\ unmarked' = unmarked \cup {call[c].wl}
      /\ UNCHANGED <<instance, next, born, before>>
  BY <1>3, <1>4 DEF DeleteMark
<1>6. call'[c] = q
  BY <1>2, <1>5, CallIs
<1>7. Write(call[c].wl, r) => workload' = [workload EXCEPT ![call[c].wl] = r]
  BY <1>1, HeldWrite
<1>8. QED
  BY <1>3, <1>4, <1>5, <1>6, <1>7

LEMMA HeldNext ==
  ASSUME Solo, HeldInv, [Next]_vars
  PROVE  HeldInv'
<1>1. TypeOK' /\ Named'
  BY TypeStep DEF HeldInv
<1>2. ASSUME NEW c \in Callers, Advance(c)
      PROVE  \A d \in Callers : HeldBy(d)'
  <2>1. CASE \/ SpawnLookup(c) \/ SpawnInsert(c) \/ SpawnProvision(c) \/ ScaleList(c)
             \/ ScaleRemove(c) \/ WalkList(c) \/ RestartOne(c) \/ DeployOne(c) \/ DeleteOne(c)
    <3>1. CallsTyped
      BY DEF HeldInv, TypeOK, CallsTyped
    <3>2. unmarked' = unmarked /\ (Return(c) \/ (Onward(c) /\ workload' = workload))
      BY <2>1, <3>1, WalkSteps
    <3> QED BY <3>2, HeldReturn, HeldOnward
  <2>2. CASE \/ Failing(c) \/ CreateFinish(c) \/ ScaleFinish(c) \/ UpdateWrite(c)
             \/ RestartFinish(c) \/ DeployFinish(c) \/ DeleteFinish(c)
    <3>1. Return(c)
      BY <2>2 DEF Failing, CreateFinish, ScaleFinish, UpdateWrite, RestartFinish, DeployFinish,
                  DeleteFinish
    <3> QED BY <3>1, HeldReturn
  <2>3. CASE MarkScaling(c) \/ MarkDeploying(c)
    <3>1. PICK s \in {"Scaling", "Deploying"} :
             /\ Mark(c, s) /\ call[c].at = "loaded"
             /\ s = "Deploying" => call[c].verb = "Deploy"
      BY <2>3 DEF MarkScaling, MarkDeploying, At
    <3>2. s \in States
      BY DEF States
    <3>3. /\ workload' = [workload EXCEPT ![call[c].wl] = [call[c].copy EXCEPT !.state = s]]
          /\ call'[c] = [call[c] EXCEPT !.at = "marked",
                                        !.copy = [call[c].copy EXCEPT !.state = s]]
      BY <3>1, <3>2, MarkIs
    <3>4. call[c].verb \in {"Restart", "Deploy"}
             \/ s \in {"Provisioning", "Scaling", "Destroying"}
      BY <3>1
    <3> QED BY <3>1, <3>2, <3>3, <3>4, HeldMarked
  <2>4. CASE DeleteMark(c)
    <3>1. call[c].at = "loaded" /\ "Destroying" \in States
      BY <2>4 DEF DeleteMark, At, States
    <3>2. call[c].wl \in unmarked \cup {call[c].wl}
      OBVIOUS
    <3> QED BY <2>4, <3>1, <3>2, DeleteMarkIs, HeldMarked
  <2> QED BY <1>2, <2>1, <2>2, <2>3, <2>4, HeldStamp, HeldGet DEF Advance
<1>3. ASSUME NEW c \in Callers, Interrupt(c)
      PROVE  \A d \in Callers : HeldBy(d)'
  BY <1>3, HeldReturn DEF Interrupt
<1>4. CASE Reboot
  <2>1. \A c \in Callers : call'[c] = Idle
    BY <1>4 DEF Reboot
  <2> QED BY <1>1, <2>1, HeldIdle DEF HeldInv
<1>5. CASE UNCHANGED vars
  <2>1. call' = call /\ workload' = workload /\ unmarked' = unmarked
    BY <1>5 DEF vars
  <2> QED BY <1>1, <2>1, HeldSame DEF HeldInv
<1>6. QED
  BY <1>1, <1>2, <1>3, <1>4, <1>5, HeldBegin DEF Next, HeldInv

LEMMA HeldInit == Init => HeldInv
BY InitType DEF Init, HeldInv, HeldBy

-----------------------------------------------------------------------------
(* Resume brings back what Pause took away.                                *)

\* A row at zero remembers the count it had before.
AtZero(w) ==
    Present(w) /\ workload[w].count = 0 => workload[w].prev = before[w] /\ before[w] # 0

Remembers(c) ==
    /\ call[c].verb = "Pause" /\ call[c].at # "stamp" /\ call[c].copy.count > 0 =>
          workload[call[c].wl].prev = call[c].copy.count
    /\ call[c].verb = "Resume" /\ call[c].copy.count = 0 => call[c].goal = before[call[c].wl]
    /\ call[c].verb \in {"Scale", "Resume"} => call[c].goal # 0

MemoryInv ==
    /\ HeldInv
    /\ \A w \in Workloads : AtZero(w)
    /\ \A c \in Callers : Remembers(c)

\* A step that takes no row to zero and leaves the memory of those at zero.
LEMMA ZeroKeeps ==
  ASSUME MemoryInv, before' = before,
         \A w \in Workloads :
            workload'[w].state # "absent" /\ workload'[w].count = 0 =>
               /\ workload[w].state # "absent" /\ workload[w].count = 0
               /\ workload'[w].prev = workload[w].prev
  PROVE  \A w \in Workloads : AtZero(w)'
BY DEF MemoryInv, AtZero, Present

LEMMA RemembersIdle ==
  ASSUME NEW c \in Callers, call'[c] = Idle
  PROVE  Remembers(c)'
BY IdleFields DEF Remembers

\* The copy written back with another state.
LEMMA ZeroWritten ==
  ASSUME MemoryInv, NEW c \in Callers, call[c].at \notin {"idle", "asked"}, NEW s \in States,
         workload' = [workload EXCEPT ![call[c].wl] = [call[c].copy EXCEPT !.state = s]],
         before' = before
  PROVE  /\ \A w \in Workloads : AtZero(w)'
         /\ workload'[call[c].wl].prev = workload[call[c].wl].prev
<1>1. HeldInv
  BY DEF MemoryInv
<1>2. /\ TypeOK /\ call[c].wl \in Workloads /\ call[c].copy \in Rows
      /\ workload[call[c].wl].state # "absent"
      /\ workload[call[c].wl].count = call[c].copy.count
      /\ workload[call[c].wl].prev = call[c].copy.prev
  BY <1>1, HeldFacts DEF Present
<1>3. PICK r : r = [call[c].copy EXCEPT !.state = s]
  OBVIOUS
<1>4. r.count = call[c].copy.count /\ r.prev = call[c].copy.prev
  BY <1>2, <1>3 DEF Rows
<1>5. workload'[call[c].wl] = r /\ \A w \in Workloads \ {call[c].wl} : workload'[w] = workload[w]
  BY <1>2, <1>3 DEF TypeOK
<1>6. \A w \in Workloads : AtZero(w)'
  <2> SUFFICES ASSUME NEW w \in Workloads,
                      workload'[w].state # "absent", workload'[w].count = 0
               PROVE  /\ workload[w].state # "absent" /\ workload[w].count = 0
                      /\ workload'[w].prev = workload[w].prev
    BY ZeroKeeps
  <2>1. CASE w = call[c].wl
    BY <1>2, <1>4, <1>5, <2>1
  <2>2. CASE w # call[c].wl
    BY <1>5, <2>2
  <2> QED BY <2>1, <2>2
<1>7. QED
  BY <1>2, <1>4, <1>5, <1>6

LEMMA MemoryStamp ==
  ASSUME Solo, MemoryInv, NEW c \in Callers, PauseStamp(c)
  PROVE  (\A w \in Workloads : AtZero(w)') /\ Remembers(c)'
<1>1. call[c].at = "stamp" /\ call[c].verb = "Pause" /\ before' = before /\ HeldInv
  BY DEF PauseStamp, At, MemoryInv
<1>2. /\ TypeOK /\ CallsTyped /\ call[c] \in Calls /\ call[c].wl \in Workloads
      /\ call[c].copy \in Rows /\ workload[call[c].wl] = call[c].copy
      /\ Present(call[c].wl)
  BY <1>1, HeldFacts
<1>3. PICK r : r = [call[c].copy EXCEPT !.prev = call[c].copy.count]
  OBVIOUS
<1>4. r.count = call[c].copy.count /\ r.prev = call[c].copy.count
  BY <1>2, <1>3 DEF Rows
<1>5. CASE call[c].copy.count > 0
  <2>1. Write(call[c].wl, r)
    BY <1>3, <1>5 DEF PauseStamp
  <2>2. workload' = [workload EXCEPT ![call[c].wl] = r]
    BY <1>1, <2>1, HeldWrite
  <2>3. workload'[call[c].wl] = r
        /\ \A w \in Workloads \ {call[c].wl} : workload'[w] = workload[w]
    BY <1>2, <2>2 DEF TypeOK
  <2>4. \A w \in Workloads : AtZero(w)'
    BY <1>1, <1>4, <1>5, <2>3, ZeroKeeps
  <2>5. call'[c].verb = "Pause" /\ call'[c].copy = call[c].copy /\ call'[c].wl = call[c].wl
    <3>1. PICK q : q = [call[c] EXCEPT !.at = "asked"]
      OBVIOUS
    <3>2. Become(c, q)
      BY <1>2, <3>1 DEF PauseStamp, Goto
    <3>3. call'[c] = q
      BY <1>2, <3>2, CallIs
    <3> QED BY <1>1, <1>2, <3>1, <3>3 DEF Calls
  <2> QED BY <1>4, <2>3, <2>4, <2>5 DEF Remembers
<1>6. CASE ~(call[c].copy.count > 0)
  <2>1. workload' = workload
    BY <1>6 DEF PauseStamp
  <2>2. \A w \in Workloads : AtZero(w)'
    BY <1>1, <2>1, ZeroKeeps
  <2>3. call'[c].verb = "Pause" /\ call'[c].copy = call[c].copy
    <3>1. PICK q : q = [call[c] EXCEPT !.at = "asked"]
      OBVIOUS
    <3>2. Become(c, q)
      BY <1>2, <3>1 DEF PauseStamp, Goto
    <3>3. call'[c] = q
      BY <1>2, <3>2, CallIs
    <3> QED BY <1>1, <1>2, <3>1, <3>3 DEF Calls
  <2> QED BY <1>6, <2>2, <2>3 DEF Remembers
<1>7. QED
  BY <1>5, <1>6

LEMMA MemoryGet ==
  ASSUME Solo, MemoryInv, NEW c \in Callers, ScaleGet(c)
  PROVE  (\A w \in Workloads : AtZero(w)') /\ Remembers(c)'
<1>1. call[c].at = "asked" /\ workload' = workload /\ before' = before /\ HeldInv
  BY DEF ScaleGet, MemoryInv
<1>2. /\ CallsTyped /\ call[c] \in Calls
      /\ workload[call[c].wl].count = call[c].copy.count
  BY <1>1, HeldFacts DEF MemoryInv
<1>3. \A w \in Workloads : AtZero(w)'
  BY <1>1, ZeroKeeps
<1>4. CASE Return(c)
  BY <1>2, <1>3, <1>4, ReturnKeeps, RemembersIdle
<1>5. CASE call'[c] = [call[c] EXCEPT !.at = "loaded", !.copy = workload[call[c].wl]]
  <2>1. PICK q : q = [call[c] EXCEPT !.at = "loaded", !.copy = workload[call[c].wl]]
    OBVIOUS
  <2>2. /\ q.copy.count = call[c].copy.count /\ q.wl = call[c].wl
        /\ q.verb = call[c].verb /\ q.goal = call[c].goal
    BY <1>2, <2>1 DEF Calls
  <2>3. Remembers(c)
    BY DEF MemoryInv
  <2> QED BY <1>1, <1>3, <1>5, <2>1, <2>2, <2>3 DEF Remembers
<1>6. QED
  BY <1>1, <1>4, <1>5, GetIs

\* The step to zero is Pause's, and it stamped the count it takes away.
LEMMA MemoryFinish ==
  ASSUME Solo, MemoryInv, NEW c \in Callers, ScaleFinish(c)
  PROVE  (\A w \in Workloads : AtZero(w)') /\ Remembers(c)'
<1>1. /\ call[c].at \in {"spawn", "walk"} /\ call[c].verb \in Scalers /\ HeldInv
      /\ Return(c)
  BY DEF ScaleFinish, At, MemoryInv
<1>0. PICK w \in Workloads : w = call[c].wl
  BY <1>1, HeldFacts
<1>2. /\ TypeOK /\ CallsTyped /\ call[c] \in Calls /\ w \in Workloads
      /\ call[c].copy \in Rows /\ Present(w)
      /\ workload[w].count = call[c].copy.count
      /\ workload[w].prev = call[c].copy.prev
      /\ call[c].goal \in Nat
  BY <1>0, <1>1, HeldFacts DEF Calls
<1>3. PICK s : s = IF call[c].goal = 0 THEN "Paused" ELSE "Active"
  OBVIOUS
<1>4. PICK r : r = [call[c].copy EXCEPT !.count = call[c].goal, !.state = s]
  OBVIOUS
<1>5. r.count = call[c].goal /\ r.prev = call[c].copy.prev
  BY <1>2, <1>4 DEF Rows
<1>6. workload' = [workload EXCEPT ![w] = r]
  <2>1. Write(call[c].wl, r)
    BY <1>3, <1>4 DEF ScaleFinish
  <2> QED BY <1>0, <1>1, <2>1, HeldWrite
<1>7. workload'[w] = r /\ \A v \in Workloads \ {w} : workload'[v] = workload[v]
  BY <1>2, <1>6 DEF TypeOK
<1>8. before' = IF call[c].goal = 0 /\ call[c].copy.count > 0
                THEN [before EXCEPT ![w] = call[c].copy.count] ELSE before
  BY <1>0 DEF ScaleFinish
<1>9. AtZero(w)'
  <2>1. CASE call[c].goal # 0
    BY <1>5, <1>7, <2>1 DEF AtZero, Present
  <2>2. CASE call[c].goal = 0 /\ call[c].copy.count > 0
    <3>1. call[c].verb = "Pause"
      BY <1>1, <2>2 DEF MemoryInv, Remembers, Scalers
    <3>2. workload[w].prev = call[c].copy.count
      BY <1>0, <1>1, <2>2, <3>1 DEF MemoryInv, Remembers
    <3>3. before'[w] = call[c].copy.count
      BY <1>2, <1>8, <2>2 DEF TypeOK
    <3>4. call[c].copy.count # 0
      BY <1>2, <2>2 DEF Rows
    <3>5. workload'[w].prev = before'[w] /\ before'[w] # 0
      BY <1>2, <1>5, <1>7, <3>2, <3>3, <3>4
    <3> QED BY <3>5 DEF AtZero
  <2>3. CASE call[c].goal = 0 /\ ~(call[c].copy.count > 0)
    <3>1. before' = before
      BY <1>8, <2>3
    <3>2. call[c].copy.count = 0
      BY <1>2, <2>3 DEF Rows
    <3>3. workload[w].prev = before[w] /\ before[w] # 0
      BY <1>2, <3>2 DEF MemoryInv, AtZero
    <3>4. workload'[w].prev = before'[w] /\ before'[w] # 0
      BY <1>2, <1>5, <1>7, <3>1, <3>3
    <3> QED BY <3>4 DEF AtZero
  <2> QED BY <2>1, <2>2, <2>3
<1>10. ASSUME NEW v \in Workloads, v # w
       PROVE  AtZero(v)'
  <2>1. workload'[v] = workload[v] /\ before'[v] = before[v]
    BY <1>2, <1>7, <1>8, <1>10 DEF TypeOK
  <2>2. AtZero(v)
    BY DEF MemoryInv
  <2>3. Present(v)' <=> Present(v)
    BY <2>1 DEF Present
  <2> QED BY <2>1, <2>2, <2>3 DEF AtZero
<1>11. Remembers(c)'
  BY <1>1, <1>2, ReturnKeeps, RemembersIdle
<1>12. \A v \in Workloads : AtZero(v)'
  <2> SUFFICES ASSUME NEW v \in Workloads PROVE AtZero(v)'
    OBVIOUS
  <2>1. CASE v = w
    BY <1>9, <2>1
  <2>2. CASE v # w
    BY <1>10, <2>2
  <2> QED BY <2>1, <2>2
<1>13. QED
  BY <1>11, <1>12

LEMMA MemoryBegin ==
  ASSUME Solo, 0 \notin Targets, MemoryInv, NEW c \in Callers, Begin(c)
  PROVE  (\A w \in Workloads : AtZero(w)') /\ Remembers(c)'
<1>1. TypeOK /\ Named
  BY DEF MemoryInv, HeldInv
<1>2. ASSUME NEW w \in Workloads, NEW verb, NEW place, NEW goal, Load(c, verb, w, place, goal),
             verb = "Pause" => place = "stamp",
             verb = "Resume" /\ workload[w].count = 0 => goal = before[w],
             verb \in {"Scale", "Resume"} => goal # 0
      PROVE  (\A v \in Workloads : AtZero(v)') /\ Remembers(c)'
  <2>1. /\ call'[c].verb = verb /\ call'[c].wl = w /\ call'[c].at = place
        /\ call'[c].copy = workload[w] /\ call'[c].goal = goal
        /\ workload' = workload /\ before' = before
    <3>1. Load(c, verb, w, place, goal)
      BY <1>2
    <3> HIDE <1>2
    <3> QED BY <1>1, <3>1, LoadIs
  <2>2. \A v \in Workloads : AtZero(v)'
    BY <2>1, ZeroKeeps
  <2>3. (verb = "Pause" => place = "stamp")
        /\ (verb = "Resume" /\ workload[w].count = 0 => goal = before[w])
        /\ (verb \in {"Scale", "Resume"} => goal # 0)
    BY <1>2
  <2>4. Remembers(c)'
    BY <2>1, <2>3 DEF Remembers
  <2> QED BY <2>2, <2>4
<1>3. ASSUME NEW w \in Workloads, NEW n \in Targets, CreateInsert(c, w, n)
      PROVE  (\A v \in Workloads : AtZero(v)') /\ Remembers(c)'
  <2>1. PICK r : r = [state |-> "Provisioning", count |-> n, prev |-> 0]
    OBVIOUS
  <2>2. /\ call'[c].verb = "Create" /\ workload'[w] = r /\ before' = before
        /\ \A v \in Workloads \ {w} : workload'[v] = workload[v]
    BY <1>1, <1>3, <2>1, CreateIs
  <2>3. r.count # 0
    BY <1>3, <2>1
  <2>4. \A v \in Workloads : AtZero(v)'
    BY <2>2, <2>3, ZeroKeeps
  <2> QED BY <2>2, <2>4 DEF Remembers
<1>4. ASSUME NEW w \in Workloads, NEW goal,
             goal = (LET r == workload[w] IN
                     IF r.prev # 0 THEN r.prev ELSE IF r.count # 0 THEN r.count ELSE 1),
             Present(w)
      PROVE  goal # 0 /\ (workload[w].count = 0 => goal = before[w])
  <2>1. AtZero(w)
    BY DEF MemoryInv
  <2> QED BY <1>4, <2>1 DEF AtZero
<1>5. ASSUME NEW w \in Workloads, NEW goal,
             goal = (LET r == workload[w] IN
                     IF r.prev # 0 THEN r.prev ELSE IF r.count # 0 THEN r.count ELSE 1),
             Load(c, "Resume", w, "asked", goal)
      PROVE  (\A v \in Workloads : AtZero(v)') /\ Remembers(c)'
  <2>1. goal # 0 /\ (workload[w].count = 0 => goal = before[w])
    BY <1>4, <1>5 DEF Load
  <2> QED BY <1>2, <1>5, <2>1
<1>6. PICK w \in Workloads :
            \/ \E n \in Targets : CreateInsert(c, w, n)
            \/ \E n \in Targets : Load(c, "Scale", w, "loaded", n)
            \/ Load(c, "Pause", w, "stamp", 0)
            \/ LET r == workload[w] IN
               Load(c, "Resume", w, "asked",
                    IF r.prev # 0 THEN r.prev ELSE IF r.count # 0 THEN r.count ELSE 1)
            \/ Load(c, "Update", w, "loaded", 0)
            \/ Load(c, "Restart", w, "marked", 0)
            \/ CanMove(workload[w].state, "Deploying") /\ Load(c, "Deploy", w, "loaded", 0)
            \/ Load(c, "Delete", w, "loaded", 0)
  BY BeginIs
<1>7. \A n \in Targets : n # 0
  OBVIOUS
<1>8. QED
  BY <1>2, <1>3, <1>5, <1>6, <1>7

LEMMA MemoryNext ==
  ASSUME Solo, 0 \notin Targets, MemoryInv, [Next]_vars
  PROVE  MemoryInv'
<1>1. HeldInv /\ HeldInv' /\ CallsTyped /\ TypeOK
  BY HeldNext DEF MemoryInv, HeldInv, TypeOK, CallsTyped
<1>2. ASSUME NEW c \in Callers, Return(c)
      PROVE  Remembers(c)'
  BY <1>1, <1>2, ReturnKeeps, RemembersIdle
<1>3. ASSUME NEW c \in Callers, call[c].at \notin {"idle", "asked"}, NEW s \in States,
             Write(call[c].wl, [call[c].copy EXCEPT !.state = s]), before' = before
      PROVE  \A w \in Workloads : AtZero(w)'
  <2>1. PICK r : r = [call[c].copy EXCEPT !.state = s]
    OBVIOUS
  <2>2. workload' = [workload EXCEPT ![call[c].wl] = r]
    BY <1>1, <1>3, <2>1, HeldWrite
  <2> QED BY <1>3, <2>1, <2>2, ZeroWritten
<1>4. ASSUME workload' = workload, before' = before
      PROVE  \A w \in Workloads : AtZero(w)'
  BY <1>4, ZeroKeeps
<1>5. ASSUME NEW c \in Callers, Advance(c)
      PROVE  (\A w \in Workloads : AtZero(w)') /\ Remembers(c)'
  <2>1. CASE \/ SpawnLookup(c) \/ SpawnInsert(c) \/ SpawnProvision(c) \/ ScaleList(c)
             \/ ScaleRemove(c) \/ WalkList(c) \/ RestartOne(c) \/ DeployOne(c) \/ DeleteOne(c)
    <3>1. /\ call[c].at \in Walking /\ before' = before
          /\ \/ Onward(c) /\ workload' = workload
             \/ Return(c) /\ workload' = workload
             \/ Return(c) /\ Write(call[c].wl, [call[c].copy EXCEPT !.state = "Active"])
      BY <1>1, <2>1, WalkSteps
    <3>2. \A w \in Workloads : AtZero(w)'
      BY <1>3, <1>4, <3>1 DEF Walking, States
    <3>3. CASE Onward(c) /\ workload' = workload
      <4>1. Remembers(c)
        BY DEF MemoryInv
      <4> QED BY <3>1, <3>2, <3>3, <4>1 DEF Remembers, Onward, Walking
    <3> QED BY <1>2, <3>1, <3>2, <3>3
  <2>2. CASE Failing(c) \/ CreateFinish(c) \/ DeployFinish(c)
    <3>1. /\ call[c].at \notin {"idle", "asked"} /\ before' = before /\ Return(c)
          /\ \E s \in {"Failed", "Active"} :
                Write(call[c].wl, [call[c].copy EXCEPT !.state = s])
      BY <2>2 DEF Failing, CreateFinish, DeployFinish, At
    <3> QED BY <1>2, <1>3, <3>1 DEF States
  <2>3. CASE UpdateWrite(c)
    <3>1. call[c].at = "loaded" /\ before' = before /\ Return(c)
          /\ Write(call[c].wl, call[c].copy)
      BY <2>3 DEF UpdateWrite, At
    <3>2. call[c].copy = workload[call[c].wl] /\ TypeOK /\ call[c].wl \in Workloads
      BY <1>1, <3>1, HeldFacts
    <3>3. workload' = workload
      BY <3>1, <3>2 DEF Write, TypeOK
    <3> QED BY <1>2, <1>4, <3>1, <3>3
  <2>4. CASE RestartFinish(c)
    BY <1>2, <1>4, <2>4 DEF RestartFinish
  <2>5. CASE DeleteFinish(c)
    <3>1. call[c].at = "walk" /\ before' = before /\ Return(c)
      BY <2>5 DEF DeleteFinish, At
    <3>2. CASE call[c].failed
      <4>1. Write(call[c].wl, [call[c].copy EXCEPT !.state = "Failed"])
        BY <2>5, <3>2 DEF DeleteFinish
      <4> QED BY <1>2, <1>3, <3>1, <4>1 DEF States
    <3>3. CASE ~call[c].failed
      <4>1. workload' = [workload EXCEPT ![call[c].wl] = Absent]
        BY <2>5, <3>3 DEF DeleteFinish
      <4>2. \A w \in Workloads : workload'[w] = workload[w] \/ workload'[w].state = "absent"
        BY <1>1, <4>1 DEF TypeOK, Absent
      <4>3. \A w \in Workloads : AtZero(w)'
        BY <3>1, <4>2, ZeroKeeps
      <4> QED BY <1>2, <3>1, <4>3
    <3> QED BY <3>2, <3>3
  <2>6. ASSUME NEW s \in States, Mark(c, s), call[c].at = "loaded"
        PROVE  (\A w \in Workloads : AtZero(w)') /\ Remembers(c)'
    <3>1. /\ workload' = [workload EXCEPT ![call[c].wl] = [call[c].copy EXCEPT !.state = s]]
          /\ call'[c] = [call[c] EXCEPT !.at = "marked",
                                        !.copy = [call[c].copy EXCEPT !.state = s]]
          /\ before' = before
      BY <1>1, <2>6, MarkIs
    <3>2. /\ \A w \in Workloads : AtZero(w)'
          /\ workload'[call[c].wl].prev = workload[call[c].wl].prev
      BY <2>6, <3>1, ZeroWritten
    <3>3. PICK r : r = [call[c].copy EXCEPT !.state = s]
      OBVIOUS
    <3>4. PICK q : q = [call[c] EXCEPT !.at = "marked", !.copy = r]
      OBVIOUS
    <3>5. call'[c] = q
      BY <3>1, <3>3, <3>4
    <3>6. call[c] \in Calls /\ call[c].copy \in Rows
      BY <1>1, <2>6, HeldFacts
    <3>7. /\ q.verb = call[c].verb /\ q.wl = call[c].wl /\ q.goal = call[c].goal
          /\ q.copy.count = call[c].copy.count
      BY <3>3, <3>4, <3>6 DEF Calls, Rows
    <3>8. Remembers(c)
      BY DEF MemoryInv
    <3> QED BY <2>6, <3>1, <3>2, <3>5, <3>7, <3>8 DEF Remembers
  <2>7. CASE MarkScaling(c) \/ MarkDeploying(c)
    BY <2>6, <2>7 DEF MarkScaling, MarkDeploying, At, States
  <2>8. CASE DeleteMark(c)
    <3>1. call[c].at = "loaded" /\ call[c].verb = "Delete" /\ "Destroying" \in States
      BY <2>8 DEF DeleteMark, At, States
    <3>2. /\ call'[c] = [call[c] EXCEPT !.at = "marked",
                                        !.copy = [call[c].copy EXCEPT !.state = "Destroying"]]
          /\ \/ workload' = [workload EXCEPT
                                ![call[c].wl] = [call[c].copy EXCEPT !.state = "Destroying"]]
             \/ workload' = workload
          /\ before' = before
      BY <1>1, <2>8, DeleteMarkIs
    <3>3. call'[c].verb = "Delete"
      <4>1. call[c] \in Calls
        BY <1>1 DEF TypeOK
      <4> QED BY <3>1, <3>2, <4>1 DEF Calls
    <3>4. \A w \in Workloads : AtZero(w)'
      BY <1>4, <3>1, <3>2, ZeroWritten
    <3> QED BY <3>3, <3>4 DEF Remembers
  <2> QED BY <1>5, <2>1, <2>2, <2>3, <2>4, <2>5, <2>7, <2>8, MemoryStamp, MemoryGet, MemoryFinish
          DEF Advance
<1>6. ASSUME NEW c \in Callers, Begin(c) \/ Advance(c) \/ Interrupt(c)
      PROVE  (\A w \in Workloads : AtZero(w)') /\ \A d \in Callers : Remembers(d)'
  <2>1. CASE Interrupt(c)
    BY <1>2, <1>4, <2>1 DEF Interrupt, Solo
  <2> QED BY <1>5, <1>6, <2>1, MemoryBegin DEF Solo
<1>7. CASE Reboot
  <2>1. \A c \in Callers : call'[c] = Idle
    BY <1>7 DEF Reboot
  <2>2. workload' = workload /\ before' = before
    BY <1>7 DEF Reboot
  <2> QED BY <1>1, <1>4, <2>1, <2>2, RemembersIdle DEF MemoryInv
<1>8. CASE UNCHANGED vars
  BY <1>1, <1>8 DEF vars, MemoryInv, AtZero, Remembers, Present
<1>9. QED
  BY <1>1, <1>6, <1>7, <1>8 DEF Next, MemoryInv

LEMMA MemoryInit == Init => MemoryInv
<1> SUFFICES ASSUME Init PROVE MemoryInv
  OBVIOUS
<1>1. \A w \in Workloads : AtZero(w)
  BY DEF Init, AtZero, Present, Absent
<1>2. \A c \in Callers : Remembers(c)
  BY IdleFields DEF Init, Remembers
<1>3. QED
  BY <1>1, <1>2, HeldInit DEF MemoryInv

\* Calls made one at a time, none of them a Scale to zero: what Resume finds at
\* zero it brings back to the count Pause took away, through failed and repeated
\* Pauses, deploys, updates and reboots.  (A Scale to zero leaves no stamp.)
THEOREM ResumesRestore == Solo /\ 0 \notin Targets => (Spec => ResumeRestores)
<1> SUFFICES ASSUME Solo, 0 \notin Targets PROVE Spec => ResumeRestores
  OBVIOUS
<1>1. Init => MemoryInv
  BY MemoryInit
<1>2. MemoryInv /\ [Next]_vars => MemoryInv'
  BY MemoryNext
<1>3. MemoryInv /\ [Next]_vars =>
         [\A c \in Callers :
            ScaleFinish(c) /\ call[c].verb = "Resume" /\ call[c].copy.count = 0 =>
               workload'[call[c].wl].count = before[call[c].wl]]_vars
  <2> SUFFICES ASSUME MemoryInv, NEW c \in Callers, ScaleFinish(c), call[c].verb = "Resume",
                      call[c].copy.count = 0
               PROVE  workload'[call[c].wl].count = before[call[c].wl]
    OBVIOUS
  <2>1. call[c].at # "idle" /\ HeldInv
    BY DEF ScaleFinish, At, MemoryInv
  <2>2. PICK s : s = IF call[c].goal = 0 THEN "Paused" ELSE "Active"
    OBVIOUS
  <2>3. PICK r : r = [call[c].copy EXCEPT !.count = call[c].goal, !.state = s]
    OBVIOUS
  <2>4. Write(call[c].wl, r)
    BY <2>2, <2>3 DEF ScaleFinish
  <2>5. workload' = [workload EXCEPT ![call[c].wl] = r]
    BY <2>1, <2>4, HeldWrite
  <2>6. workload'[call[c].wl] = r /\ r.count = call[c].goal
    BY <2>1, <2>3, <2>5, HeldFacts DEF Rows, TypeOK
  <2>7. call[c].goal = before[call[c].wl]
    BY DEF MemoryInv, Remembers
  <2> QED BY <2>6, <2>7
<1>4. QED
  BY <1>1, <1>2, <1>3, PTL DEF Spec, ResumeRestores

-----------------------------------------------------------------------------
(* The order of a shrink.                                                  *)

\* The replica a loop is at is one of those it has left.
LEMMA FirstIn ==
  ASSUME TypeOK, NEW S, S \subseteq Ids, S # {}
  PROVE  FirstOf(S) \in S
<1> DEFINE I == {instance[i].index : i \in S}
<1>1. I \subseteq Nat /\ I # {}
  BY DEF TypeOK, InstanceRows
<1>2. \E k \in I : \A m \in I : k <= m
  <2> HIDE DEF I
  <2> QED BY <1>1, SmallestExists
<1>3. \E i \in S : \A j \in S : instance[i].index <= instance[j].index
  BY <1>2
<1>4. QED
  BY <1>3 DEF FirstOf

\* The victims of a shrink are newer than the replicas it keeps.
LEMMA VictimsNewest ==
  ASSUME TypeOK, NEW S, S \subseteq Ids, IsFiniteSet(S), NEW n \in Nat,
         NEW i \in Victims(S, n), NEW j \in S \ Victims(S, n)
  PROVE  instance[j].index < instance[i].index
<1> DEFINE AsNew(k) == {m \in S : instance[m].index >= instance[k].index}
<1>1. \A k \in S : IsFiniteSet(AsNew(k)) /\ Cardinality(AsNew(k)) \in Nat
  <2> SUFFICES ASSUME NEW k \in S
               PROVE  IsFiniteSet(AsNew(k)) /\ Cardinality(AsNew(k)) \in Nat
    OBVIOUS
  <2>1. AsNew(k) \subseteq S
    OBVIOUS
  <2> HIDE DEF AsNew
  <2> QED BY <2>1, FS_Subset, FS_CardinalityType
<1>2. i \in S /\ Cardinality(AsNew(i)) <= n /\ ~(Cardinality(AsNew(j)) <= n)
  BY DEF Victims
<1>3. instance[i].index \in Nat /\ instance[j].index \in Nat
  BY <1>2 DEF TypeOK, InstanceRows
<1>4. ASSUME ~(instance[j].index < instance[i].index)
      PROVE  FALSE
  <2>1. AsNew(j) \subseteq AsNew(i)
    <3> SUFFICES ASSUME NEW m \in S, instance[m].index >= instance[j].index
                 PROVE  instance[m].index >= instance[i].index
      OBVIOUS
    <3>1. instance[m].index \in Nat
      BY DEF TypeOK, InstanceRows
    <3> QED BY <1>3, <1>4, <3>1
  <2>2. Cardinality(AsNew(j)) <= Cardinality(AsNew(i))
    <3> HIDE DEF AsNew
    <3> QED BY <1>1, <1>2, <2>1, FS_Subset
  <2> HIDE DEF AsNew
  <2> QED BY <1>1, <1>2, <2>2
<1>5. QED
  BY <1>4

\* A lone shrink has the newest replicas left to remove.
NewestLast(c) ==
    At(c, Scalers, "walk") =>
        /\ call[c].todo \subseteq Ids
        /\ \A i \in call[c].todo, j \in Replicas(call[c].wl) \ (call[c].todo \cup missed) :
              instance[j].index < instance[i].index

NewestInv == TypeOK /\ Named /\ \A c \in Callers : NewestLast(c)

\* ListInstances, and what the shrink takes from it.
LEMMA ListIs ==
  ASSUME TypeOK, Named, NEW c \in Callers, ScaleList(c)
  PROVE  \E mine \in SUBSET Replicas(call[c].wl), have \in Nat :
         /\ have = Cardinality(mine)
         /\ missed' = missed \cup (Replicas(call[c].wl) \ mine)
         /\ At(c, Scalers, "marked")
         /\ Onward(c)
         /\ \/ /\ call[c].goal >= have
               /\ call'[c].at = "spawn"
               /\ call'[c].todo = {NextIndex(mine) + k : k \in 0 .. (call[c].goal - have - 1)}
            \/ /\ call[c].goal < have
               /\ call'[c].at = "walk"
               /\ call'[c].todo = Victims(mine, have - call[c].goal)
         /\ UNCHANGED <<workload, instance, next, born, unmarked, before>>
<1>1. At(c, Scalers, "marked") /\ CallsTyped /\ call[c].at \in Walking
  BY DEF ScaleList, At, Walking, TypeOK, CallsTyped
<1>0. PICK mine \in SUBSET Replicas(call[c].wl) :
         /\ missed' = missed \cup (Replicas(call[c].wl) \ mine)
         /\ \/ /\ call[c].goal >= Cardinality(mine)
               /\ Become(c, [call[c] EXCEPT !.at = "spawn",
                                !.todo = {NextIndex(mine) + k :
                                    k \in 0 .. (call[c].goal - Cardinality(mine) - 1)}])
            \/ /\ call[c].goal < Cardinality(mine)
               /\ Become(c, [call[c] EXCEPT !.at = "walk",
                                !.todo = Victims(mine, Cardinality(mine) - call[c].goal)])
  BY ScaleListIs, Zenon
<1>9. PICK have \in Nat : have = Cardinality(mine)
  BY ListTyped
<1> SUFFICES /\ Onward(c)
             /\ \/ /\ call[c].goal >= have
                   /\ call'[c].at = "spawn"
                   /\ call'[c].todo = {NextIndex(mine) + k :
                                           k \in 0 .. (call[c].goal - have - 1)}
                \/ /\ call[c].goal < have
                   /\ call'[c].at = "walk"
                   /\ call'[c].todo = Victims(mine, have - call[c].goal)
             /\ UNCHANGED <<workload, instance, next, born, unmarked, before>>
  BY <1>0, <1>1, <1>9, Zenon
<1>2. PICK S : S = {NextIndex(mine) + k : k \in 0 .. (call[c].goal - have - 1)}
  OBVIOUS
<1>3. PICK V : V = Victims(mine, have - call[c].goal)
  OBVIOUS
<1>4. /\ \/ /\ call[c].goal >= have
            /\ Become(c, [call[c] EXCEPT !.at = "spawn", !.todo = S])
         \/ /\ call[c].goal < have
            /\ Become(c, [call[c] EXCEPT !.at = "walk", !.todo = V])
      /\ UNCHANGED <<workload, instance, next, born, unmarked, before>>
  <2>1. UNCHANGED <<workload, instance, next, born, unmarked, before>>
    BY DEF ScaleList
  <2> QED BY <1>0, <1>2, <1>3, <1>9, <2>1
<1>5. "spawn" \in Walking /\ "walk" \in Walking
  BY DEF Walking
<1>6. CASE /\ call[c].goal >= have
           /\ Become(c, [call[c] EXCEPT !.at = "spawn", !.todo = S])
  <2>1. Onward(c) /\ call'[c].at = "spawn" /\ call'[c].todo = S
    BY <1>1, <1>5, <1>6, TodoOn
  <2> QED BY <1>1, <1>2, <1>4, <1>6, <2>1
<1>7. CASE /\ call[c].goal < have
           /\ Become(c, [call[c] EXCEPT !.at = "walk", !.todo = V])
  <2>1. Onward(c) /\ call'[c].at = "walk" /\ call'[c].todo = V
    BY <1>1, <1>5, <1>7, TodoOn
  <2> QED BY <1>1, <1>3, <1>4, <1>7, <2>1
<1>8. QED
  BY <1>4, <1>6, <1>7

\* A removal that succeeded took a live replica; one that failed ends the shrink.
LEMMA RemoveIs ==
  ASSUME TypeOK, Named, NEW c \in Callers, ScaleRemove(c),
         NEW i, i = FirstOf(call[c].todo)
  PROVE  /\ At(c, Scalers, "walk") /\ call[c].todo # {} /\ Onward(c)
         /\ \/ /\ Live(i) /\ instance' = [instance EXCEPT ![i].state = "absent"]
               /\ call'[c].at = "walk" /\ call'[c].todo = call[c].todo \ {i}
            \/ /\ call'[c].at = "failing"
               /\ \/ Live(i) /\ instance' = [instance EXCEPT ![i].state = "Failed"]
                  \/ instance' = instance
         /\ UNCHANGED <<workload, next, born, unmarked, missed, before>>
<1>1. /\ At(c, Scalers, "walk") /\ call[c].todo # {} /\ CallsTyped /\ call[c].at \in Walking
      /\ call[c].at = "walk"
      /\ UNCHANGED <<workload, next, born, unmarked, missed, before>>
  BY DEF ScaleRemove, At, Walking, TypeOK, CallsTyped
<1>2. PICK ok \in BOOLEAN : /\ Remove(i, ok)
                            /\ IF ok THEN Become(c, Done(c, i)) ELSE Goto(c, "failing")
  BY DEF ScaleRemove
<1>3. CASE ok
  <2>1. Live(i) /\ instance' = [instance EXCEPT ![i].state = "absent"]
    BY <1>2, <1>3 DEF Remove
  <2>2. Onward(c) /\ call'[c].at = "walk" /\ call'[c].todo = call[c].todo \ {i}
    BY <1>1, <1>2, <1>3, DoneOn
  <2> QED BY <1>1, <2>1, <2>2
<1>4. CASE ~ok
  <2>1. \/ Live(i) /\ instance' = [instance EXCEPT ![i].state = "Failed"]
        \/ instance' = instance
    BY <1>2, <1>4 DEF Remove
  <2>2. Onward(c) /\ call'[c].at = "failing"
    BY <1>1, <1>2, <1>4, GotoOn DEF Walking
  <2> QED BY <1>1, <2>1, <2>2
<1>5. QED
  BY <1>3, <1>4

LEMMA NewestList ==
  ASSUME Solo, NewestInv, NEW c \in Callers, ScaleList(c)
  PROVE  NewestLast(c)'
<1>1. TypeOK /\ Named /\ CallsTyped
  BY DEF NewestInv, TypeOK, CallsTyped
<1>2. PICK mine \in SUBSET Replicas(call[c].wl), have \in Nat :
         /\ have = Cardinality(mine)
         /\ missed' = missed \cup (Replicas(call[c].wl) \ mine)
         /\ instance' = instance /\ call'[c].wl = call[c].wl
         /\ \/ call'[c].at = "spawn"
            \/ call[c].goal < have /\ call'[c].todo = Victims(mine, have - call[c].goal)
  BY <1>1, ListIs DEF Onward
<1>3. mine \subseteq Ids /\ IsFiniteSet(mine)
  BY <1>1, ListTyped
<1>4. call[c].goal \in Nat
  BY <1>1 DEF CallsTyped, Calls
<1>5. CASE call'[c].at = "spawn"
  BY <1>5 DEF NewestLast, At
<1>6. CASE call[c].goal < have /\ call'[c].todo = Victims(mine, have - call[c].goal)
  <2>1. PICK n \in Nat : n = have - call[c].goal
    BY <1>4, <1>6
  <2>2. PICK V : V = Victims(mine, n)
    OBVIOUS
  <2>3. V \subseteq mine
    BY <2>2 DEF Victims
  <2>4. \A i \in V, j \in mine \ V : instance[j].index < instance[i].index
    BY <1>1, <1>3, <2>2, VictimsNewest
  <2>5. Replicas(call[c].wl)' = Replicas(call[c].wl) /\ call'[c].todo = V
    BY <1>2, <1>6, <2>1, <2>2 DEF Replicas, Live
  <2>6. Replicas(call[c].wl)' \ (call'[c].todo \cup missed') \subseteq mine \ V
    BY <1>2, <2>5
  <2> QED BY <1>2, <1>3, <2>3, <2>4, <2>5, <2>6 DEF NewestLast, Ids
<1>7. QED
  BY <1>2, <1>5, <1>6

LEMMA NewestRemove ==
  ASSUME Solo, NewestInv, NEW c \in Callers, ScaleRemove(c)
  PROVE  NewestLast(c)'
<1>1. TypeOK /\ Named /\ CallsTyped
  BY DEF NewestInv, TypeOK, CallsTyped
<1>2. PICK i : i = FirstOf(call[c].todo)
  OBVIOUS
<1>3. /\ At(c, Scalers, "walk") /\ call[c].todo # {} /\ call'[c].wl = call[c].wl
      /\ \/ /\ Live(i) /\ instance' = [instance EXCEPT ![i].state = "absent"]
            /\ call'[c].todo = call[c].todo \ {i}
         \/ call'[c].at = "failing"
      /\ missed' = missed
  BY <1>1, <1>2, RemoveIs DEF Onward
<1>4. call[c].todo \subseteq Ids
  BY <1>3 DEF NewestInv, NewestLast
<1>5. i \in call[c].todo
  BY <1>1, <1>2, <1>3, <1>4, FirstIn
<1>6. CASE call'[c].at = "failing"
  BY <1>6 DEF NewestLast, At
<1>7. CASE /\ Live(i) /\ instance' = [instance EXCEPT ![i].state = "absent"]
           /\ call'[c].todo = call[c].todo \ {i}
  <2>1. /\ \A k \in Ids : instance'[k].index = instance[k].index
                          /\ instance'[k].owner = instance[k].owner
        /\ \A k \in Ids : instance'[k].state # "absent" => k # i /\ instance[k].state # "absent"
    BY <1>1, <1>4, <1>5, <1>7 DEF TypeOK, InstanceRows
  <2>2. \A k \in Replicas(call[c].wl)' : k # i /\ k \in Replicas(call[c].wl) /\ k \in Ids
    BY <1>3, <2>1 DEF Replicas, Live, Ids
  <2>3. \A k \in call[c].todo, j \in Replicas(call[c].wl) \ (call[c].todo \cup missed) :
              instance[j].index < instance[k].index
    BY <1>3 DEF NewestInv, NewestLast
  <2>4. ASSUME NEW k \in call'[c].todo, NEW j \in Replicas(call[c].wl)' \ (call'[c].todo \cup missed')
        PROVE  instance'[j].index < instance'[k].index
    <3>1. k \in call[c].todo /\ k \in Ids
      BY <1>4, <1>7, <2>4
    <3>2. j \in Replicas(call[c].wl)'
      BY <2>4
    <3>3. j # i /\ j \in Replicas(call[c].wl) /\ j \in Ids
      BY <2>2, <3>2
    <3>4. j \notin call[c].todo \cup missed
      BY <1>3, <1>7, <2>4, <3>3
    <3> QED BY <2>1, <2>3, <3>1, <3>3, <3>4
  <2> QED BY <1>4, <1>7, <2>4 DEF NewestLast, Ids
<1>8. QED
  BY <1>3, <1>6, <1>7

\* Any other step leaves the caller out of a shrink.
LEMMA NewestElsewhere ==
  ASSUME Named, TypeOK, NEW c \in Callers,
         Begin(c) \/ Advance(c) \/ Interrupt(c), ~ScaleList(c), ~ScaleRemove(c)
  PROVE  call'[c].at # "walk" \/ call'[c].verb \notin Scalers
<1>1. CallsTyped
  BY DEF TypeOK, CallsTyped
<1>2. ASSUME Return(c)
      PROVE  call'[c].at # "walk"
  BY <1>1, <1>2, ReturnKeeps, IdleFields
<1>3. CASE Begin(c)
  <2>1. ASSUME NEW w \in Workloads, NEW n \in Targets, CreateInsert(c, w, n)
        PROVE  call'[c].at # "walk"
    <3>1. call'[c].at = "spawn"
      BY <2>1, CreateIs
    <3> QED BY <3>1
  <2>2. ASSUME NEW w \in Workloads, NEW verb, NEW place, NEW goal,
               Load(c, verb, w, place, goal), place # "walk"
        PROVE  call'[c].at # "walk"
    <3>1. Load(c, verb, w, place, goal)
      BY <2>2
    <3>2. call'[c].at = place
      BY <3>1, LoadIs, ZenonT(60)
    <3> QED BY <2>2, <3>2
  <2> QED BY <1>3, <2>1, <2>2, BeginIs
<1>4. CASE \/ Failing(c) \/ CreateFinish(c) \/ ScaleFinish(c) \/ UpdateWrite(c)
           \/ RestartFinish(c) \/ DeployFinish(c) \/ DeleteFinish(c) \/ Interrupt(c)
  <2>1. Return(c)
    BY <1>4 DEF Failing, CreateFinish, ScaleFinish, UpdateWrite, RestartFinish, DeployFinish,
                DeleteFinish, Interrupt
  <2> QED BY <1>2, <2>1
<1>5. ASSUME NEW r, Become(c, r), r.at # "walk"
      PROVE  call'[c].at # "walk"
  BY <1>1, <1>5, CallIs
<1>6. call[c] \in Calls
  BY <1>1 DEF CallsTyped
<1>7. CASE PauseStamp(c) \/ ScaleGet(c) \/ MarkScaling(c) \/ MarkDeploying(c) \/ DeleteMark(c)
  <2>1. Return(c) \/ \E place \in {"asked", "loaded", "marked"} : \E copy :
                        \/ Become(c, [call[c] EXCEPT !.at = place])
                        \/ Become(c, [call[c] EXCEPT !.at = place, !.copy = copy])
    BY <1>7, Zenon DEF PauseStamp, ScaleGet, MarkScaling, MarkDeploying, DeleteMark, Mark, Goto
  <2>2. \A place, copy : /\ [call[c] EXCEPT !.at = place].at = place
                         /\ [call[c] EXCEPT !.at = place, !.copy = copy].at = place
    BY <1>6 DEF Calls
  <2> QED BY <1>2, <1>5, <2>1, <2>2
<1>8. CASE SpawnLookup(c) \/ SpawnInsert(c) \/ SpawnProvision(c)
  <2>1. CASE SpawnLookup(c)
    <3>1. call[c].at = "spawn"
          /\ (Become(c, Done(c, Lowest(call[c].todo)))
              \/ \E place \in {"failing", "insert"} : Goto(c, place))
      BY <2>1, Zenon DEF SpawnLookup
    <3>2. "spawn" \in Walking /\ "failing" \in Walking /\ "insert" \in Walking
      BY DEF Walking
    <3> QED BY <1>1, <3>1, <3>2, DoneOn, GotoOn
  <2>2. CASE SpawnInsert(c)
    <3>1. call[c].at \in Walking
          /\ (Goto(c, "failing") \/ Become(c, [call[c] EXCEPT !.at = "provision", !.inst = next]))
      BY <2>2 DEF SpawnInsert, Walking
    <3> QED BY <1>1, <3>1, InsertedOn, GotoOn DEF Walking
  <2>3. CASE SpawnProvision(c)
    <3>1. call[c].at \in Walking
          /\ (Goto(c, "failing")
              \/ \E x : Become(c, [Done(c, x) EXCEPT !.at = "spawn", !.inst = 0]))
      BY <2>3 DEF SpawnProvision, Walking
    <3> QED BY <1>1, <3>1, ProvisionedOn, GotoOn DEF Walking
  <2> QED BY <1>8, <2>1, <2>2, <2>3
<1>9. CASE WalkList(c) \/ RestartOne(c) \/ DeployOne(c) \/ DeleteOne(c)
  <2>1. call[c].verb \notin Scalers
    BY <1>9 DEF WalkList, RestartOne, DeployOne, DeleteOne, At, Scalers
  <2>2. Onward(c) \/ Return(c)
    BY <1>1, <1>9, WalkSteps
  <2> QED BY <1>2, <2>1, <2>2 DEF Onward
<1>10. QED
  BY <1>3, <1>4, <1>7, <1>8, <1>9 DEF Advance

LEMMA NewestNext ==
  ASSUME Solo, NewestInv, [Next]_vars
  PROVE  NewestInv'
<1>1. TypeOK /\ Named /\ TypeOK' /\ Named'
  BY TypeStep DEF NewestInv
<1>2. ASSUME NEW c \in Callers, Begin(c) \/ Advance(c) \/ Interrupt(c)
      PROVE  \A d \in Callers : NewestLast(d)'
  <2>1. NewestLast(c)'
    <3>1. CASE ScaleList(c)
      BY <3>1, NewestList
    <3>2. CASE ScaleRemove(c)
      BY <3>2, NewestRemove
    <3>3. CASE ~ScaleList(c) /\ ~ScaleRemove(c)
      <4>1. call'[c].at # "walk" \/ call'[c].verb \notin Scalers
        BY <1>1, <1>2, <3>3, NewestElsewhere
      <4> QED BY <4>1 DEF NewestLast, At
    <3> QED BY <3>1, <3>2, <3>3
  <2> QED BY <2>1 DEF Solo
<1>3. CASE Reboot
  <2>1. \A c \in Callers : call'[c].at = "idle"
    BY <1>3, IdleFields DEF Reboot
  <2> QED BY <1>1, <2>1 DEF NewestInv, NewestLast, At
<1>4. CASE UNCHANGED vars
  <2>1. call' = call /\ instance' = instance /\ missed' = missed
    BY <1>4 DEF vars
  <2>2. \A c \in Callers : NewestLast(c)' <=> NewestLast(c)
    BY <2>1 DEF NewestLast, Replicas, Live, At
  <2> QED BY <1>1, <2>2 DEF NewestInv
<1>5. QED
  BY <1>1, <1>2, <1>3, <1>4 DEF Next, NewestInv

\* Calls made one at a time: each replica that a shrink removes is newer than
\* every one it means to keep, in whatever order the rows were inserted and
\* whatever failed before.
THEOREM ShrinksKeepOldest == Solo => (Spec => ShrinkKeepsOldest)
<1> SUFFICES ASSUME Solo PROVE Spec => ShrinkKeepsOldest
  OBVIOUS
<1>1. Init => NewestInv
  <2> SUFFICES ASSUME Init PROVE NewestInv
    OBVIOUS
  <2>1. \A c \in Callers : call[c].at = "idle"
    BY IdleFields DEF Init
  <2> QED BY <2>1, InitType DEF NewestInv, NewestLast, At
<1>2. NewestInv /\ [Next]_vars => NewestInv'
  BY NewestNext
<1>3. NewestInv /\ [Next]_vars =>
         [\A c \in Callers, i \in Ids : ScaleRemove(c) /\ Live(i) /\ ~Live(i)' =>
             \A j \in Replicas(call[c].wl) \ (call[c].todo \cup missed) :
                 instance[j].index < instance[i].index]_vars
  <2> SUFFICES ASSUME NewestInv, NEW c \in Callers, NEW i \in Ids, ScaleRemove(c), Live(i),
                      ~Live(i)'
               PROVE  \A j \in Replicas(call[c].wl) \ (call[c].todo \cup missed) :
                         instance[j].index < instance[i].index
    OBVIOUS
  <2>1. TypeOK /\ Named
    BY DEF NewestInv
  <2>2. PICK f : f = FirstOf(call[c].todo)
    OBVIOUS
  <2>3. /\ At(c, Scalers, "walk") /\ call[c].todo # {}
        /\ \/ \E s : instance' = [instance EXCEPT ![f].state = s]
           \/ instance' = instance
    BY <2>1, <2>2, RemoveIs
  <2>4. i = f
    BY <2>1, <2>3 DEF Live, TypeOK
  <2>5. /\ call[c].todo \subseteq Ids
        /\ \A k \in call[c].todo, j \in Replicas(call[c].wl) \ (call[c].todo \cup missed) :
              instance[j].index < instance[k].index
    BY <2>3 DEF NewestInv, NewestLast
  <2>6. f \in call[c].todo
    BY <2>1, <2>2, <2>3, <2>5, FirstIn
  <2> QED BY <2>4, <2>5, <2>6
<1>4. QED
  BY <1>1, <1>2, <1>3, PTL DEF Spec, ShrinkKeepsOldest

-----------------------------------------------------------------------------
(* Counting the replicas.                                                  *)

\* n numbers from m on.
LEMMA FreshIndices ==
  ASSUME NEW m \in Nat, NEW n \in Nat
  PROVE  LET S == {m + k : k \in 0 .. (n - 1)} IN
         /\ S \subseteq Nat /\ IsFiniteSet(S) /\ Cardinality(S) = n
         /\ \A x \in S : x >= m
<1> DEFINE S == {m + k : k \in 0 .. (n - 1)}
           f == [k \in 0 .. (n - 1) |-> m + k]
<1>1. f \in Bijection(0 .. (n - 1), S)
  <2> DEFINE D == 0 .. (n - 1)
  <2>1. f \in [D -> S]
    OBVIOUS
  <2>2. \A a, b \in D : f[a] = f[b] => a = b
    OBVIOUS
  <2>3. \A x \in S : \E k \in D : f[k] = x
    OBVIOUS
  <2> HIDE DEF f, S, D
  <2>4. f \in Injection(D, S) /\ f \in Surjection(D, S)
    BY <2>1, <2>2, <2>3 DEF Injection, Surjection, IsInjective
  <2> QED BY <2>4 DEF Bijection, D
<1>2. IsFiniteSet(0 .. (n - 1)) /\ Cardinality(0 .. (n - 1)) = n
  <2>1. 0 \in Int /\ n - 1 \in Int
    OBVIOUS
  <2> QED BY <2>1, FS_Interval
<1>3. S \subseteq Nat /\ \A x \in S : x >= m
  OBVIOUS
<1> HIDE DEF S, f
<1>4. ExistsBijection(0 .. (n - 1), S)
  BY <1>1 DEF ExistsBijection
<1>5. IsFiniteSet(S) /\ Cardinality(S) = n
  BY <1>2, <1>4, FS_Bijection
<1>6. QED
  BY <1>3, <1>5 DEF S

\* nextReplicaIndex is past every index in use.
LEMMA NextAbove ==
  ASSUME TypeOK, NEW S, S \subseteq Ids, IsFiniteSet(S), NEW i \in S
  PROVE  instance[i].index < NextIndex(S)
<1> DEFINE I == {instance[j].index : j \in S}
           f == [j \in S |-> instance[j].index]
<1>1. I \subseteq Nat /\ I # {}
  BY DEF TypeOK, InstanceRows
<1>2. IsFiniteSet(I)
  <2>1. f \in Surjection(S, I)
    BY DEF Surjection
  <2> HIDE DEF I, f
  <2> QED BY <2>1, FS_Surjection
<1>3. \E k \in I : \A m \in I : m <= k
  <2> HIDE DEF I
  <2> QED BY <1>1, <1>2, LargestExists
<1>4. \E k \in I : \A j \in S : instance[j].index <= k
  BY <1>3
<1>5. PICK top : top = (CHOOSE k \in I : \A j \in S : instance[j].index <= k)
  OBVIOUS
<1>6. top \in I /\ \A j \in S : instance[j].index <= top
  <2> HIDE DEF I
  <2> QED BY <1>4, <1>5
<1>7. NextIndex(S) = 1 + top
  BY <1>5 DEF NextIndex
<1>8. top \in Nat /\ instance[i].index \in Nat /\ instance[i].index <= top
  BY <1>1, <1>6 DEF TypeOK, InstanceRows
<1>9. QED
  BY <1>7, <1>8

\* With no index held twice a shrink by n has n victims: their ranks are 1 .. n.
LEMMA VictimsCount ==
  ASSUME TypeOK, NEW S, S \subseteq Ids, IsFiniteSet(S),
         \A i, j \in S : instance[i].index = instance[j].index => i = j,
         NEW n \in Nat, n <= Cardinality(S)
  PROVE  Victims(S, n) \subseteq S /\ Cardinality(Victims(S, n)) = n
<1> DEFINE AsNew(k) == {m \in S : instance[m].index >= instance[k].index}
           size == Cardinality(S)
           rank == [k \in S |-> Cardinality(AsNew(k))]
           V == Victims(S, n)
<1>1. \A k \in S : instance[k].index \in Nat
  BY DEF TypeOK, InstanceRows
<1>2. size \in Nat
  BY FS_CardinalityType
<1>3. ASSUME NEW k \in S
      PROVE  IsFiniteSet(AsNew(k)) /\ Cardinality(AsNew(k)) \in 1 .. size
  <2>1. AsNew(k) \subseteq S /\ k \in AsNew(k)
    BY <1>1
  <2> HIDE DEF AsNew
  <2>2. /\ IsFiniteSet(AsNew(k)) /\ Cardinality(AsNew(k)) <= size
        /\ Cardinality(AsNew(k)) \in Nat
    BY <2>1, FS_Subset, FS_CardinalityType
  <2>3. Cardinality(AsNew(k)) # 0
    BY <2>1, <2>2, FS_EmptySet
  <2> QED BY <1>2, <2>2, <2>3
<1>4. ASSUME NEW i \in S, NEW j \in S, instance[i].index < instance[j].index
      PROVE  Cardinality(AsNew(j)) # Cardinality(AsNew(i))
  <2>1. AsNew(j) \subseteq AsNew(i)
    <3> SUFFICES ASSUME NEW m \in S, instance[m].index >= instance[j].index
                 PROVE  instance[m].index >= instance[i].index
      OBVIOUS
    <3> QED BY <1>1, <1>4
  <2>2. i \in AsNew(i) /\ i \notin AsNew(j)
    BY <1>1, <1>4
  <2>3. IsFiniteSet(AsNew(i))
    BY <1>3
  <2> HIDE DEF AsNew
  <2> QED BY <2>1, <2>2, <2>3, FS_Subset
<1>5. rank \in Injection(S, 1 .. size)
  <2>1. rank \in [S -> 1 .. size]
    <3> HIDE DEF AsNew, size
    <3> QED BY <1>3
  <2>2. \A i, j \in S : rank[i] = rank[j] => i = j
    <3> SUFFICES ASSUME NEW i \in S, NEW j \in S, i # j
                 PROVE  Cardinality(AsNew(i)) # Cardinality(AsNew(j))
      OBVIOUS
    <3>1. instance[i].index < instance[j].index \/ instance[j].index < instance[i].index
      BY <1>1
    <3> HIDE DEF AsNew
    <3> QED BY <1>4, <3>1
  <2> HIDE DEF rank
  <2> QED BY <2>1, <2>2 DEF Injection, IsInjective
<1>6. IsFiniteSet(1 .. size) /\ Cardinality(1 .. size) = size
  <2>1. 1 \in Int /\ size \in Int
    BY <1>2
  <2> HIDE DEF size
  <2> QED BY <1>2, <2>1, FS_Interval
<1>7. rank \in Surjection(S, 1 .. size)
  <2> HIDE DEF rank
  <2> QED BY <1>5, <1>6, FS_Injection
<1>8. \A k \in S : k \in V <=> rank[k] <= n
  BY DEF Victims
<1>9. V \subseteq S
  BY DEF Victims
<1> HIDE DEF V, rank, size
<1> DEFINE g == [k \in V |-> rank[k]]
<1>10. rank \in [S -> 1 .. size] /\ \A i, j \in S : rank[i] = rank[j] => i = j
  BY <1>5 DEF Injection, IsInjective
<1>11. g \in Bijection(V, 1 .. n)
  <2>1. g \in [V -> 1 .. n]
    <3> SUFFICES ASSUME NEW k \in V PROVE rank[k] \in 1 .. n
      OBVIOUS
    <3>1. k \in S /\ rank[k] \in 1 .. size /\ rank[k] <= n
      BY <1>8, <1>9, <1>10
    <3> QED BY <1>2, <3>1
  <2>2. \A i, j \in V : g[i] = g[j] => i = j
    BY <1>9, <1>10
  <2>3. \A t \in 1 .. n : \E k \in V : g[k] = t
    <3> SUFFICES ASSUME NEW t \in 1 .. n PROVE \E k \in V : g[k] = t
      OBVIOUS
    <3>1. t \in 1 .. size
      BY <1>2 DEF size
    <3>2. PICK k \in S : rank[k] = t
      BY <1>7, <3>1 DEF Surjection
    <3>3. k \in V
      BY <1>8, <3>2
    <3> QED BY <3>2, <3>3
  <2> HIDE DEF g
  <2> QED BY <2>1, <2>2, <2>3 DEF Bijection, Injection, Surjection, IsInjective
<1>12. ExistsBijection(V, 1 .. n)
  <2> HIDE DEF g
  <2> QED BY <1>11 DEF ExistsBijection
<1>13. IsFiniteSet(V)
  BY <1>9, FS_Subset
<1>14. Cardinality(V) = n
  <2>1. 1 \in Int /\ n \in Int
    OBVIOUS
  <2>2. Cardinality(1 .. n) = n
    BY <2>1, FS_Interval
  <2>3. Cardinality(1 .. n) = Cardinality(V)
    BY <1>12, <1>13, FS_Bijection
  <2> QED BY <2>2, <2>3
<1>15. QED
  BY <1>9, <1>14 DEF V

(* What a step does to the replicas.                                       *)

\* The rows are those that were there, under the same labels and slugs.
Steady ==
    \A i \in Ids :
        /\ Live(i)' <=> Live(i)
        /\ Live(i) => /\ instance'[i].owner = instance[i].owner
                      /\ instance'[i].index = instance[i].index

Minted == \A i \in Ids : Live(i) => i < next

OneSlug ==
    \A i, j \in Ids : Live(i) /\ Live(j) /\ instance[i].index = instance[j].index => i = j

Labelled == \A i \in Ids : Live(i) => instance[i].owner \in Workloads

\* Only a workload that was created has a row, or replicas.
BornFirst ==
    /\ \A w \in Workloads : Present(w) => w \in born
    /\ \A i \in Ids : Live(i) => instance[i].owner \in born

TableInv == Minted /\ OneSlug /\ Labelled /\ BornFirst

LEMMA SameSteady ==
  ASSUME instance' = instance
  PROVE  Steady
BY DEF Steady, Live

LEMMA StateSteady ==
  ASSUME TypeOK, NEW i, Live(i), NEW s, s # "absent",
         instance' = [instance EXCEPT ![i].state = s]
  PROVE  Steady
<1> SUFFICES ASSUME NEW j \in Ids
             PROVE  /\ Live(j)' <=> Live(j)
                    /\ instance'[j].owner = instance[j].owner
                    /\ instance'[j].index = instance[j].index
  BY DEF Steady
<1>1. CASE j = i
  BY <1>1 DEF TypeOK, InstanceRows, Live
<1>2. CASE j # i
  BY <1>2 DEF TypeOK, Live
<1>3. QED
  BY <1>1, <1>2

LEMMA SteadySet ==
  ASSUME Steady, NEW w
  PROVE  Replicas(w)' = Replicas(w)
BY DEF Steady, Replicas, Ids

LEMMA SteadyTable ==
  ASSUME TableInv, Steady, next' = next, born' = born,
         \A w \in Workloads : Present(w)' => Present(w)
  PROVE  TableInv'
<1>1. Ids' = Ids
  BY DEF Ids
<1>2. Minted' /\ OneSlug' /\ Labelled'
  BY <1>1 DEF TableInv, Steady, Minted, OneSlug, Labelled
<1>3. BornFirst'
  BY <1>1 DEF TableInv, Steady, BornFirst
<1>4. QED
  BY <1>2, <1>3 DEF TableInv

\* A replica inserted under a free slug.
LEMMA InsertIs ==
  ASSUME TypeOK, TableInv, NEW w \in Workloads, NEW k \in Nat, next \in Ids,
         \A i \in Ids : Live(i) => instance[i].index # k,
         instance' = [instance EXCEPT ![next] =
                         [owner |-> w, index |-> k, state |-> "Provisioning"]],
         next' = next + 1, w \in born, born' = born, workload' = workload
  PROVE  /\ TableInv'
         /\ Replicas(w)' = Replicas(w) \cup {next}
         /\ next \notin Replicas(w)
         /\ \A v \in Workloads \ {w} : Replicas(v)' = Replicas(v)
         /\ instance'[next].index = k
         /\ \A i \in Ids \ {next} : instance'[i] = instance[i]
<1>1. PICK row : row = [owner |-> w, index |-> k, state |-> "Provisioning"]
  OBVIOUS
<1>0. PICK n \in Ids : n = next
  OBVIOUS
<1>2. row.owner = w /\ row.index = k /\ row.state # "absent"
  BY <1>1
<1>3. instance'[n] = row /\ \A i \in Ids \ {n} : instance'[i] = instance[i]
  BY <1>0, <1>1 DEF TypeOK
<1>4. ~Live(n)
  BY <1>0 DEF TableInv, Minted, TypeOK
<1>5. Live(n)' /\ \A i \in Ids \ {n} : Live(i)' <=> Live(i)
  BY <1>2, <1>3 DEF Live
<1>6. Ids' = Ids /\ Ids \subseteq Nat
  BY DEF Ids
<1>7. Minted'
  <2> SUFFICES ASSUME NEW i \in Ids, Live(i)' PROVE i < next'
    BY <1>6 DEF Minted
  <2>1. CASE i = n
    BY <1>0, <1>6, <2>1
  <2>2. CASE i # n
    <3>1. i < next /\ i \in Nat /\ next \in Nat
      BY <1>5, <1>6, <2>2 DEF TableInv, Minted, TypeOK
    <3> QED BY <3>1
  <2> QED BY <2>1, <2>2
<1>8. OneSlug'
  <2> SUFFICES ASSUME NEW i \in Ids, NEW j \in Ids, Live(i)', Live(j)',
                      instance'[i].index = instance'[j].index
               PROVE  i = j
    BY <1>6 DEF OneSlug
  <2>1. \A m \in Ids \ {n} : Live(m)' => Live(m) /\ instance'[m].index # k
    BY <1>3, <1>5
  <2>2. CASE i = n \/ j = n
    BY <1>2, <1>3, <2>1, <2>2
  <2>3. CASE i # n /\ j # n
    BY <1>3, <2>1, <2>3 DEF TableInv, OneSlug
  <2> QED BY <2>2, <2>3
<1>9. Labelled'
  BY <1>2, <1>3, <1>5, <1>6 DEF TableInv, Labelled
<1>10. BornFirst'
  <2>1. \A v \in Workloads : Present(v)' => v \in born'
    BY DEF TableInv, BornFirst, Present
  <2>2. \A i \in Ids : Live(i)' => instance'[i].owner \in born'
    BY <1>2, <1>3, <1>5 DEF TableInv, BornFirst
  <2> QED BY <1>6, <2>1, <2>2 DEF BornFirst
<1>11. /\ Replicas(w)' = Replicas(w) \cup {n}
       /\ n \notin Replicas(w)
       /\ \A v \in Workloads \ {w} : Replicas(v)' = Replicas(v)
  BY <1>2, <1>3, <1>4, <1>5, <1>6 DEF Replicas
<1>12. QED
  BY <1>0, <1>2, <1>3, <1>7, <1>8, <1>9, <1>10, <1>11 DEF TableInv

\* A replica of w removed.
LEMMA DropIs ==
  ASSUME TypeOK, TableInv, NEW w \in Workloads, NEW i \in Replicas(w),
         instance' = [instance EXCEPT ![i].state = "absent"],
         next' = next, born' = born, workload' = workload
  PROVE  /\ TableInv'
         /\ Replicas(w)' = Replicas(w) \ {i}
         /\ \A v \in Workloads \ {w} : Replicas(v)' = Replicas(v)
<1>1. i \in Ids /\ Live(i) /\ instance[i].owner = w /\ Ids' = Ids
  BY DEF Replicas, Ids
<1>2. /\ ~Live(i)' /\ \A j \in Ids \ {i} : Live(j)' <=> Live(j)
      /\ \A j \in Ids : instance'[j].owner = instance[j].owner
                        /\ instance'[j].index = instance[j].index
  BY <1>1 DEF TypeOK, InstanceRows, Live
<1>3. \A j \in Ids : Live(j)' => Live(j)
  BY <1>1, <1>2
<1>4. Minted' /\ OneSlug' /\ Labelled'
  BY <1>1, <1>2, <1>3 DEF TableInv, Minted, OneSlug, Labelled
<1>5. BornFirst'
  <2>1. \A v \in Workloads : Present(v)' => v \in born'
    BY DEF TableInv, BornFirst, Present
  <2> QED BY <1>1, <1>2, <1>3, <2>1 DEF TableInv, BornFirst
<1>6. /\ Replicas(w)' = Replicas(w) \ {i}
      /\ \A v \in Workloads \ {w} : Replicas(v)' = Replicas(v)
  BY <1>1, <1>2 DEF Replicas
<1>7. QED
  BY <1>4, <1>5, <1>6 DEF TableInv

-----------------------------------------------------------------------------
(* The count of a lone call.                                               *)

\* The states in which a row's count is what it has.
Tallied == {"Active", "Paused", "Deploying"}

\* No listing has left out a replica that is still there.
Sees(w) == Replicas(w) \cap missed = {}

Counted(w) ==
    workload[w].state \in Tallied /\ w \notin unmarked /\ Sees(w) =>
        Cardinality(Replicas(w)) = workload[w].count

\* A spawning call has exactly the indices it lacks still to fill.
Filling(c) ==
    LET r == call[c]
        mine == Replicas(call[c].wl)
    IN  /\ r.at \in {"spawn", "insert", "provision"} =>
              r.verb \notin {"Restart", "Deploy"} /\ IsFiniteSet(r.todo)
        /\ r.at \in {"spawn", "insert"} /\ Sees(r.wl) =>
              /\ \A i \in mine : instance[i].index \notin r.todo
              /\ Cardinality(mine) + Cardinality(r.todo) = r.goal
        /\ r.at = "provision" =>
              r.inst \in mine /\ instance[r.inst].index \in r.todo
        /\ r.at = "provision" /\ Sees(r.wl) =>
              /\ \A i \in mine \ {r.inst} : instance[i].index \notin r.todo
              /\ Cardinality(mine) + Cardinality(r.todo) = r.goal + 1

\* A shrinking call has exactly its surplus still to remove, when all that a
\* listing left out before is part of it.
Shrinking(c) ==
    LET mine == Replicas(call[c].wl) IN
    /\ At(c, Scalers \cup {"Delete"}, "walk") => call[c].todo \subseteq mine
    /\ At(c, Scalers, "walk") /\ mine \cap missed \subseteq call[c].todo =>
          Cardinality(mine) = call[c].goal + Cardinality(call[c].todo)

\* A deploy keeps the replicas it counts on.
Keeping(c) ==
    call[c].verb = "Deploy" /\ call[c].at # "failing" /\ call[c].wl \notin unmarked
    /\ Sees(call[c].wl) =>
        Cardinality(Replicas(call[c].wl)) = call[c].copy.count

Tally(c) == Filling(c) /\ Shrinking(c) /\ Keeping(c)

CountInv ==
    /\ HeldInv
    /\ TableInv
    /\ \A w \in Workloads : Counted(w)
    /\ \A c \in Callers : Tally(c)

LEMMA WorkingAway ==
  ASSUME NEW c \in Callers,
         call'[c].at \notin {"spawn", "insert", "provision", "walk"},
         call'[c].verb # "Deploy" \/ call'[c].at = "failing"
  PROVE  Tally(c)'
BY DEF Tally, Filling, Shrinking, Keeping, At

LEMMA WorkingReturn ==
  ASSUME CallsTyped, NEW c \in Callers, Return(c)
  PROVE  Tally(c)'
<1>1. call'[c].at = "idle" /\ call'[c].verb = "none"
  BY ReturnKeeps, IdleFields
<1>2. QED
  BY <1>1, WorkingAway

LEMMA CountedSame ==
  ASSUME CountInv, Steady, unmarked \subseteq unmarked', missed \subseteq missed',
         workload' = workload
  PROVE  \A w \in Workloads : Counted(w)'
<1> SUFFICES ASSUME NEW w \in Workloads PROVE Counted(w)'
  OBVIOUS
<1>1. Replicas(w)' = Replicas(w)
  BY SteadySet
<1>2. Sees(w)' => Sees(w)
  BY <1>1 DEF Sees
<1>3. QED
  BY <1>1, <1>2 DEF CountInv, Counted

\* One row written: it counts its replicas, or is in a state that does not.
LEMMA CountedWrite ==
  ASSUME CountInv, Steady, unmarked' = unmarked, missed \subseteq missed',
         NEW u \in Workloads, NEW r, workload' = [workload EXCEPT ![u] = r],
         r.state \in Tallied /\ u \notin unmarked /\ Sees(u) =>
            Cardinality(Replicas(u)) = r.count
  PROVE  \A w \in Workloads : Counted(w)'
<1> SUFFICES ASSUME NEW w \in Workloads PROVE Counted(w)'
  OBVIOUS
<1>1. Replicas(w)' = Replicas(w)
  BY SteadySet
<1>2. workload'[w] = IF w = u THEN r ELSE workload[w]
  BY DEF CountInv, HeldInv, TypeOK
<1>6. Sees(w)' => Sees(w)
  BY <1>1 DEF Sees
<1>3. CASE w = u
  BY <1>1, <1>2, <1>3, <1>6 DEF Counted
<1>4. CASE w # u
  BY <1>1, <1>2, <1>4, <1>6 DEF CountInv, Counted
<1>5. QED
  BY <1>3, <1>4

\* Replicas of a workload that is being worked on come and go uncounted.
LEMMA CountedElsewhere ==
  ASSUME CountInv, NEW u \in Workloads, workload[u].state \notin Tallied \/ u \in unmarked,
         \A v \in Workloads \ {u} : Replicas(v)' = Replicas(v),
         workload' = workload, unmarked' = unmarked, missed \subseteq missed'
  PROVE  \A w \in Workloads : Counted(w)'
<1> SUFFICES ASSUME NEW w \in Workloads PROVE Counted(w)'
  OBVIOUS
<1>1. CASE w = u
  BY <1>1 DEF Counted
<1>2. CASE w # u
  <2>1. Sees(w)' => Sees(w)
    BY <1>2 DEF Sees
  <2> QED BY <1>2, <2>1 DEF CountInv, Counted
<1>3. QED
  BY <1>1, <1>2

\* A call that walks, Restart and Deploy apart, has its row out of the count.
LEMMA OutOfCount ==
  ASSUME HeldInv, NEW c \in Callers, call[c].at \in Walking,
         call[c].verb \notin {"Restart", "Deploy"}
  PROVE  workload[call[c].wl].state \notin Tallied \/ call[c].wl \in unmarked
<1>1. call[c] # Idle
  BY IdleFields DEF Walking
<1>2. QED
  BY <1>1 DEF HeldInv, HeldBy, Tallied

LEMMA CountFacts ==
  ASSUME CountInv, NEW c \in Callers, call[c].at # "idle"
  PROVE  /\ HeldInv /\ TableInv /\ TypeOK /\ Named /\ CallsTyped
         /\ call[c] \in Calls /\ call[c].wl \in Workloads /\ call[c].copy \in Rows
         /\ call[c].goal \in Nat /\ call[c].todo \subseteq Nat
         /\ call[c].wl \in born
         /\ workload[call[c].wl].count = call[c].copy.count
         /\ Filling(c) /\ Shrinking(c) /\ Keeping(c)
         /\ Replicas(call[c].wl) \subseteq Ids
         /\ IsFiniteSet(Replicas(call[c].wl))
         /\ Cardinality(Replicas(call[c].wl)) \in Nat
<1>1. HeldInv /\ TableInv /\ Tally(c)
  BY DEF CountInv
<1>2. /\ TypeOK /\ CallsTyped /\ call[c] \in Calls /\ call[c].wl \in Workloads
      /\ call[c].copy \in Rows /\ Present(call[c].wl)
      /\ workload[call[c].wl].count = call[c].copy.count
  BY <1>1, HeldFacts
<1>3. call[c].wl \in born
  BY <1>1, <1>2 DEF TableInv, BornFirst
<1>4. /\ Replicas(call[c].wl) \subseteq Ids
      /\ IsFiniteSet(Replicas(call[c].wl))
      /\ Cardinality(Replicas(call[c].wl)) \in Nat
  BY <1>2, ReplicasTyped
<1>5. call[c].goal \in Nat /\ call[c].todo \subseteq Nat
  BY <1>2 DEF Calls
<1>6. QED
  BY <1>1, <1>2, <1>3, <1>4, <1>5 DEF Tally, CallsTyped

\* The slug of a replica still to spawn is free, another workload's, or that of
\* a replica the listing left out, which is adopted.
LEMMA CountLookup ==
  ASSUME Solo, CountInv, NEW c \in Callers, SpawnLookup(c)
  PROVE  TableInv' /\ (\A w \in Workloads : Counted(w)') /\ Tally(c)'
<1>1. /\ call[c].at = "spawn" /\ call[c].todo # {} /\ call[c].at \in Walking
      /\ UNCHANGED <<workload, instance, next, born, unmarked, missed, before>>
  BY DEF SpawnLookup, Walking
<1>2. /\ TableInv /\ CallsTyped /\ call[c].todo \subseteq Nat /\ Filling(c)
      /\ Replicas(call[c].wl) \subseteq Ids
  BY <1>1, CountFacts
<1>3. PICK k : k = Lowest(call[c].todo)
  OBVIOUS
<1>4. k \in call[c].todo
  BY <1>1, <1>2, <1>3, LowestTyped
<1>5. ASSUME NEW i \in AtIndex(k), instance[i].owner \in {NoOne, call[c].wl}
      PROVE  ~Sees(call[c].wl)
  <2>1. i \in Ids /\ Live(i) /\ instance[i].index = k
    BY DEF AtIndex
  <2>2. instance[i].owner = call[c].wl
    BY <1>2, <1>5, <2>1, ReplicasAssumption DEF TableInv, Labelled
  <2>3. i \in Replicas(call[c].wl)
    BY <2>1, <2>2 DEF Replicas
  <2> QED BY <1>1, <1>2, <1>4, <2>1, <2>3 DEF Filling
<1>6. \/ Become(c, Done(c, k)) /\ ~Sees(call[c].wl)
      \/ \E place \in {"failing", "insert"} : Goto(c, place)
  BY <1>3, <1>5, Zenon DEF SpawnLookup
<1>7. Steady
  BY <1>1, SameSteady
<1>8. TableInv' /\ \A w \in Workloads : Counted(w)'
  <2>1. \A w \in Workloads : Present(w)' => Present(w)
    BY <1>1 DEF Present
  <2> QED BY <1>1, <1>2, <1>7, <2>1, SteadyTable, CountedSame
<1>9. call[c].verb \notin {"Restart", "Deploy"} /\ IsFiniteSet(call[c].todo)
  BY <1>1, <1>2 DEF Filling
<1>10. ASSUME call'[c].wl = call[c].wl
       PROVE  Replicas(call[c].wl)' = Replicas(call[c].wl) /\ (Sees(call[c].wl)' <=> Sees(call[c].wl))
  BY <1>1, <1>10 DEF Replicas, Live, Sees
<1>11. CASE Become(c, Done(c, k)) /\ ~Sees(call[c].wl)
  <2>1. /\ call'[c].at = "spawn" /\ call'[c].todo = call[c].todo \ {k}
        /\ call'[c].wl = call[c].wl /\ call'[c].verb = call[c].verb
    BY <1>1, <1>2, <1>11, DoneOn DEF Onward
  <2>2. IsFiniteSet(call'[c].todo)
    BY <1>9, <2>1, FS_RemoveElement
  <2>3. Filling(c)'
    BY <1>9, <1>10, <1>11, <2>1, <2>2 DEF Filling
  <2>4. Shrinking(c)' /\ Keeping(c)'
    BY <1>9, <2>1 DEF Shrinking, Keeping, At
  <2> QED BY <1>8, <2>3, <2>4 DEF Tally
<1>12. ASSUME NEW place \in {"failing", "insert"}, Goto(c, place)
       PROVE  Tally(c)'
  <2>1. /\ call'[c].at = place /\ call'[c].todo = call[c].todo
        /\ call'[c].wl = call[c].wl /\ call'[c].goal = call[c].goal
        /\ call'[c].verb = call[c].verb
    BY <1>1, <1>2, <1>12, GotoOn DEF Walking, Onward
  <2>2. CASE place = "failing"
    BY <2>1, <2>2, WorkingAway
  <2>3. CASE place = "insert"
    <3>1. Filling(c)'
      BY <1>1, <1>2, <1>9, <1>10, <2>1, <2>3 DEF Filling
    <3>2. Shrinking(c)' /\ Keeping(c)'
      BY <1>9, <2>1, <2>3 DEF Shrinking, Keeping, At
    <3> QED BY <3>1, <3>2 DEF Tally
  <2> QED BY <2>2, <2>3
<1>13. QED
  BY <1>6, <1>8, <1>11, <1>12

LEMMA CountInsert ==
  ASSUME Solo, CountInv, NEW c \in Callers, SpawnInsert(c)
  PROVE  TableInv' /\ (\A w \in Workloads : Counted(w)') /\ Tally(c)'
<1>1. /\ call[c].at = "insert" /\ call[c].todo # {} /\ call[c].at \in Walking
      /\ UNCHANGED <<workload, born, unmarked>> /\ missed \subseteq missed'
  BY DEF SpawnInsert, Walking
<1>2. /\ TypeOK /\ HeldInv /\ TableInv /\ CallsTyped /\ call[c].todo \subseteq Nat /\ Filling(c)
      /\ IsFiniteSet(Replicas(call[c].wl)) /\ Cardinality(Replicas(call[c].wl)) \in Nat
      /\ call[c].wl \in born /\ call[c].goal \in Nat
  BY <1>1, CountFacts
<1>3. PICK w \in Workloads : w = call[c].wl
  BY <1>1, CountFacts
<1>4. PICK k \in call[c].todo : k = Lowest(call[c].todo)
  BY <1>1, <1>2, LowestTyped
<1>5. \/ /\ Goto(c, "failing") /\ UNCHANGED <<instance, next>>
      \/ /\ AtIndex(k) = {} /\ next \in Ids
         /\ instance' = [instance EXCEPT ![next] =
                            [owner |-> w, index |-> k, state |-> "Provisioning"]]
         /\ next' = next + 1
         /\ Become(c, [call[c] EXCEPT !.at = "provision", !.inst = next])
  BY <1>3, <1>4 DEF SpawnInsert
<1>6. CASE Goto(c, "failing") /\ UNCHANGED <<instance, next>>
  <2>1. call'[c].at = "failing"
    BY <1>1, <1>2, <1>6, GotoOn DEF Walking
  <2>2. Steady
    BY <1>6, SameSteady
  <2>3. \A v \in Workloads : Present(v)' => Present(v)
    BY <1>1 DEF Present
  <2> QED BY <1>1, <1>2, <1>6, <2>1, <2>2, <2>3, SteadyTable, CountedSame, WorkingAway
<1>7. CASE /\ AtIndex(k) = {} /\ next \in Ids
           /\ instance' = [instance EXCEPT ![next] =
                              [owner |-> w, index |-> k, state |-> "Provisioning"]]
           /\ next' = next + 1
           /\ Become(c, [call[c] EXCEPT !.at = "provision", !.inst = next])
  <2>1. \A i \in Ids : Live(i) => instance[i].index # k
    BY <1>7 DEF AtIndex
  <2>2. k \in Nat
    BY <1>2
  <2>3. PICK n \in Ids : n = next
    BY <1>7
  <2>4. /\ TableInv'
        /\ Replicas(w)' = Replicas(w) \cup {n} /\ n \notin Replicas(w)
        /\ \A v \in Workloads \ {w} : Replicas(v)' = Replicas(v)
        /\ instance'[n].index = k
        /\ \A i \in Ids \ {n} : instance'[i] = instance[i]
    BY <1>1, <1>2, <1>3, <1>7, <2>1, <2>2, <2>3, InsertIs
  <2>5. /\ call'[c].at = "provision" /\ call'[c].todo = call[c].todo /\ call'[c].inst = n
        /\ call'[c].wl = w /\ call'[c].goal = call[c].goal /\ call'[c].verb = call[c].verb
    BY <1>1, <1>2, <1>3, <1>7, <2>3, InsertedOn DEF Onward
  <2>6. /\ call[c].verb \notin {"Restart", "Deploy"}
        /\ IsFiniteSet(call[c].todo)
        /\ Sees(w) =>
              /\ \A i \in Replicas(w) : instance[i].index \notin call[c].todo
              /\ Cardinality(Replicas(w)) + Cardinality(call[c].todo) = call[c].goal
    BY <1>1, <1>2, <1>3 DEF Filling
  <2>11. Sees(w)' => Sees(w)
    BY <1>1, <2>4 DEF Sees
  <2>7. \A v \in Workloads : Counted(v)'
    <3>1. workload[w].state \notin Tallied \/ w \in unmarked
      BY <1>1, <1>2, <1>3, <2>6, OutOfCount
    <3> QED BY <1>1, <2>4, <3>1, CountedElsewhere
  <2>8. Cardinality(Replicas(w)') = Cardinality(Replicas(w)) + 1
    BY <1>2, <1>3, <2>4, FS_AddElement
  <2>9. Filling(c)'
    <3>1. Sees(w)' => \A i \in Replicas(w)' \ {n} : instance'[i].index \notin call[c].todo
      <4>1. Replicas(w) \subseteq Ids
        BY DEF Replicas
      <4> QED BY <2>4, <2>6, <2>11, <4>1
    <3>2. Sees(w)' => Cardinality(Replicas(w)') + Cardinality(call[c].todo) = call[c].goal + 1
      <4>1. Cardinality(call[c].todo) \in Nat
        BY <2>6, FS_CardinalityType
      <4> QED BY <1>2, <1>3, <2>6, <2>8, <2>11, <4>1
    <3>3. n \in Replicas(w)' /\ instance'[n].index \in call[c].todo
      BY <2>4
    <3>4. Replicas(call[c].wl)' = Replicas(w)' /\ (Sees(call[c].wl)' <=> Sees(w)')
      BY <2>5 DEF Replicas, Sees
    <3> QED BY <2>5, <2>6, <3>1, <3>2, <3>3, <3>4 DEF Filling
  <2>10. Shrinking(c)' /\ Keeping(c)'
    BY <2>5, <2>6 DEF Shrinking, Keeping, At
  <2> QED BY <2>4, <2>7, <2>9, <2>10 DEF Tally
<1>8. QED
  BY <1>5, <1>6, <1>7

LEMMA CountProvision ==
  ASSUME Solo, CountInv, NEW c \in Callers, SpawnProvision(c)
  PROVE  TableInv' /\ (\A w \in Workloads : Counted(w)') /\ Tally(c)'
<1>1. /\ call[c].at = "provision" /\ call[c].at \in Walking
      /\ UNCHANGED <<workload, next, born, unmarked, missed>>
  BY DEF SpawnProvision, Walking
<1>2. /\ TypeOK /\ TableInv /\ CallsTyped /\ Filling(c)
      /\ Replicas(call[c].wl) \subseteq Ids
      /\ Cardinality(Replicas(call[c].wl)) \in Nat /\ call[c].goal \in Nat
  BY <1>1, CountFacts
<1>3. PICK i : i = call[c].inst
  OBVIOUS
<1>4. PICK mine : mine = Replicas(call[c].wl)
  OBVIOUS
<1>5. /\ call[c].verb \notin {"Restart", "Deploy"}
      /\ IsFiniteSet(call[c].todo)
      /\ i \in mine /\ instance[i].index \in call[c].todo
      /\ Sees(call[c].wl) =>
            /\ \A j \in mine \ {i} : instance[j].index \notin call[c].todo
            /\ Cardinality(mine) + Cardinality(call[c].todo) = call[c].goal + 1
  BY <1>1, <1>2, <1>3, <1>4 DEF Filling
<1>6. Live(i) /\ i \in Ids
  BY <1>4, <1>5 DEF Replicas
<1>7. PICK s \in {"Running", "Failed"} :
         /\ instance' = [instance EXCEPT ![i].state = s]
         /\ \/ Become(c, [Done(c, instance[i].index) EXCEPT !.at = "spawn", !.inst = 0])
            \/ Goto(c, "failing")
  <2>1. \A ok \in BOOLEAN : (IF ok THEN "Running" ELSE "Failed") \in {"Running", "Failed"}
    OBVIOUS
  <2> QED BY <1>3, <1>6, <2>1 DEF SpawnProvision
<1>8. Steady
  BY <1>2, <1>6, <1>7, StateSteady
<1>9. TableInv' /\ \A w \in Workloads : Counted(w)'
  <2>1. \A w \in Workloads : Present(w)' => Present(w)
    BY <1>1 DEF Present
  <2> QED BY <1>1, <1>2, <1>8, <2>1, SteadyTable, CountedSame
<1>10. CASE Goto(c, "failing")
  <2>1. call'[c].at = "failing"
    BY <1>1, <1>2, <1>10, GotoOn DEF Walking
  <2> QED BY <1>9, <2>1, WorkingAway
<1>11. CASE Become(c, [Done(c, instance[i].index) EXCEPT !.at = "spawn", !.inst = 0])
  <2>1. PICK k : k = instance[i].index
    OBVIOUS
  <2>2. /\ call'[c].at = "spawn" /\ call'[c].todo = call[c].todo \ {k}
        /\ call'[c].wl = call[c].wl /\ call'[c].goal = call[c].goal
        /\ call'[c].verb = call[c].verb
    BY <1>1, <1>2, <1>11, <2>1, ProvisionedOn DEF Onward
  <2>3. Replicas(call[c].wl)' = mine
    <3>1. PICK w : w = call[c].wl
      OBVIOUS
    <3>2. Replicas(w)' = mine
      BY <1>4, <1>8, <3>1, SteadySet
    <3> QED BY <2>2, <3>1, <3>2
  <2>10. Sees(call[c].wl)' => Sees(call[c].wl)
    BY <1>1, <1>4, <2>2, <2>3 DEF Sees
  <2>4. \A j \in mine : instance'[j].index = instance[j].index
    BY <1>2, <1>4, <1>8 DEF Steady, Replicas
  <2>5. Sees(call[c].wl) => \A j \in mine : instance'[j].index \notin call[c].todo \ {k}
    BY <1>5, <2>1, <2>4
  <2>6. /\ IsFiniteSet(call[c].todo \ {k})
        /\ Cardinality(call[c].todo \ {k}) = Cardinality(call[c].todo) - 1
        /\ Cardinality(call[c].todo) \in Nat
    BY <1>5, <2>1, FS_RemoveElement, FS_CardinalityType
  <2>7. Sees(call[c].wl) => Cardinality(mine) + Cardinality(call[c].todo \ {k}) = call[c].goal
    BY <1>2, <1>4, <1>5, <2>6
  <2>8. Filling(c)'
    BY <1>5, <2>2, <2>3, <2>5, <2>6, <2>7, <2>10 DEF Filling
  <2>9. Shrinking(c)' /\ Keeping(c)'
    BY <1>5, <2>2 DEF Shrinking, Keeping, At
  <2> QED BY <1>9, <2>8, <2>9 DEF Tally
<1>12. QED
  BY <1>7, <1>10, <1>11

LEMMA CountList ==
  ASSUME Solo, CountInv, NEW c \in Callers, ScaleList(c)
  PROVE  TableInv' /\ (\A w \in Workloads : Counted(w)') /\ Tally(c)'
<1>1. PICK all : all = Replicas(call[c].wl)
  OBVIOUS
<1>2. call[c].at # "idle" /\ call[c].verb \in Scalers
  BY DEF ScaleList, At
<1>3. /\ TypeOK /\ Named /\ TableInv
      /\ all \subseteq Ids /\ call[c].goal \in Nat
  BY <1>1, <1>2, CountFacts
<1>4. PICK mine \in SUBSET all, have \in Nat :
         /\ have = Cardinality(mine)
         /\ missed' = missed \cup (all \ mine)
         /\ Onward(c)
         /\ \/ /\ call[c].goal >= have
               /\ call'[c].at = "spawn"
               /\ call'[c].todo = {NextIndex(mine) + k : k \in 0 .. (call[c].goal - have - 1)}
            \/ /\ call[c].goal < have
               /\ call'[c].at = "walk"
               /\ call'[c].todo = Victims(mine, have - call[c].goal)
         /\ UNCHANGED <<workload, instance, next, born, unmarked>>
  BY <1>1, <1>3, ListIs, Zenon
<1>5. mine \subseteq Ids /\ IsFiniteSet(mine) /\ NextIndex(mine) \in Nat
  BY <1>1, <1>3, ListTyped
<1>6. TableInv' /\ \A w \in Workloads : Counted(w)'
  <2>1. Steady /\ \A w \in Workloads : Present(w)' => Present(w)
    BY <1>4, SameSteady DEF Present
  <2>2. missed \subseteq missed'
    BY <1>4
  <2> QED BY <1>3, <1>4, <2>1, <2>2, SteadyTable, CountedSame
<1>7. call'[c].verb = call[c].verb /\ call'[c].verb \notin {"Restart", "Deploy"}
      /\ call'[c].goal = call[c].goal /\ call'[c].wl = call[c].wl
  BY <1>2, <1>4 DEF Onward, Scalers
<1>8. Replicas(call[c].wl)' = all
  BY <1>1, <1>4, <1>7 DEF Replicas, Live
<1>9. Keeping(c)'
  BY <1>7 DEF Keeping
<1>10. CASE /\ call[c].goal >= have
            /\ call'[c].at = "spawn"
            /\ call'[c].todo = {NextIndex(mine) + k : k \in 0 .. (call[c].goal - have - 1)}
  <2>1. PICK n \in Nat : n = call[c].goal - have
    BY <1>3, <1>4, <1>10
  <2>2. PICK m \in Nat : m = NextIndex(mine)
    BY <1>5
  <2>3. call'[c].todo = {m + k : k \in 0 .. (n - 1)}
    BY <1>10, <2>1, <2>2
  <2>4. /\ IsFiniteSet(call'[c].todo) /\ Cardinality(call'[c].todo) = n
        /\ \A x \in call'[c].todo : x >= m
    BY <2>3, FreshIndices
  <2>5. ASSUME NEW i \in mine
        PROVE  instance'[i].index \notin call'[c].todo
    <3>1. instance[i].index < m /\ instance[i].index \in Nat
      BY <1>3, <1>5, <2>2, NextAbove DEF TypeOK, InstanceRows
    <3>2. ~(instance[i].index >= m)
      BY <3>1
    <3> QED BY <1>4, <2>4, <3>2
  <2>6. Cardinality(mine) + Cardinality(call'[c].todo) = call[c].goal
    BY <1>3, <1>4, <2>1, <2>4
  <2>7. Sees(call[c].wl)' => mine = all
    BY <1>4, <1>8 DEF Sees
  <2>8. Filling(c)'
    BY <1>7, <1>8, <1>10, <2>4, <2>5, <2>6, <2>7 DEF Filling
  <2>9. Shrinking(c)'
    BY <1>10 DEF Shrinking, At
  <2> QED BY <1>6, <1>9, <2>8, <2>9 DEF Tally
<1>11. CASE /\ call[c].goal < have
            /\ call'[c].at = "walk"
            /\ call'[c].todo = Victims(mine, have - call[c].goal)
  <2>1. PICK n \in Nat : n = have - call[c].goal
    BY <1>3, <1>4, <1>11
  <2>2. \A i, j \in mine : instance[i].index = instance[j].index => i = j
    BY <1>1, <1>3, <1>5 DEF TableInv, OneSlug, Replicas
  <2>3. PICK V : V = Victims(mine, n)
    OBVIOUS
  <2>4. V \subseteq mine /\ Cardinality(V) = n
    BY <1>3, <1>4, <1>5, <1>11, <2>1, <2>2, <2>3, VictimsCount
  <2>5. call'[c].todo = V /\ Cardinality(mine) = call[c].goal + Cardinality(V)
    BY <1>3, <1>4, <1>11, <2>1, <2>3, <2>4
  <2>6. Replicas(call[c].wl)' \cap missed' \subseteq call'[c].todo => mine = all
    BY <1>4, <1>8, <2>4, <2>5
  <2>7. Shrinking(c)'
    BY <1>4, <1>7, <1>8, <2>4, <2>5, <2>6 DEF Shrinking
  <2>8. Filling(c)'
    BY <1>11 DEF Filling
  <2> QED BY <1>6, <1>9, <2>7, <2>8 DEF Tally
<1>12. QED
  BY <1>4, <1>10, <1>11

LEMMA CountRemove ==
  ASSUME Solo, CountInv, NEW c \in Callers, ScaleRemove(c)
  PROVE  TableInv' /\ (\A w \in Workloads : Counted(w)') /\ Tally(c)'
<1>1. /\ call[c].at = "walk" /\ call[c].verb \in Scalers /\ call[c].at \in Walking
      /\ At(c, Scalers, "walk") /\ At(c, Scalers \cup {"Delete"}, "walk")
  BY DEF ScaleRemove, At, Walking
<1>2. PICK w \in Workloads : w = call[c].wl
  BY <1>1, CountFacts
<1>3. PICK mine : mine = Replicas(w)
  OBVIOUS
<1>4. /\ TypeOK /\ Named /\ HeldInv /\ TableInv /\ CallsTyped /\ Shrinking(c)
      /\ mine \subseteq Ids /\ IsFiniteSet(mine) /\ Cardinality(mine) \in Nat
      /\ call[c].goal \in Nat
  BY <1>1, <1>2, <1>3, CountFacts
<1>5. /\ call[c].todo \subseteq mine
      /\ mine \cap missed \subseteq call[c].todo =>
            Cardinality(mine) = call[c].goal + Cardinality(call[c].todo)
  BY <1>1, <1>2, <1>3, <1>4 DEF Shrinking
<1>6. PICK i : i = FirstOf(call[c].todo)
  OBVIOUS
<1>7. /\ call[c].todo # {} /\ Onward(c)
      /\ \/ /\ Live(i) /\ instance' = [instance EXCEPT ![i].state = "absent"]
            /\ call'[c].at = "walk" /\ call'[c].todo = call[c].todo \ {i}
         \/ /\ call'[c].at = "failing"
            /\ \/ Live(i) /\ instance' = [instance EXCEPT ![i].state = "Failed"]
               \/ instance' = instance
      /\ UNCHANGED <<workload, next, born, unmarked, missed>>
  BY <1>4, <1>6, RemoveIs
<1>8. i \in call[c].todo /\ i \in mine
  BY <1>4, <1>5, <1>6, <1>7, FirstIn
<1>9. CASE /\ call'[c].at = "failing"
           /\ \/ Live(i) /\ instance' = [instance EXCEPT ![i].state = "Failed"]
              \/ instance' = instance
  <2>1. Steady
    BY <1>4, <1>9, SameSteady, StateSteady
  <2>2. \A v \in Workloads : Present(v)' => Present(v)
    BY <1>7 DEF Present
  <2> QED BY <1>4, <1>7, <1>9, <2>1, <2>2, SteadyTable, CountedSame, WorkingAway
<1>10. CASE /\ instance' = [instance EXCEPT ![i].state = "absent"]
            /\ call'[c].at = "walk" /\ call'[c].todo = call[c].todo \ {i}
  <2>1. /\ TableInv'
        /\ Replicas(w)' = mine \ {i}
        /\ \A v \in Workloads \ {w} : Replicas(v)' = Replicas(v)
    BY <1>3, <1>4, <1>7, <1>8, <1>10, DropIs
  <2>2. call[c].verb \notin {"Restart", "Deploy"}
    BY <1>1 DEF Scalers
  <2>3. \A v \in Workloads : Counted(v)'
    <3>1. workload[w].state \notin Tallied \/ w \in unmarked
      BY <1>1, <1>2, <1>4, <2>2, OutOfCount
    <3> QED BY <1>7, <2>1, <3>1, CountedElsewhere
  <2>4. call'[c].verb = call[c].verb /\ call'[c].wl = w /\ call'[c].goal = call[c].goal
    BY <1>2, <1>7 DEF Onward
  <2>5. Filling(c)' /\ Keeping(c)'
    BY <1>10, <2>2, <2>4 DEF Filling, Keeping
  <2>6. Shrinking(c)'
    <3>1. IsFiniteSet(call[c].todo) /\ Cardinality(call[c].todo) \in Nat
      BY <1>4, <1>5, FS_Subset, FS_CardinalityType
    <3>2. /\ Cardinality(mine \ {i}) = Cardinality(mine) - 1
          /\ Cardinality(call[c].todo \ {i}) = Cardinality(call[c].todo) - 1
      BY <1>4, <1>8, <3>1, FS_RemoveElement
    <3>3. (mine \ {i}) \cap missed \subseteq call[c].todo \ {i} =>
             Cardinality(mine \ {i}) = call[c].goal + Cardinality(call[c].todo \ {i})
      <4>1. (mine \ {i}) \cap missed \subseteq call[c].todo \ {i} =>
               mine \cap missed \subseteq call[c].todo
        BY <1>8
      <4> QED BY <1>4, <1>5, <3>1, <3>2, <4>1
    <3>4. call[c].todo \ {i} \subseteq mine \ {i}
      BY <1>5
    <3>5. Replicas(call[c].wl)' = mine \ {i}
      BY <2>1, <2>4 DEF Replicas
    <3> QED BY <1>7, <1>10, <2>4, <3>3, <3>4, <3>5 DEF Shrinking
  <2> QED BY <2>1, <2>3, <2>5, <2>6 DEF Tally
<1>11. QED
  BY <1>7, <1>9, <1>10

\* Delete takes replicas of its own workload, whose row no longer counts them.
LEMMA CountDelete ==
  ASSUME Solo, CountInv, NEW c \in Callers, DeleteOne(c)
  PROVE  TableInv' /\ (\A w \in Workloads : Counted(w)') /\ Tally(c)'
<1>1. /\ call[c].at = "walk" /\ call[c].verb = "Delete" /\ call[c].at \in Walking
      /\ At(c, Scalers \cup {"Delete"}, "walk") /\ call[c].todo # {}
      /\ UNCHANGED <<workload, next, born, unmarked, missed>>
  BY DEF DeleteOne, At, Walking
<1>2. PICK w \in Workloads : w = call[c].wl
  BY <1>1, CountFacts
<1>3. PICK mine : mine = Replicas(w)
  OBVIOUS
<1>4. /\ TypeOK /\ HeldInv /\ TableInv /\ CallsTyped /\ Shrinking(c) /\ mine \subseteq Ids
      /\ call[c] \in Calls
  BY <1>1, <1>2, <1>3, CountFacts
<1>5. call[c].todo \subseteq mine
  BY <1>1, <1>2, <1>3, <1>4 DEF Shrinking
<1>6. PICK i : i = FirstOf(call[c].todo)
  OBVIOUS
<1>7. i \in call[c].todo /\ i \in mine
  BY <1>1, <1>4, <1>5, <1>6, FirstIn
<1>8. Live(i) /\ i \in Ids
  BY <1>3, <1>7 DEF Replicas
<1>9. PICK ok \in BOOLEAN :
         /\ instance' = [instance EXCEPT ![i].state = IF ok THEN "absent" ELSE "Failed"]
         /\ Become(c, [Done(c, i) EXCEPT !.failed = call[c].failed \/ ~ok])
  BY <1>6, <1>8 DEF DeleteOne, Remove
<1>10. /\ call'[c].verb = "Delete" /\ call'[c].wl = w /\ call'[c].at = "walk"
       /\ call'[c].todo = call[c].todo \ {i}
  <2>1. PICK e : e = Done(c, i)
    OBVIOUS
  <2>2. e \in Calls /\ e.verb = "Delete" /\ e.wl = w /\ e.at = "walk"
        /\ e.todo = call[c].todo \ {i}
    BY <1>1, <1>2, <1>4, <2>1 DEF Done, Calls
  <2>3. PICK q : q = [e EXCEPT !.failed = call[c].failed \/ ~ok]
    OBVIOUS
  <2>4. call'[c] = q
    BY <1>4, <1>9, <2>1, <2>3, CallIs
  <2> QED BY <2>2, <2>3, <2>4 DEF Calls
<1>11. Filling(c)' /\ Keeping(c)' /\ ~At(c, Scalers, "walk")'
  BY <1>10 DEF Filling, Keeping, At, Scalers
<1>12. CASE ok
  <2>1. instance' = [instance EXCEPT ![i].state = "absent"]
    BY <1>9, <1>12
  <2>2. /\ TableInv'
        /\ Replicas(w)' = mine \ {i}
        /\ \A v \in Workloads \ {w} : Replicas(v)' = Replicas(v)
    BY <1>1, <1>3, <1>4, <1>7, <2>1, DropIs
  <2>3. \A v \in Workloads : Counted(v)'
    <3>1. workload[w].state \notin Tallied \/ w \in unmarked
      BY <1>1, <1>2, <1>4, OutOfCount
    <3> QED BY <1>1, <2>2, <3>1, CountedElsewhere
  <2>4. Replicas(call[c].wl)' = mine \ {i}
    BY <1>10, <2>2 DEF Replicas
  <2>5. Shrinking(c)'
    BY <1>5, <1>10, <1>11, <2>4 DEF Shrinking
  <2> QED BY <1>11, <2>2, <2>3, <2>5 DEF Tally
<1>13. CASE ~ok
  <2>1. instance' = [instance EXCEPT ![i].state = "Failed"]
    BY <1>9, <1>13
  <2>2. Steady
    BY <1>4, <1>8, <2>1, StateSteady
  <2>3. \A v \in Workloads : Present(v)' => Present(v)
    BY <1>1 DEF Present
  <2>4. TableInv' /\ \A v \in Workloads : Counted(v)'
    BY <1>1, <1>4, <2>2, <2>3, SteadyTable, CountedSame
  <2>5. Replicas(w)' = mine
    BY <1>3, <2>2, SteadySet
  <2>6. Replicas(call[c].wl)' = mine
    BY <1>10, <2>5 DEF Replicas
  <2>7. Shrinking(c)'
    BY <1>5, <1>10, <1>11, <2>6 DEF Shrinking
  <2> QED BY <1>11, <2>4, <2>7 DEF Tally
<1>14. QED
  BY <1>12, <1>13

\* Deploy gives up on an empty workload, and says Active: it still counts it.
LEMMA CountWalk ==
  ASSUME Solo, CountInv, NEW c \in Callers, WalkList(c) \/ RestartOne(c) \/ DeployOne(c)
  PROVE  TableInv' /\ (\A w \in Workloads : Counted(w)') /\ Tally(c)'
<1>1. call[c].at \in Walking /\ call[c].at # "idle" /\ call[c].at # "failing"
      /\ call[c].verb \in {"Restart", "Deploy", "Delete"}
      /\ (call[c].verb = "Delete" => WalkList(c))
      /\ UNCHANGED <<next, born, unmarked>> /\ missed \subseteq missed'
  BY DEF WalkList, RestartOne, DeployOne, At, Walking
<1>2. PICK w \in Workloads : w = call[c].wl
  BY <1>1, CountFacts
<1>3. /\ TypeOK /\ HeldInv /\ TableInv /\ CallsTyped /\ Keeping(c) /\ call[c].copy \in Rows
  BY <1>1, CountFacts
<1>4. Steady
  <2>1. CASE RestartOne(c)
    <3>1. PICK i : i = FirstOf(call[c].todo)
      OBVIOUS
    <3>2. \/ instance' = instance
          \/ \E ok \in BOOLEAN :
                /\ Live(i)
                /\ instance' = [instance EXCEPT ![i].state = IF ok THEN "Running" ELSE "Failed"]
      BY <2>1, <3>1 DEF RestartOne
    <3>3. ASSUME NEW ok \in BOOLEAN, Live(i),
                 instance' = [instance EXCEPT ![i].state = IF ok THEN "Running" ELSE "Failed"]
          PROVE  Steady
      <4>1. PICK s : s = (IF ok THEN "Running" ELSE "Failed")
        OBVIOUS
      <4> QED BY <1>3, <3>3, <4>1, StateSteady
    <3> QED BY <3>2, <3>3, SameSteady
  <2>2. CASE WalkList(c) \/ DeployOne(c)
    BY <2>2, SameSteady DEF WalkList, DeployOne
  <2> QED BY <2>1, <2>2
<1>5. \/ Onward(c) /\ workload' = workload
      \/ Return(c) /\ workload' = workload
      \/ /\ WalkList(c) /\ call[c].verb = "Deploy"
         /\ Return(c) /\ Write(w, [call[c].copy EXCEPT !.state = "Active"])
  BY <1>2, <1>3, WalkSteps
<1>6. ASSUME workload' = workload
      PROVE  TableInv' /\ \A v \in Workloads : Counted(v)'
  <2>1. \A v \in Workloads : Present(v)' => Present(v)
    BY <1>6 DEF Present
  <2> QED BY <1>1, <1>3, <1>4, <1>6, <2>1, SteadyTable, CountedSame
<1>7. Replicas(w)' = Replicas(w)
  BY <1>4, SteadySet
<1>8. CASE Onward(c) /\ workload' = workload
  <2>1. /\ call'[c].verb = call[c].verb /\ call'[c].wl = w /\ call'[c].copy = call[c].copy
    BY <1>2, <1>8 DEF Onward
  <2>2. Replicas(call[c].wl)' = Replicas(w) /\ (Sees(call[c].wl)' => Sees(w))
    BY <1>1, <1>7, <2>1 DEF Replicas, Sees
  <2>3. Keeping(c)'
    BY <1>1, <1>2, <1>3, <2>1, <2>2 DEF Keeping
  <2>4. call'[c].at \in {"walk", "failing"}
        /\ (call[c].verb = "Delete" => call'[c].todo \subseteq Replicas(w))
    <3>1. ASSUME Return(c) PROVE FALSE
      <4>1. call'[c].at = "idle"
        BY <1>3, <3>1, ReturnKeeps, IdleFields
      <4> QED BY <1>8, <4>1 DEF Onward, Walking
    <3>2. CASE WalkList(c)
      <4>1. PICK mine \in SUBSET Replicas(call[c].wl) :
               \/ Return(c)
               \/ Become(c, [call[c] EXCEPT !.at = "walk", !.todo = mine])
        BY <3>2, WalkListIs, Zenon
      <4>2. Become(c, [call[c] EXCEPT !.at = "walk", !.todo = mine])
        BY <3>1, <4>1
      <4>3. "walk" \in Walking
        BY DEF Walking
      <4>4. call'[c].at = "walk" /\ call'[c].todo = mine
        BY <1>1, <1>3, <4>2, <4>3, TodoOn
      <4>5. mine \subseteq Replicas(w)
        BY <1>2, <4>1
      <4> QED BY <4>4, <4>5
    <3>3. CASE RestartOne(c) \/ DeployOne(c)
      <4>1. call[c].at = "walk" /\ call[c].verb # "Delete"
        BY <3>3 DEF RestartOne, DeployOne, At
      <4>2. Goto(c, "failing") \/ \E x : Become(c, Done(c, x))
        BY <3>1, <3>3 DEF RestartOne, DeployOne
      <4> QED BY <1>1, <1>3, <4>1, <4>2, GotoOn, DoneOn DEF Walking
    <3> QED BY <3>2, <3>3
  <2>5. Filling(c)'
    BY <2>4 DEF Filling
  <2>6. Shrinking(c)'
    BY <1>1, <2>1, <2>2, <2>4 DEF Shrinking, At, Scalers
  <2> QED BY <1>6, <1>8, <2>3, <2>5, <2>6 DEF Tally
<1>9. CASE Return(c) /\ workload' = workload
  BY <1>3, <1>6, <1>9, WorkingReturn
<1>10. CASE /\ WalkList(c) /\ call[c].verb = "Deploy"
            /\ Return(c) /\ Write(w, [call[c].copy EXCEPT !.state = "Active"])
  <2>1. PICK r : r = [call[c].copy EXCEPT !.state = "Active"]
    OBVIOUS
  <2>2. r.count = call[c].copy.count
    BY <1>3, <2>1 DEF Rows
  <2>3. workload' = [workload EXCEPT ![w] = r]
    BY <1>1, <1>2, <1>3, <1>10, <2>1, HeldWrite
  <2>4. w \notin unmarked /\ Sees(w) => Cardinality(Replicas(w)) = call[c].copy.count
    BY <1>1, <1>2, <1>3, <1>10 DEF Keeping
  <2>5. \A v \in Workloads : Counted(v)'
    BY <1>1, <1>4, <2>2, <2>3, <2>4, CountedWrite
  <2>6. \A v \in Workloads : Present(v)' => Present(v)
    <3>1. Present(w)
      BY <1>1, <1>2, <1>3, HeldFacts
    <3> QED BY <1>3, <2>3, <3>1 DEF Present, TypeOK
  <2>7. TableInv'
    BY <1>1, <1>3, <1>4, <2>6, SteadyTable
  <2> QED BY <1>3, <1>10, <2>5, <2>7, WorkingReturn
<1>11. QED
  BY <1>5, <1>8, <1>9, <1>10

\* The last write of a call.
LEMMA CountSettle ==
  ASSUME Solo, CountInv, NEW c \in Callers, call[c].at # "idle", NEW r,
         Write(call[c].wl, r), Return(c), UNCHANGED <<instance, next, born, unmarked, missed>>,
         r.state \in Tallied /\ call[c].wl \notin unmarked /\ Sees(call[c].wl) =>
            Cardinality(Replicas(call[c].wl)) = r.count
  PROVE  TableInv' /\ (\A w \in Workloads : Counted(w)') /\ Tally(c)'
<1>1. /\ HeldInv /\ TableInv /\ TypeOK /\ CallsTyped /\ call[c].wl \in Workloads
  BY CountFacts
<1>2. workload' = [workload EXCEPT ![call[c].wl] = r]
  BY <1>1, HeldWrite
<1>3. Steady
  BY SameSteady
<1>4. \A v \in Workloads : Counted(v)'
  BY <1>1, <1>2, <1>3, CountedWrite
<1>5. \A v \in Workloads : Present(v)' => Present(v)
  <2>1. Present(call[c].wl)
    BY <1>1, HeldFacts
  <2> QED BY <1>1, <1>2, <2>1 DEF Present, TypeOK
<1>6. TableInv'
  BY <1>1, <1>3, <1>5, SteadyTable
<1>7. QED
  BY <1>1, <1>4, <1>6, WorkingReturn

LEMMA CountFinish ==
  ASSUME Solo, CountInv, NEW c \in Callers,
         \/ Failing(c) \/ CreateFinish(c) \/ ScaleFinish(c) \/ UpdateWrite(c)
         \/ RestartFinish(c) \/ DeployFinish(c) \/ DeleteFinish(c)
  PROVE  TableInv' /\ (\A w \in Workloads : Counted(w)') /\ Tally(c)'
<1>1. /\ call[c].at # "idle" /\ Return(c)
      /\ UNCHANGED <<instance, next, born, unmarked, missed>>
  BY DEF Failing, CreateFinish, ScaleFinish, UpdateWrite, RestartFinish, DeployFinish,
         DeleteFinish, At
<1>2. /\ HeldInv /\ TableInv /\ TypeOK /\ CallsTyped /\ call[c].wl \in Workloads
      /\ call[c].copy \in Rows /\ Filling(c) /\ Shrinking(c) /\ Keeping(c)
      /\ Cardinality(Replicas(call[c].wl)) \in Nat /\ call[c].goal \in Nat
  BY <1>1, CountFacts
<1>3. Steady
  BY <1>1, SameSteady
<1>4. ASSUME workload' = workload
      PROVE  TableInv' /\ (\A w \in Workloads : Counted(w)') /\ Tally(c)'
  <2>1. \A v \in Workloads : Present(v)' => Present(v)
    BY <1>4 DEF Present
  <2> QED BY <1>1, <1>2, <1>3, <1>4, <2>1, SteadyTable, CountedSame, WorkingReturn
<1>5. ASSUME NEW s \in States, Write(call[c].wl, [call[c].copy EXCEPT !.state = s]),
             s \in Tallied /\ call[c].wl \notin unmarked /\ Sees(call[c].wl) =>
                Cardinality(Replicas(call[c].wl)) = call[c].copy.count
      PROVE  TableInv' /\ (\A w \in Workloads : Counted(w)') /\ Tally(c)'
  <2>1. PICK r : r = [call[c].copy EXCEPT !.state = s]
    OBVIOUS
  <2>2. r.state = s /\ r.count = call[c].copy.count
    BY <1>2, <2>1 DEF Rows
  <2> QED BY <1>1, <1>5, <2>1, <2>2, CountSettle
<1>6. Cardinality({}) = 0
  BY FS_EmptySet
<1>7. CASE Failing(c)
  BY <1>5, <1>7 DEF Failing, States, Tallied
<1>8. CASE CreateFinish(c)
  <2>1. call[c].at = "spawn" /\ call[c].verb = "Create" /\ call[c].todo = {}
        /\ Write(call[c].wl, [call[c].copy EXCEPT !.state = "Active"])
    BY <1>8 DEF CreateFinish, At
  <2>2. Sees(call[c].wl) => Cardinality(Replicas(call[c].wl)) = call[c].goal
    BY <1>2, <1>6, <2>1 DEF Filling
  <2>3. call[c].copy.count = call[c].goal
    BY <1>1, <1>2, <2>1, HeldFacts DEF HeldInv, HeldBy
  <2> QED BY <1>5, <2>1, <2>2, <2>3 DEF States
<1>9. CASE ScaleFinish(c)
  <2>1. /\ At(c, Scalers, "spawn") \/ At(c, Scalers, "walk")
        /\ call[c].todo = {}
    BY <1>9 DEF ScaleFinish
  <2>2. Sees(call[c].wl) => Cardinality(Replicas(call[c].wl)) = call[c].goal
    <3>1. CASE At(c, Scalers, "spawn")
      BY <1>2, <1>6, <2>1, <3>1 DEF Filling, At
    <3>2. CASE At(c, Scalers, "walk")
      BY <1>2, <1>6, <2>1, <3>2 DEF Shrinking, Sees
    <3> QED BY <2>1, <3>1, <3>2
  <2>3. PICK s : s = IF call[c].goal = 0 THEN "Paused" ELSE "Active"
    OBVIOUS
  <2>4. PICK r : r = [call[c].copy EXCEPT !.count = call[c].goal, !.state = s]
    OBVIOUS
  <2>5. r.count = call[c].goal
    BY <1>2, <2>4 DEF Rows
  <2>6. Write(call[c].wl, r)
    BY <1>9, <2>3, <2>4 DEF ScaleFinish
  <2> QED BY <1>1, <2>2, <2>5, <2>6, CountSettle
<1>10. CASE UpdateWrite(c)
  <2>1. call[c].at = "loaded" /\ Write(call[c].wl, call[c].copy)
    BY <1>10 DEF UpdateWrite, At
  <2>2. call[c].copy = workload[call[c].wl]
    BY <1>2, <2>1, HeldFacts
  <2>3. workload' = workload
    BY <1>2, <2>1, <2>2 DEF Write, TypeOK
  <2> QED BY <1>4, <2>3
<1>11. CASE RestartFinish(c)
  BY <1>4, <1>11 DEF RestartFinish
<1>12. CASE DeployFinish(c)
  <2>1. call[c].at = "walk" /\ call[c].verb = "Deploy"
        /\ Write(call[c].wl, [call[c].copy EXCEPT !.state = "Active"])
    BY <1>12 DEF DeployFinish, At
  <2>2. call[c].wl \notin unmarked /\ Sees(call[c].wl) =>
           Cardinality(Replicas(call[c].wl)) = call[c].copy.count
    BY <1>2, <2>1 DEF Keeping
  <2> QED BY <1>5, <2>1, <2>2 DEF States
<1>13. CASE DeleteFinish(c)
  <2>1. CASE call[c].failed
    <3>1. Write(call[c].wl, [call[c].copy EXCEPT !.state = "Failed"])
      BY <1>13, <2>1 DEF DeleteFinish
    <3> QED BY <1>5, <3>1 DEF States, Tallied
  <2>2. CASE ~call[c].failed
    <3>1. workload' = [workload EXCEPT ![call[c].wl] = Absent]
      BY <1>13, <2>2 DEF DeleteFinish
    <3>2. Absent.state \notin Tallied
      BY DEF Absent, Tallied
    <3>3. \A v \in Workloads : Counted(v)'
      BY <1>1, <1>2, <1>3, <3>1, <3>2, CountedWrite
    <3>4. \A v \in Workloads : Present(v)' => Present(v)
      BY <1>2, <3>1 DEF Present, TypeOK, Absent
    <3>5. TableInv'
      BY <1>1, <1>2, <1>3, <3>4, SteadyTable
    <3> QED BY <1>1, <1>2, <3>3, <3>5, WorkingReturn
  <2> QED BY <2>1, <2>2
<1>14. QED
  BY <1>7, <1>8, <1>9, <1>10, <1>11, <1>12, <1>13

\* The steps before a walk: the row keeps its count, or leaves the tally.
LEMMA CountMark ==
  ASSUME Solo, CountInv, NEW c \in Callers,
         PauseStamp(c) \/ ScaleGet(c) \/ MarkScaling(c) \/ MarkDeploying(c) \/ DeleteMark(c)
  PROVE  TableInv' /\ (\A w \in Workloads : Counted(w)') /\ Tally(c)'
<1>1. /\ call[c].at \in {"stamp", "asked", "loaded"}
      /\ instance' = instance /\ next' = next /\ born' = born /\ missed' = missed
      /\ unmarked' = unmarked \/ DeleteMark(c)
  BY DEF PauseStamp, ScaleGet, MarkScaling, MarkDeploying, DeleteMark, Mark, At
<1>2. PICK w \in Workloads : w = call[c].wl
  BY <1>1, CountFacts
<1>3. /\ HeldInv /\ TableInv /\ TypeOK /\ CallsTyped /\ Present(w) /\ Keeping(c)
      /\ call[c].copy \in Rows /\ call[c] \in Calls /\ call[c].copy.state # "absent"
      /\ call[c].at # "asked" => workload[w] = call[c].copy
  BY <1>1, <1>2, CountFacts, HeldFacts
<1>4. Steady
  BY <1>1, SameSteady
<1>5. ASSUME \A v \in Workloads : Present(v)' => Present(v)
      PROVE  TableInv'
  BY <1>1, <1>3, <1>4, <1>5, SteadyTable
<1>6. ASSUME NEW r, workload' = [workload EXCEPT ![w] = r]
      PROVE  \A v \in Workloads : Present(v)' => Present(v)
  BY <1>3, <1>6 DEF Present, TypeOK
<1>7. \A v \in Workloads : Replicas(v)' = Replicas(v) /\ (Sees(v)' <=> Sees(v))
  <2>1. \A v \in Workloads : Replicas(v)' = Replicas(v)
    BY <1>4, SteadySet
  <2> QED BY <1>1, <2>1 DEF Sees
<1>8. CASE PauseStamp(c)
  <2>1. call[c].verb = "Pause" /\ call[c].at = "stamp" /\ unmarked' = unmarked
    BY <1>8 DEF PauseStamp, At
  <2>2. PICK r : r = [call[c].copy EXCEPT !.prev = call[c].copy.count]
    OBVIOUS
  <2>3. r.state = call[c].copy.state /\ r.count = call[c].copy.count
    BY <1>3, <2>2 DEF Rows
  <2>4. workload' = workload \/ workload' = [workload EXCEPT ![w] = r]
    <3>1. Write(w, r) \/ workload' = workload
      BY <1>2, <1>8, <2>2 DEF PauseStamp
    <3> QED BY <1>3, <3>1 DEF Write
  <2>5. \A v \in Workloads : Counted(v)'
    <3>1. Counted(w) /\ workload[w] = call[c].copy
      BY <1>3, <2>1 DEF CountInv
    <3>2. r.state \in Tallied /\ w \notin unmarked /\ Sees(w) =>
             Cardinality(Replicas(w)) = r.count
      BY <2>3, <3>1 DEF Counted
    <3> QED BY <1>1, <1>4, <2>1, <2>4, <3>2, CountedSame, CountedWrite
  <2>6. \A v \in Workloads : Present(v)' => Present(v)
    BY <1>6, <2>4 DEF Present
  <2>7. call'[c].at = "asked" /\ call'[c].verb = "Pause"
    <3>1. PICK q : q = [call[c] EXCEPT !.at = "asked"]
      OBVIOUS
    <3>2. Become(c, q)
      BY <1>2, <1>3, <1>8, <3>1 DEF PauseStamp, Goto
    <3> QED BY <1>3, <2>1, <3>1, <3>2, CallIs DEF Calls
  <2> QED BY <1>5, <2>5, <2>6, <2>7, WorkingAway
<1>9. CASE ScaleGet(c)
  <2>1. workload' = workload /\ unmarked' = unmarked
    BY <1>9 DEF ScaleGet
  <2>2. \A v \in Workloads : Counted(v)'
    BY <1>1, <1>4, <2>1, CountedSame
  <2>3. \A v \in Workloads : Present(v)' => Present(v)
    BY <2>1 DEF Present
  <2>4. CASE Return(c)
    BY <1>3, <1>5, <2>2, <2>3, <2>4, WorkingReturn
  <2>5. CASE call'[c] = [call[c] EXCEPT !.at = "loaded", !.copy = workload[call[c].wl]]
    <3>1. PICK q : q = [call[c] EXCEPT !.at = "loaded", !.copy = workload[call[c].wl]]
      OBVIOUS
    <3>2. q.at = "loaded" /\ q.copy = workload[w] /\ q.verb = call[c].verb /\ q.wl = w
      BY <1>2, <1>3, <3>1 DEF Calls
    <3>3. call'[c] = q
      BY <2>5, <3>1
    <3>4. Keeping(c)'
      <4>1. workload[w].count = call[c].copy.count /\ call[c].at = "asked"
        BY <1>1, <1>2, <1>9, CountFacts DEF ScaleGet
      <4>2. Replicas(call[c].wl)' = Replicas(w) /\ (Sees(call[c].wl)' <=> Sees(w))
        BY <1>1, <1>7, <3>2, <3>3 DEF Replicas, Sees
      <4> QED BY <1>2, <1>3, <2>1, <3>2, <3>3, <4>1, <4>2 DEF Keeping
    <3>5. Filling(c)' /\ Shrinking(c)'
      BY <3>2, <3>3 DEF Filling, Shrinking, At
    <3> QED BY <1>5, <2>2, <2>3, <3>4, <3>5 DEF Tally
  <2> QED BY <1>3, <1>9, <2>4, <2>5, GetIs
<1>10. ASSUME NEW s \in States, Mark(c, s), call[c].at = "loaded", unmarked' = unmarked,
              s \in Tallied => call[c].verb = "Deploy"
       PROVE  TableInv' /\ (\A v \in Workloads : Counted(v)') /\ Tally(c)'
  <2>1. PICK r : r = [call[c].copy EXCEPT !.state = s]
    OBVIOUS
  <2>2. PICK q : q = [call[c] EXCEPT !.at = "marked", !.copy = r]
    OBVIOUS
  <2>3. workload' = [workload EXCEPT ![w] = r] /\ call'[c] = q
    BY <1>2, <1>3, <1>10, <2>1, <2>2, MarkIs
  <2>4. r.state = s /\ r.count = call[c].copy.count
    BY <1>3, <2>1 DEF Rows
  <2>5. q.at = "marked" /\ q.verb = call[c].verb /\ q.copy = r /\ q.wl = w
    BY <1>2, <1>3, <2>2 DEF Calls
  <2>6. call[c].verb = "Deploy" /\ w \notin unmarked /\ Sees(w) =>
           Cardinality(Replicas(w)) = call[c].copy.count
    BY <1>2, <1>3, <1>10 DEF Keeping
  <2>7. \A v \in Workloads : Counted(v)'
    BY <1>1, <1>4, <1>10, <2>3, <2>4, <2>6, CountedWrite
  <2>8. Keeping(c)'
    <3>1. Replicas(call[c].wl)' = Replicas(w) /\ (Sees(call[c].wl)' <=> Sees(w))
      BY <1>1, <1>7, <2>3, <2>5 DEF Replicas, Sees
    <3> QED BY <1>10, <2>3, <2>4, <2>5, <2>6, <3>1 DEF Keeping
  <2>9. Filling(c)' /\ Shrinking(c)'
    BY <2>3, <2>5 DEF Filling, Shrinking, At
  <2> QED BY <1>5, <1>6, <2>3, <2>7, <2>8, <2>9 DEF Tally
<1>11. CASE MarkScaling(c)
  <2>1. Mark(c, "Scaling") /\ call[c].at = "loaded" /\ unmarked' = unmarked
    BY <1>11 DEF MarkScaling, Mark, At
  <2> QED BY <1>10, <2>1 DEF States, Tallied
<1>12. CASE MarkDeploying(c)
  <2>1. Mark(c, "Deploying") /\ call[c].at = "loaded" /\ unmarked' = unmarked
        /\ call[c].verb = "Deploy"
    BY <1>12 DEF MarkDeploying, Mark, At
  <2> QED BY <1>10, <2>1 DEF States
<1>13. CASE DeleteMark(c)
  <2>1. PICK r : r = [call[c].copy EXCEPT !.state = "Destroying"]
    OBVIOUS
  <2>2. PICK q : q = [call[c] EXCEPT !.at = "marked", !.copy = r]
    OBVIOUS
  <2>3. /\ call'[c] = q
        /\ \/ workload' = [workload EXCEPT ![w] = r] /\ unmarked' = unmarked
           \/ workload' = workload /\ unmarked' = unmarked \cup {w}
    BY <1>2, <1>3, <1>13, <2>1, <2>2, DeleteMarkIs
  <2>4. r.state \notin Tallied
    BY <1>3, <2>1 DEF Rows, Tallied
  <2>5. q.at = "marked" /\ q.verb = "Delete"
    BY <1>3, <1>13, <2>2 DEF Calls, DeleteMark, At
  <2>6. \A v \in Workloads : Counted(v)'
    BY <1>1, <1>4, <2>3, <2>4, CountedSame, CountedWrite
  <2>7. \A v \in Workloads : Present(v)' => Present(v)
    BY <1>6, <2>3 DEF Present
  <2> QED BY <1>5, <2>3, <2>5, <2>6, <2>7, WorkingAway
<1>14. QED
  BY <1>8, <1>9, <1>11, <1>12, <1>13

LEMMA CountBegin ==
  ASSUME Solo, CountInv, NEW c \in Callers, Begin(c)
  PROVE  TableInv' /\ (\A w \in Workloads : Counted(w)') /\ Tally(c)'
<1>1. TypeOK /\ Named /\ HeldInv /\ TableInv
  BY DEF CountInv, HeldInv
<1>2. ASSUME NEW w \in Workloads, NEW verb, NEW goal,
             NEW place,
             place \in {"stamp", "asked", "loaded", "marked"}, Load(c, verb, w, place, goal),
             verb = "Deploy" => CanMove(workload[w].state, "Deploying")
      PROVE  TableInv' /\ (\A v \in Workloads : Counted(v)') /\ Tally(c)'
  <2>1. Load(c, verb, w, place, goal)
    BY <1>2
  <2>2. /\ call'[c].verb = verb /\ call'[c].wl = w /\ call'[c].at = place
        /\ call'[c].copy = workload[w] /\ call'[c].goal = goal /\ call'[c].todo = {}
        /\ Present(w)
        /\ UNCHANGED <<workload, instance, next, born, unmarked, missed, before>>
    <3> HIDE <1>2
    <3> QED BY <1>1, <2>1, LoadIs, ZenonT(30)
  <2>3. Steady /\ \A v \in Workloads : Present(v)' => Present(v)
    BY <2>2, SameSteady DEF Present
  <2>4. TableInv' /\ \A v \in Workloads : Counted(v)'
    BY <1>1, <2>2, <2>3, SteadyTable, CountedSame
  <2>5. Replicas(call[c].wl)' = Replicas(w) /\ (Sees(call[c].wl)' <=> Sees(w))
    BY <2>2 DEF Replicas, Live, Sees
  <2>6. Keeping(c)'
    <3> SUFFICES ASSUME verb = "Deploy", w \notin unmarked, Sees(w)
                 PROVE  Cardinality(Replicas(w)) = workload[w].count
      BY <2>2, <2>5 DEF Keeping
    <3>1. workload[w].state \in {"Active", "Deploying"}
      <4>1. CanMove(workload[w].state, "Deploying") /\ workload[w].state \in States \cup {"absent"}
        BY <1>1, <1>2 DEF TypeOK, Rows
      <4> QED BY <4>1 DEF CanMove, States
    <3> QED BY <3>1 DEF CountInv, Counted, Tallied
  <2>7. Filling(c)' /\ Shrinking(c)'
    BY <1>2, <2>2 DEF Filling, Shrinking, At
  <2> QED BY <2>4, <2>6, <2>7 DEF Tally
<1>3. ASSUME NEW w \in Workloads, NEW n \in Targets, CreateInsert(c, w, n)
      PROVE  TableInv' /\ (\A v \in Workloads : Counted(v)') /\ Tally(c)'
  <2>1. PICK r : r = [state |-> "Provisioning", count |-> n, prev |-> 0]
    OBVIOUS
  <2>2. /\ call'[c].verb = "Create" /\ call'[c].wl = w /\ call'[c].at = "spawn"
        /\ call'[c].goal = n /\ call'[c].todo = 0 .. (n - 1)
        /\ workload'[w] = r /\ \A v \in Workloads \ {w} : workload'[v] = workload[v]
        /\ w \notin born /\ born' = born \cup {w}
        /\ UNCHANGED <<instance, next, unmarked, missed>>
    BY <1>1, <1>3, <2>1, CreateIs
  <2>3. Steady
    BY <2>2, SameSteady
  <2>4. Replicas(w) = {}
    BY <1>1, <2>2 DEF TableInv, BornFirst, Replicas
  <2>5. TableInv'
    <3>1. Ids' = Ids
      BY DEF Ids
    <3>2. Minted' /\ OneSlug' /\ Labelled'
      BY <1>1, <2>2, <2>3, <3>1 DEF TableInv, Steady, Minted, OneSlug, Labelled
    <3>3. \A v \in Workloads : Present(v)' => v \in born'
      BY <1>1, <2>2 DEF TableInv, BornFirst, Present
    <3>4. BornFirst'
      BY <1>1, <2>2, <2>3, <3>1, <3>3 DEF TableInv, Steady, BornFirst
    <3> QED BY <3>2, <3>4 DEF TableInv
  <2>6. \A v \in Workloads : Counted(v)'
    <3> SUFFICES ASSUME NEW v \in Workloads PROVE Counted(v)'
      OBVIOUS
    <3>1. Replicas(v)' = Replicas(v)
      BY <2>3, SteadySet
    <3>2. r.state \notin Tallied
      BY <2>1 DEF Tallied
    <3>3. Sees(v)' => Sees(v)
      BY <2>2, <3>1 DEF Sees
    <3> QED BY <2>2, <3>1, <3>2, <3>3 DEF CountInv, Counted
  <2>7. Replicas(call[c].wl)' = {}
    BY <2>2, <2>4 DEF Replicas, Live
  <2>8. IsFiniteSet(0 .. (n - 1)) /\ Cardinality(0 .. (n - 1)) = n /\ n \in Nat
    <3>1. n \in Nat /\ 0 \in Int /\ n - 1 \in Int
      BY ReplicasAssumption
    <3> QED BY <3>1, FS_Interval
  <2>9. Cardinality({}) = 0
    BY FS_EmptySet
  <2>10. Filling(c)'
    BY <2>2, <2>7, <2>8, <2>9 DEF Filling
  <2>11. Shrinking(c)' /\ Keeping(c)'
    BY <2>2 DEF Shrinking, Keeping, At
  <2> QED BY <2>5, <2>6, <2>10, <2>11 DEF Tally
<1>4. QED
  BY <1>2, <1>3, BeginIs

LEMMA CountNext ==
  ASSUME Solo, CountInv, [Next]_vars
  PROVE  CountInv'
<1>1. HeldInv /\ HeldInv' /\ TableInv /\ TypeOK /\ CallsTyped
  BY HeldNext DEF CountInv, HeldInv, TypeOK, CallsTyped
<1>2. ASSUME instance' = instance, workload' = workload, next' = next, born' = born,
             unmarked' = unmarked, missed' = missed
      PROVE  TableInv' /\ \A w \in Workloads : Counted(w)'
  <2>1. Steady /\ \A w \in Workloads : Present(w)' => Present(w)
    BY <1>2, SameSteady DEF Present
  <2> QED BY <1>1, <1>2, <2>1, SteadyTable, CountedSame
<1>3. ASSUME NEW c \in Callers, Begin(c) \/ Advance(c) \/ Interrupt(c)
      PROVE  TableInv' /\ (\A w \in Workloads : Counted(w)') /\ \A d \in Callers : Tally(d)'
  <2>1. CASE Begin(c)
    BY <2>1, CountBegin DEF Solo
  <2>2. CASE Advance(c)
    <3>1. TableInv' /\ (\A w \in Workloads : Counted(w)') /\ Tally(c)'
      BY <2>2, CountLookup, CountInsert, CountProvision, CountFinish, CountMark, CountList,
         CountRemove, CountWalk, CountDelete DEF Advance
    <3> QED BY <3>1 DEF Solo
  <2>3. CASE Interrupt(c)
    <3>1. Return(c) /\ UNCHANGED <<workload, instance, next, born, unmarked, missed>>
      BY <2>3 DEF Interrupt
    <3>2. Tally(c)'
      BY <1>1, <3>1, WorkingReturn
    <3> QED BY <1>2, <3>1, <3>2 DEF Solo
  <2> QED BY <1>3, <2>1, <2>2, <2>3
<1>4. CASE Reboot
  <2>1. UNCHANGED <<workload, instance, next, born, unmarked, missed>>
        /\ \A c \in Callers : call'[c] = Idle
    BY <1>4 DEF Reboot
  <2>2. \A c \in Callers : Tally(c)'
    BY <2>1, IdleFields, WorkingAway
  <2> QED BY <1>1, <1>2, <2>1, <2>2 DEF CountInv
<1>5. CASE UNCHANGED vars
  <2>1. UNCHANGED <<workload, instance, next, born, unmarked, missed, call>>
    BY <1>5 DEF vars
  <2>2. \A c \in Callers : Tally(c)' <=> Tally(c)
    BY <2>1 DEF Tally, Filling, Shrinking, Keeping, At, Replicas, Live, Sees
  <2> QED BY <1>1, <1>2, <2>1, <2>2 DEF CountInv
<1>6. QED
  BY <1>1, <1>3, <1>4, <1>5 DEF Next, CountInv

LEMMA CountInit == Legacy = {} /\ Init => CountInv
<1> SUFFICES ASSUME Legacy = {}, Init PROVE CountInv
  OBVIOUS
<1>1. Cardinality(Legacy) = 0
  BY FS_EmptySet
<1>2. \A i \in Ids : ~Live(i)
  BY <1>1 DEF Init, Live, Ids
<1>3. \A w \in Workloads : ~Present(w)
  BY DEF Init, Present, Absent
<1>4. TableInv
  BY <1>2, <1>3 DEF TableInv, Minted, OneSlug, Labelled, BornFirst
<1>5. \A w \in Workloads : Counted(w)
  BY DEF Init, Counted, Absent, Tallied
<1>6. \A c \in Callers : Tally(c)
  BY IdleFields DEF Init, Tally, Filling, Shrinking, Keeping, At
<1>7. QED
  BY <1>4, <1>5, <1>6, HeldInit DEF CountInv

\* Calls made one at a time, with no unlabelled row in their slugs: a workload
\* that says Active or Paused has exactly the rows it counts, Failed ones among
\* them, after any failures, interruptions, reboots and retries, unless some
\* listing left out a replica that is still there.
THEOREM CountsMatch == Solo /\ Legacy = {} => (Spec => []CountMatches)
<1> SUFFICES ASSUME Solo, Legacy = {} PROVE Spec => []CountMatches
  OBVIOUS
<1>1. Init => CountInv
  BY CountInit
<1>2. CountInv /\ [Next]_vars => CountInv'
  BY CountNext
<1>3. CountInv => CountMatches
  BY DEF CountInv, Counted, CountMatches, Tallied, Sees
<1>4. QED
  BY <1>1, <1>2, <1>3, PTL DEF Spec

-----------------------------------------------------------------------------
(* The garbage collector spares the replicas of any workload that exists,  *)
(* for any size of page.                                                   *)

\* Workload rows, calls and labels name workloads that were created, and the
\* IDs still to be minted name no row.
Known ==
    /\ \A w \in Workloads : Present(w) => w \in born
    /\ \A c \in Callers : call[c] # Idle => call[c].wl \in born
    /\ \A i \in Ids : Live(i) /\ instance[i].owner \in Workloads => instance[i].owner \in born
    /\ \A i \in Ids : i >= next => ~Live(i)

\* What the collector is about to delete is an orphan, and has been one since
\* its lookup.
Doomed ==
    gc.at = "delete" =>
        /\ gc.inst \in Ids
        /\ gc.inst < next
        /\ Live(gc.inst) => instance[gc.inst].owner \in born /\ ~Present(instance[gc.inst].owner)

\* The page holds rows that were inserted.
Listed == \A i \in gc.todo : i < next

GCInv == GCTypeOK /\ Named /\ Known /\ Doomed /\ Listed

\* No workload row comes back, and c alone moves, about the workload it was about.
NoneBack == \A w \in Workloads : Present(w)' => Present(w)

Stays(c) ==
    /\ \A d \in Callers : d # c => call'[d] = call[d]
    /\ call'[c] = Idle \/ (call[c] # Idle /\ call'[c].wl = call[c].wl)

-----------------------------------------------------------------------------
(* What the workload service does to the rows the collector looks at.      *)

LEMMA WriteNoneBack ==
  ASSUME TypeOK, NEW w \in Workloads, NEW r, Write(w, r)
  PROVE  NoneBack
<1>1. CASE Present(w)
  <2>1. workload' = [workload EXCEPT ![w] = r]
    BY <1>1 DEF Write
  <2> QED BY <1>1, <2>1 DEF NoneBack, Present, TypeOK
<1>2. CASE ~Present(w)
  BY <1>2 DEF Write, NoneBack, Present
<1>3. QED
  BY <1>1, <1>2

LEMMA SameNoneBack ==
  ASSUME workload' = workload
  PROVE  NoneBack
BY DEF NoneBack, Present

LEMMA BecomeStays ==
  ASSUME CallsTyped, NEW c \in Callers, call[c] # Idle, NEW r, Become(c, r),
         r = Idle \/ r.wl = call[c].wl
  PROVE  Stays(c)
BY DEF Become, Stays, CallsTyped

LEMMA ReturnStays ==
  ASSUME CallsTyped, NEW c \in Callers, Return(c)
  PROVE  Stays(c)
BY ReturnKeeps DEF Stays

LEMMA GotoStays ==
  ASSUME CallsTyped, NEW c \in Callers, call[c].at # "idle", NEW place, Goto(c, place)
  PROVE  Stays(c)
<1> DEFINE r == [call[c] EXCEPT !.at = place]
<1>1. r.wl = call[c].wl
  BY BusyCall DEF Calls
<1>2. Become(c, r)
  BY DEF Goto
<1> HIDE DEF r
<1>3. QED
  BY <1>1, <1>2, BusyCall, BecomeStays

LEMMA DoneStays ==
  ASSUME CallsTyped, NEW c \in Callers, call[c].at # "idle", NEW x, Become(c, Done(c, x))
  PROVE  Stays(c)
BY BusyCall, DoneTyped, BecomeStays

(* Of all the steps in flight only SpawnInsert adds a row.                 *)
LEMMA CallTame ==
  ASSUME TypeOK, Named, NEW c \in Callers, Advance(c), ~SpawnInsert(c)
  PROVE  Stays(c)
<1>1. CallsTyped /\ call[c].at # "idle" /\ call[c] # Idle
  <2>1. CallsTyped /\ call[c].at # "idle"
    BY DEF Advance, SpawnLookup, SpawnProvision, Failing, CreateFinish, PauseStamp, ScaleGet,
           MarkScaling, ScaleList, ScaleRemove, ScaleFinish, UpdateWrite, MarkDeploying, WalkList,
           RestartOne, RestartFinish, DeployOne, DeployFinish, DeleteMark, DeleteOne,
           DeleteFinish, At, TypeOK, CallsTyped
  <2> QED BY <2>1, BusyCall
<1>2. CASE Return(c)
  BY <1>1, <1>2, ReturnStays
<1>3. CASE \E place : Goto(c, place)
  BY <1>1, <1>3, GotoStays
<1>4. CASE \E x : Become(c, Done(c, x))
  BY <1>1, <1>4, DoneStays
<1>5. ASSUME NEW r, Become(c, r), r.wl = call[c].wl
      PROVE  Stays(c)
  BY <1>1, <1>5, BecomeStays
<1>6. CASE SpawnLookup(c) \/ ScaleRemove(c) \/ RestartOne(c) \/ DeployOne(c)
  BY <1>2, <1>3, <1>4, <1>6 DEF SpawnLookup, ScaleRemove, RestartOne, DeployOne
<1>7. CASE \/ Failing(c) \/ CreateFinish(c) \/ PauseStamp(c) \/ ScaleFinish(c) \/ UpdateWrite(c)
           \/ RestartFinish(c) \/ DeployFinish(c) \/ DeleteFinish(c)
  BY <1>2, <1>3, <1>7 DEF Failing, CreateFinish, PauseStamp, ScaleFinish, UpdateWrite,
                          RestartFinish, DeployFinish, DeleteFinish
<1>8. CASE \E place, copy : Become(c, [call[c] EXCEPT !.at = place, !.copy = copy])
  <2>1. PICK place, copy : Become(c, [call[c] EXCEPT !.at = place, !.copy = copy])
    BY <1>8
  <2> DEFINE r == [call[c] EXCEPT !.at = place, !.copy = copy]
  <2>2. r.wl = call[c].wl
    BY <1>1, BusyCall DEF Calls
  <2> HIDE DEF r
  <2> QED BY <1>5, <2>1, <2>2 DEF r
<1>9. CASE ScaleGet(c) \/ MarkScaling(c) \/ MarkDeploying(c) \/ DeleteMark(c)
  BY <1>2, <1>8, <1>9 DEF ScaleGet, MarkScaling, MarkDeploying, Mark, DeleteMark
<1>10. CASE \E place, S : Become(c, [call[c] EXCEPT !.at = place, !.todo = S])
  <2>1. PICK place, S : Become(c, [call[c] EXCEPT !.at = place, !.todo = S])
    BY <1>10
  <2> DEFINE r == [call[c] EXCEPT !.at = place, !.todo = S]
  <2>2. r.wl = call[c].wl
    BY <1>1, BusyCall DEF Calls
  <2> HIDE DEF r
  <2> QED BY <1>5, <2>1, <2>2 DEF r
<1>11. CASE ScaleList(c)
  BY <1>10, <1>11 DEF ScaleList
<1>12. CASE WalkList(c)
  BY <1>2, <1>10, <1>12 DEF WalkList
<1>13. CASE SpawnProvision(c)
  <2> DEFINE r == [Done(c, instance[call[c].inst].index) EXCEPT !.at = "spawn", !.inst = 0]
  <2>1. r.wl = call[c].wl
    BY <1>1, BusyCall DEF Done, Calls
  <2>2. Become(c, r) \/ Goto(c, "failing")
    BY <1>13 DEF SpawnProvision
  <2> HIDE DEF r
  <2> QED BY <1>3, <1>5, <2>1, <2>2
<1>14. CASE DeleteOne(c)
  <2>1. PICK x, ok : Become(c, [Done(c, x) EXCEPT !.failed = call[c].failed \/ ~ok])
    BY <1>14 DEF DeleteOne
  <2>2. PICK b : b = (call[c].failed \/ ~ok)
    OBVIOUS
  <2> DEFINE r == [Done(c, x) EXCEPT !.failed = b]
  <2>3. r.wl = call[c].wl
    BY <1>1, BusyCall DEF Done, Calls
  <2>4. Become(c, r)
    BY <2>1, <2>2
  <2> HIDE DEF r
  <2> QED BY <1>5, <2>3, <2>4
<1>15. QED
  BY <1>6, <1>7, <1>9, <1>11, <1>12, <1>13, <1>14 DEF Advance

LEMMA RowsTame ==
  ASSUME TypeOK, Named, NEW c \in Callers, Advance(c), ~SpawnInsert(c)
  PROVE  Shrinks /\ NoneBack /\ born' = born /\ next' = next
<1>1. born' = born /\ next' = next
  BY DEF Advance, SpawnLookup, SpawnProvision, Failing, CreateFinish, PauseStamp, ScaleGet,
         MarkScaling, Mark, ScaleList, ScaleRemove, ScaleFinish, UpdateWrite, MarkDeploying,
         WalkList, RestartOne, RestartFinish, DeployOne, DeployFinish, DeleteMark, DeleteOne,
         DeleteFinish
<1>2. ASSUME instance' = instance
      PROVE  Shrinks
  BY <1>2, SameRows
<1>3. CASE ScaleRemove(c) \/ DeleteOne(c)
  <2>1. \E i : \E ok \in BOOLEAN : Remove(i, ok)
    BY <1>3 DEF ScaleRemove, DeleteOne
  <2>2. Shrinks
    BY <2>1, RemoveShrinks
  <2> QED BY <1>1, <1>3, <2>2, SameNoneBack DEF ScaleRemove, DeleteOne
<1>4. CASE SpawnProvision(c) \/ RestartOne(c)
  <2>1. \/ instance' = instance
        \/ \E i, s : Live(i) /\ instance' = [instance EXCEPT ![i].state = s]
    BY <1>4 DEF SpawnProvision, RestartOne
  <2>2. Shrinks
    BY <2>1, SameRows, StateShrinks
  <2> QED BY <1>1, <1>4, <2>2, SameNoneBack DEF SpawnProvision, RestartOne
<1>5. CASE SpawnLookup(c) \/ ScaleGet(c) \/ ScaleList(c) \/ RestartFinish(c) \/ DeployOne(c)
  BY <1>1, <1>2, <1>5, SameNoneBack DEF SpawnLookup, ScaleGet, ScaleList, RestartFinish, DeployOne
<1>6. CASE \/ Failing(c) \/ CreateFinish(c) \/ PauseStamp(c) \/ MarkScaling(c) \/ ScaleFinish(c)
           \/ UpdateWrite(c) \/ MarkDeploying(c) \/ WalkList(c) \/ DeployFinish(c)
           \/ DeleteMark(c) \/ DeleteFinish(c)
  <2>1. instance' = instance
    BY <1>6 DEF Failing, CreateFinish, PauseStamp, MarkScaling, Mark, ScaleFinish, UpdateWrite,
                MarkDeploying, WalkList, DeployFinish, DeleteMark, DeleteFinish
  <2>2. call[c].wl \in Workloads
    <3>1. CallsTyped /\ call[c].at # "idle"
      BY <1>6 DEF Failing, CreateFinish, PauseStamp, MarkScaling, ScaleFinish, UpdateWrite,
                  MarkDeploying, WalkList, DeployFinish, DeleteMark, DeleteFinish, At,
                  TypeOK, CallsTyped
    <3> QED BY <3>1, BusyCall
  <2>3. \/ workload' = workload
        \/ \E r : Write(call[c].wl, r)
        \/ workload' = [workload EXCEPT ![call[c].wl] = Absent]
    BY <1>6 DEF Failing, CreateFinish, PauseStamp, MarkScaling, Mark, ScaleFinish, UpdateWrite,
                MarkDeploying, WalkList, DeployFinish, DeleteMark, DeleteFinish
  <2>4. CASE workload' = [workload EXCEPT ![call[c].wl] = Absent]
    <3>1. NoneBack
      BY <2>4 DEF NoneBack, Present, Absent, TypeOK
    <3> QED BY <1>1, <1>2, <2>1, <3>1
  <2> QED BY <1>1, <1>2, <2>1, <2>2, <2>3, <2>4, SameNoneBack, WriteNoneBack
<1>7. QED
  BY <1>3, <1>4, <1>5, <1>6 DEF Advance

-----------------------------------------------------------------------------
(* Known and Doomed survive every step.                                    *)

(* A tame step, of a call or of the collector.                             *)
LEMMA TameKeeps ==
  ASSUME GCTypeOK, Known, Doomed, Shrinks, NoneBack,
         \A c \in Callers : call'[c] # Idle => call[c] # Idle /\ call'[c].wl = call[c].wl,
         UNCHANGED <<born, next>>
  PROVE  Known' /\ (UNCHANGED gc => Doomed')
<1>1. Known'
  <2>1. ASSUME NEW w \in Workloads, Present(w)'
        PROVE  w \in born'
    BY <2>1 DEF NoneBack, Known
  <2>2. ASSUME NEW c \in Callers, call'[c] # Idle
        PROVE  call'[c].wl \in born'
    BY <2>2 DEF Known
  <2>3. ASSUME NEW i \in Ids, Live(i)', instance'[i].owner \in Workloads
        PROVE  instance'[i].owner \in born'
    BY <2>3 DEF Shrinks, Known
  <2>4. ASSUME NEW i \in Ids, i >= next'
        PROVE  ~Live(i)'
    BY <2>4 DEF Shrinks, Known
  <2> QED BY <2>1, <2>2, <2>3, <2>4 DEF Known, Ids, Idle, Absent
<1>2. ASSUME UNCHANGED gc
      PROVE  Doomed'
  <2> SUFFICES ASSUME gc.at = "delete"
               PROVE  /\ gc.inst \in Ids
                      /\ gc.inst < next'
                      /\ Live(gc.inst)' => /\ instance'[gc.inst].owner \in born'
                                           /\ ~Present(instance[gc.inst].owner)'
    BY <1>2 DEF Doomed, Ids
  <2>1. gc.inst \in Ids /\ gc.inst < next'
    BY DEF Doomed
  <2>2. ASSUME Live(gc.inst)'
        PROVE  instance'[gc.inst].owner \in born' /\ ~Present(instance[gc.inst].owner)'
    <3>1. PICK i : i = gc.inst
      OBVIOUS
    <3>2. Live(i) /\ instance'[i].owner = instance[i].owner
      BY <1>2, <2>1, <2>2, <3>1 DEF Shrinks, Live
    <3>3. instance[i].owner \in born /\ ~Present(instance[i].owner)
      BY <3>1, <3>2 DEF Doomed
    <3>4. instance[i].owner \in Workloads
      BY <3>3 DEF GCTypeOK, TypeOK
    <3>5. workload'[instance[i].owner].state = "absent"
      BY <3>3, <3>4 DEF NoneBack, Present
    <3> QED BY <1>2, <3>1, <3>2, <3>3, <3>5 DEF Present
  <2> QED BY <2>1, <2>2
<1>3. QED
  BY <1>1, <1>2

(* The one step that adds a row: it is the workload's, and not yet listed. *)
LEMMA InsertKeeps ==
  ASSUME GCTypeOK, Named, Known, Doomed, NEW c \in Callers, SpawnInsert(c), UNCHANGED gc
  PROVE  Known' /\ Doomed'
<1>1. CallsTyped /\ call[c].at # "idle" /\ call[c] # Idle
  <2>1. CallsTyped /\ call[c].at # "idle"
    BY DEF SpawnInsert, GCTypeOK, TypeOK, CallsTyped
  <2> QED BY <2>1, BusyCall
<1>2. call[c].wl \in born /\ UNCHANGED <<workload, born>>
  BY <1>1 DEF Known, SpawnInsert
<1>3. Stays(c)
  <2>1. CASE Goto(c, "failing")
    BY <1>1, <2>1, GotoStays
  <2>2. CASE Become(c, [call[c] EXCEPT !.at = "provision", !.inst = next])
    <3> DEFINE r == [call[c] EXCEPT !.at = "provision", !.inst = next]
    <3>1. r.wl = call[c].wl
      BY <1>1, BusyCall DEF Calls
    <3> HIDE DEF r
    <3> QED BY <1>1, <2>2, <3>1, BecomeStays DEF r
  <2> QED BY <2>1, <2>2 DEF SpawnInsert
<1>4. \A d \in Callers : call'[d] # Idle => call[d] # Idle /\ call'[d].wl = call[d].wl
  BY <1>3 DEF Stays
<1>5. CASE UNCHANGED <<instance, next>>
  <2>1. Shrinks /\ NoneBack
    BY <1>2, <1>5, SameRows, SameNoneBack
  <2> QED BY <1>2, <1>4, <1>5, <2>1, TameKeeps
<1>6. CASE /\ next \in Ids /\ next' = next + 1
           /\ \E k : instance' = [instance EXCEPT ![next] =
                                    [owner |-> call[c].wl, index |-> k, state |-> "Provisioning"]]
  <2>1. next \in Nat /\ Ids \subseteq Nat /\ instance \in [Ids -> InstanceRows]
    BY DEF GCTypeOK, TypeOK, Ids
  <2>2. next' = next + 1
    BY <1>6
  <2>3. /\ \A i \in Ids : i # next => instance'[i] = instance[i]
        /\ instance'[next].owner = call[c].wl
    BY <1>6, <2>1
  <2>4. Known'
    <3>1. ASSUME NEW w \in Workloads, Present(w)'
          PROVE  w \in born'
      BY <1>2, <3>1 DEF Present, Known
    <3>2. ASSUME NEW d \in Callers, call'[d] # Idle
          PROVE  call'[d].wl \in born'
      BY <1>2, <1>4, <3>2 DEF Known
    <3>3. ASSUME NEW i \in Ids, Live(i)', instance'[i].owner \in Workloads
          PROVE  instance'[i].owner \in born'
      <4>1. CASE i = next
        BY <1>2, <2>3, <4>1
      <4>2. CASE i # next
        BY <1>2, <2>3, <3>3, <4>2 DEF Live, Known
      <4> QED BY <4>1, <4>2
    <3>4. ASSUME NEW i \in Ids, i >= next'
          PROVE  ~Live(i)'
      <4>1. i >= next /\ i # next
        BY <1>6, <2>1, <3>4
      <4> QED BY <2>3, <4>1 DEF Live, Known
    <3> QED BY <3>1, <3>2, <3>3, <3>4 DEF Known, Ids, Idle, Absent
  <2>5. Doomed'
    <3> SUFFICES ASSUME gc.at = "delete"
                 PROVE  /\ gc.inst \in Ids
                        /\ gc.inst < next'
                        /\ Live(gc.inst)' => /\ instance'[gc.inst].owner \in born'
                                             /\ ~Present(instance[gc.inst].owner)'
      BY DEF Doomed, Ids
    <3>1. gc.inst \in Ids /\ gc.inst < next
      BY DEF Doomed
    <3>2. gc.inst # next /\ gc.inst < next'
      <4>1. \A g \in Ids : g < next => g # next /\ g < next + 1
        BY <2>1
      <4> QED BY <2>2, <3>1, <4>1
    <3>3. instance'[gc.inst] = instance[gc.inst]
      BY <2>3, <3>1, <3>2
    <3>4. PICK i : i = gc.inst
      OBVIOUS
    <3>5. ASSUME Live(gc.inst)'
          PROVE  instance'[gc.inst].owner \in born' /\ ~Present(instance[gc.inst].owner)'
      <4>1. Live(i)
        BY <3>3, <3>4, <3>5 DEF Live
      <4>2. instance[i].owner \in born /\ ~Present(instance[i].owner)
        BY <3>4, <4>1 DEF Doomed
      <4> QED BY <1>2, <3>3, <3>4, <4>2 DEF Present
    <3> QED BY <3>1, <3>2, <3>5
  <2> QED BY <2>4, <2>5
<1>7. QED
  BY <1>5, <1>6 DEF SpawnInsert

(* A verb begins on a row that is there, or on one it creates.             *)
LEMMA BeginKeeps ==
  ASSUME GCTypeOK, Named, Known, Doomed, NEW c \in Callers, Begin(c), UNCHANGED gc
  PROVE  Known' /\ Doomed' /\ next' = next
<1>1. ASSUME NEW w \in Workloads, NEW verb, NEW place, NEW goal, Load(c, verb, w, place, goal)
      PROVE  Known' /\ Doomed' /\ next' = next
  <2>1. Load(c, verb, w, place, goal)
    BY <1>1
  <2>2. w \in born /\ UNCHANGED <<workload, instance, next, born>>
    BY <2>1 DEF Load, Known
  <2>3. \A d \in Callers : call'[d] # Idle => call'[d].wl \in born
    <3> DEFINE r == [Idle EXCEPT !.verb = verb, !.wl = w, !.at = place,
                                 !.copy = workload[w], !.goal = goal]
    <3>1. r.wl = w
      BY DEF Idle
    <3>2. Become(c, r)
      BY <2>1 DEF Load
    <3> HIDE DEF r
    <3>3. \A d \in Callers : call'[d] = IF d = c THEN r ELSE call[d]
      BY <3>2 DEF Become, GCTypeOK, TypeOK
    <3> QED BY <2>2, <3>1, <3>3 DEF Known
  <2>4. Known'
    BY <2>2, <2>3 DEF Known, Present, Live, Ids, Idle, Absent
  <2>5. Doomed'
    BY <2>2 DEF Doomed, Present, Live, Ids
  <2> QED BY <2>2, <2>4, <2>5
<1>2. ASSUME NEW w \in Workloads, NEW n \in Targets, CreateInsert(c, w, n)
      PROVE  Known' /\ Doomed' /\ next' = next
  <2>1. /\ UNCHANGED <<instance, next>>
        /\ w \notin born
        /\ born' = born \cup {w}
        /\ \A v \in Workloads : v # w => (Present(v)' <=> Present(v))
    BY <1>2 DEF CreateInsert, Present, GCTypeOK, TypeOK
  <2>2. \A d \in Callers : call'[d] # Idle => call'[d].wl \in born'
    <3> DEFINE row == [state |-> "Provisioning", count |-> n, prev |-> 0]
               r == [Idle EXCEPT !.verb = "Create", !.wl = w, !.at = "spawn", !.copy = row,
                                 !.goal = n, !.todo = 0 .. (n - 1)]
    <3>1. r.wl = w
      BY DEF Idle
    <3>2. Become(c, r)
      BY <1>2 DEF CreateInsert
    <3> HIDE DEF r
    <3>3. \A d \in Callers : call'[d] = IF d = c THEN r ELSE call[d]
      BY <3>2 DEF Become, GCTypeOK, TypeOK
    <3> QED BY <2>1, <3>1, <3>3 DEF Known
  <2>3. Known'
    BY <2>1, <2>2 DEF Known, Live, Ids, Idle, Absent
  <2>4. Doomed'
    <3> SUFFICES ASSUME gc.at = "delete", Live(gc.inst)'
                 PROVE  /\ instance'[gc.inst].owner \in born'
                        /\ ~Present(instance[gc.inst].owner)'
      BY <2>1 DEF Doomed, Ids
    <3>1. PICK i : i = gc.inst
      OBVIOUS
    <3>2. Live(i)
      BY <2>1, <3>1 DEF Live
    <3>3. instance[i].owner \in born /\ ~Present(instance[i].owner)
      BY <3>1, <3>2 DEF Doomed
    <3>4. instance[i].owner # w /\ instance[i].owner \in Workloads
      BY <2>1, <3>3 DEF GCTypeOK, TypeOK
    <3>5. PICK v : v = instance[i].owner
      OBVIOUS
    <3>6. ~Present(v)'
      BY <2>1, <3>3, <3>4, <3>5
    <3> QED BY <2>1, <3>1, <3>3, <3>5, <3>6 DEF Present
  <2> QED BY <2>1, <2>3, <2>4
<1>3. QED
  BY <1>1, <1>2 DEF Begin, BeginScale, BeginPause, BeginResume, BeginUpdate, BeginRestart,
                    BeginDeploy, BeginDelete

-----------------------------------------------------------------------------
(* The collector's own steps, the clock's, and the reboot.                 *)

LEMMA NewestListed ==
  ASSUME GCTypeOK, gc.todo # {}
  PROVE  Newest(gc.todo) \in gc.todo
<1> DEFINE S == gc.todo
<1>1. S \subseteq Ids /\ Ids \subseteq Nat
  BY DEF GCTypeOK, Ids
<1>2. IsFiniteSet(S)
  <2>1. 1 \in Int /\ MaxInstances + Cardinality(Legacy) \in Int
    BY ReplicasAssumption, FS_CardinalityType
  <2>2. IsFiniteSet(Ids)
    BY <2>1, FS_Interval DEF Ids
  <2> QED BY <1>1, <2>2, FS_Subset
<1>3. S # {}
  OBVIOUS
<1> HIDE DEF S
<1>4. PICK k \in S : \A m \in S : m <= k
  BY <1>1, <1>2, <1>3, LargestExists
<1>5. \A m \in S : k >= m
  BY <1>1, <1>4
<1>6. Newest(S) \in S
  BY <1>4, <1>5 DEF Newest
<1>7. QED
  BY <1>6 DEF S

LEMMA GCInitInv == GCInit => GCInv
<1> SUFFICES ASSUME GCInit PROVE GCInv
  OBVIOUS
<1>1. TypeOK /\ Named
  BY InitType DEF GCInit
<1>2. gc = Resting /\ horizon = 0
  BY DEF GCInit
<1>3. GCTypeOK
  BY <1>1, <1>2 DEF GCTypeOK, Resting
<1>4. Doomed /\ Listed
  BY <1>2 DEF Doomed, Listed, Resting
<1>5. Known
  <2>1. Init
    BY DEF GCInit
  <2>2. \A w \in Workloads : ~Present(w)
    BY <2>1 DEF Init, Present, Absent
  <2>3. \A c \in Callers : call[c] = Idle
    BY <2>1 DEF Init
  <2>4. \A i \in Ids : instance[i].owner = NoOne
    BY <2>1 DEF Init
  <2>5. NoOne \notin Workloads /\ Cardinality(Legacy) \in Nat
    BY ReplicasAssumption, FS_CardinalityType
  <2>6. ASSUME NEW i \in Ids, i >= next
        PROVE  ~Live(i)
    <3>1. i \in Int /\ ~(i <= Cardinality(Legacy))
      BY <2>1, <2>5, <2>6 DEF Init, Ids
    <3> QED BY <2>1, <3>1 DEF Init, Live
  <2> QED BY <2>2, <2>3, <2>4, <2>5, <2>6 DEF Known
<1>6. QED
  BY <1>1, <1>3, <1>4, <1>5 DEF GCInv

(* The step of a caller, while the collector stands still.                 *)
LEMMA CallerKeeps ==
  ASSUME GCInv, NEW c \in Callers, Begin(c) \/ Advance(c) \/ Interrupt(c), UNCHANGED gcVars
  PROVE  GCInv'
<1>1. GCTypeOK /\ TypeOK /\ Named /\ Known /\ Doomed /\ Listed /\ UNCHANGED <<gc, horizon>>
  BY DEF GCInv, GCTypeOK, gcVars
<1>2. GCTypeOK' /\ Named'
  <2>1. TypeOK' /\ Named'
    BY <1>1, TypeStep DEF Next
  <2> QED BY <1>1, <2>1 DEF GCTypeOK, Ids
<1>3. Known' /\ Doomed'
  <2>1. CASE Begin(c)
    BY <1>1, <2>1, BeginKeeps
  <2>2. CASE SpawnInsert(c)
    BY <1>1, <2>2, InsertKeeps
  <2>3. CASE Advance(c) /\ ~SpawnInsert(c)
    <3>1. Stays(c) /\ Shrinks /\ NoneBack /\ UNCHANGED <<born, next>>
      BY <1>1, <2>3, CallTame, RowsTame
    <3>2. \A d \in Callers : call'[d] # Idle => call[d] # Idle /\ call'[d].wl = call[d].wl
      BY <3>1 DEF Stays
    <3> QED BY <1>1, <3>1, <3>2, TameKeeps
  <2>4. CASE Interrupt(c)
    <3>1. Stays(c)
      BY <1>1, <2>4, ReturnStays DEF Interrupt, CallsTyped, TypeOK
    <3>2. \A d \in Callers : call'[d] # Idle => call[d] # Idle /\ call'[d].wl = call[d].wl
      BY <3>1 DEF Stays
    <3>3. UNCHANGED <<workload, instance, born, next>>
      BY <2>4 DEF Interrupt
    <3> QED BY <1>1, <3>2, <3>3, SameRows, SameNoneBack, TameKeeps
  <2> QED BY <2>1, <2>2, <2>3, <2>4
<1>4. Listed'
  <2>1. next \in Nat /\ (next' = next \/ next' = next + 1)
    <3>1. next' = next \/ next' = next + 1
      <4>1. CASE Begin(c)
        BY <1>1, <4>1, BeginKeeps
      <4>2. CASE SpawnInsert(c)
        BY <4>2 DEF SpawnInsert
      <4>3. CASE Advance(c) /\ ~SpawnInsert(c)
        BY <1>1, <4>3, RowsTame
      <4>4. CASE Interrupt(c)
        BY <4>4 DEF Interrupt
      <4> QED BY <4>1, <4>2, <4>3, <4>4
    <3> QED BY <1>1, <3>1 DEF TypeOK
  <2>2. gc.todo \subseteq Nat
    BY <1>1 DEF GCTypeOK, Ids
  <2> QED BY <1>1, <2>1, <2>2 DEF Listed
<1>5. QED
  BY <1>2, <1>3, <1>4 DEF GCInv

(* A row that carries no label is nobody's replica.                        *)
LEMMA StrangerKeeps ==
  ASSUME GCInv, NEW k \in Strangers, Stranger(k)
  PROVE  GCInv'
<1>1. GCTypeOK /\ TypeOK /\ Named /\ Known /\ Doomed /\ Listed
  BY DEF GCInv, GCTypeOK
<1>2. /\ next \in Ids /\ next' = next + 1
      /\ instance' = [instance EXCEPT ![next] =
                          [owner |-> NoOne, index |-> k, state |-> "Running"]]
      /\ UNCHANGED <<workload, call, born, cut, unmarked, missed, before, mishaps, gc, horizon>>
  BY DEF Stranger, gcVars
<1>3. next \in Nat /\ Ids \subseteq Nat /\ k \in Nat
  BY <1>1, CollectionAssumption DEF TypeOK, Ids
<1>4. /\ \A i \in Ids : i # next => instance'[i] = instance[i]
      /\ instance'[next].owner = NoOne
  BY <1>1, <1>2 DEF TypeOK
<1>5. GCTypeOK' /\ Named'
  <2>1. instance' \in [Ids -> InstanceRows]
    <3>1. [owner |-> NoOne, index |-> k, state |-> "Running"] \in InstanceRows
      BY <1>3 DEF InstanceRows
    <3>2. instance \in [Ids -> InstanceRows]
      BY <1>1 DEF TypeOK
    <3> QED BY <1>2, <3>1, <3>2
  <2>2. next' \in Nat
    BY <1>2, <1>3
  <2> QED BY <1>1, <1>2, <2>1, <2>2 DEF GCTypeOK, TypeOK, Named, Ids
<1>6. Known'
  <2>1. ASSUME NEW i \in Ids, Live(i)', instance'[i].owner \in Workloads
        PROVE  instance'[i].owner \in born'
    <3>1. i # next
      BY <1>4, <2>1, ReplicasAssumption
    <3> QED BY <1>1, <1>2, <1>4, <2>1, <3>1 DEF Live, Known
  <2>2. ASSUME NEW i \in Ids, i >= next'
        PROVE  ~Live(i)'
    <3>1. i >= next /\ i # next
      BY <1>2, <1>3, <2>2
    <3> QED BY <1>1, <1>4, <3>1 DEF Live, Known
  <2>3. \A w \in Workloads : Present(w)' => w \in born'
    BY <1>1, <1>2 DEF Known, Present
  <2>4. \A c \in Callers : call'[c] # Idle => call'[c].wl \in born'
    BY <1>1, <1>2 DEF Known
  <2> QED BY <2>1, <2>2, <2>3, <2>4 DEF Known, Ids, Idle, Absent
<1>7. Doomed'
  <2> SUFFICES ASSUME gc.at = "delete"
               PROVE  /\ gc.inst \in Ids
                      /\ gc.inst < next'
                      /\ Live(gc.inst)' => /\ instance'[gc.inst].owner \in born'
                                           /\ ~Present(instance[gc.inst].owner)'
    BY <1>2 DEF Doomed, Ids
  <2>1. gc.inst \in Ids /\ gc.inst < next
    BY <1>1 DEF Doomed
  <2>2. gc.inst # next /\ gc.inst < next'
    <3>1. \A g \in Ids : g < next => g # next /\ g < next + 1
      BY <1>3
    <3> QED BY <1>2, <2>1, <3>1
  <2>3. instance'[gc.inst] = instance[gc.inst]
    BY <1>4, <2>1, <2>2
  <2>4. PICK i : i = gc.inst
    OBVIOUS
  <2>5. ASSUME Live(gc.inst)'
        PROVE  instance'[gc.inst].owner \in born' /\ ~Present(instance[gc.inst].owner)'
    <3>1. Live(i)
      BY <1>2, <2>3, <2>4, <2>5 DEF Live
    <3>2. instance[i].owner \in born /\ ~Present(instance[i].owner)
      BY <1>1, <2>4, <3>1 DEF Doomed
    <3> QED BY <1>2, <2>3, <2>4, <3>2 DEF Present
  <2> QED BY <2>1, <2>2, <2>5
<1>8. Listed'
  <2>1. gc.todo \subseteq Nat
    BY <1>1 DEF GCTypeOK, Ids
  <2> QED BY <1>1, <1>2, <1>3, <2>1 DEF Listed
<1>9. QED
  BY <1>5, <1>6, <1>7, <1>8 DEF GCInv

LEMMA CollectKeeps ==
  ASSUME GCInv, Collect \/ Age \/ (Reboot /\ gc' = Resting /\ horizon' = horizon)
  PROVE  GCInv'
<1>1. GCTypeOK /\ TypeOK /\ Named /\ Known /\ Doomed /\ Listed
  BY DEF GCInv, GCTypeOK
<1>2. ASSUME UNCHANGED <<instance, mishaps>> \/ Shrinks, NoneBack, UNCHANGED <<born, next, call>>
      PROVE  Known' /\ (UNCHANGED gc => Doomed')
  <2>1. Shrinks
    BY <1>2, SameRows
  <2> QED BY <1>1, <1>2, <2>1, TameKeeps
<1>3. ASSUME UNCHANGED vars
      PROVE  TypeOK' /\ Named' /\ Known' /\ (UNCHANGED gc => Doomed') /\ next' = next
  <2>1. TypeOK' /\ Named'
    BY <1>1, <1>3, TypeStep
  <2>2. NoneBack /\ UNCHANGED <<instance, mishaps, born, next, call>>
    BY <1>3, SameNoneBack DEF vars
  <2> QED BY <1>2, <2>1, <2>2
<1>4. CASE GCList
  <2>1. TypeOK' /\ Named' /\ Known' /\ next' = next
    BY <1>3, <1>4 DEF GCList
  <2>2. gc' = [at |-> "sweep", todo |-> Page, aged |-> horizon, inst |-> 0] /\ horizon' = horizon
    BY <1>4 DEF GCList
  <2>3. Page \subseteq Ids /\ \A i \in Page : Live(i)
    BY DEF Page
  <2>4. GCTypeOK' /\ Doomed'
    BY <1>1, <2>1, <2>2, <2>3 DEF GCTypeOK, Doomed, Ids
  <2>5. Listed'
    <3>1. next \in Nat /\ Ids \subseteq Nat
      BY <1>1 DEF TypeOK, Ids
    <3>2. \A i \in Page : ~(i >= next)
      BY <1>1, <2>3 DEF Known
    <3>3. \A i \in Page : i < next
      BY <2>3, <3>1, <3>2
    <3> QED BY <2>1, <2>2, <3>3 DEF Listed
  <2> QED BY <2>1, <2>4, <2>5 DEF GCInv
<1>5. CASE GCCheck
  <2> DEFINE i == Newest(gc.todo)
  <2>1. i \in gc.todo /\ i \in Ids /\ i < next
    BY <1>1, <1>5, NewestListed DEF GCCheck, GCTypeOK, Listed
  <2>2. UNCHANGED <<workload, instance, next, call, born, horizon>>
    BY <1>5 DEF GCCheck
  <2>3. TypeOK' /\ Named'
    <3>1. mishaps' \in Nat
      BY <1>1, <1>5, OutcomeTyped DEF GCCheck, TypeOK
    <3>2. UNCHANGED <<workload, instance, next, call, born, cut, unmarked, missed, before>>
      BY <1>5 DEF GCCheck
    <3> QED BY <1>1, <3>1, <3>2 DEF TypeOK, Named, Ids
  <2>4. Known'
    <3>1. Shrinks /\ NoneBack
      BY <2>2, SameRows, SameNoneBack
    <3> QED BY <1>2, <2>2, <3>1
  <2>5. CASE /\ instance[i].owner \in Workloads
             /\ ~Present(instance[i].owner)
             /\ gc' = [gc EXCEPT !.at = "delete", !.inst = i]
    <3> HIDE DEF i
    <3>1. gc'.at = "delete" /\ gc'.inst = i /\ gc'.todo = gc.todo
      BY <1>1, <2>5 DEF GCTypeOK
    <3>2. GCTypeOK'
      <4>1. i \in Nat
        BY <2>1 DEF Ids
      <4>2. gc \in [at : {"idle", "sweep", "delete"}, todo : SUBSET Ids, aged : Nat, inst : Nat]
        BY <1>1 DEF GCTypeOK
      <4>3. gc' \in [at : {"idle", "sweep", "delete"}, todo : SUBSET Ids, aged : Nat, inst : Nat]
        BY <2>5, <4>1, <4>2
      <4>4. horizon' \in Nat
        BY <1>1, <2>2 DEF GCTypeOK
      <4> QED BY <2>3, <4>3, <4>4 DEF GCTypeOK, Ids
    <3>3. Live(i) => instance[i].owner \in born
      BY <1>1, <2>1, <2>5 DEF Known
    <3>4. Doomed'
      <4> SUFFICES /\ gc'.inst \in Ids
                   /\ gc'.inst < next'
                   /\ Live(gc.inst)' => /\ instance'[gc'.inst].owner \in born'
                                        /\ ~Present(instance[gc.inst].owner)'
        BY DEF Doomed, Ids
      <4>1. ASSUME Live(gc.inst)'
            PROVE  instance'[gc'.inst].owner \in born' /\ ~Present(instance[gc.inst].owner)'
        BY <2>2, <2>5, <3>1, <3>3, <4>1 DEF Live, Present
      <4> QED BY <2>1, <2>2, <3>1, <4>1
    <3>5. Listed'
      BY <1>1, <2>2, <3>1 DEF Listed
    <3> QED BY <2>3, <2>4, <3>2, <3>4, <3>5 DEF GCInv
  <2>6. CASE gc' = [gc EXCEPT !.todo = @ \ {i}]
    <3> HIDE DEF i
    <3>1. GCTypeOK' /\ gc'.at = "sweep" /\ gc'.todo \subseteq gc.todo
      BY <1>1, <1>5, <2>2, <2>3, <2>6 DEF GCTypeOK, GCCheck, Ids
    <3>2. Doomed'
      BY <3>1 DEF Doomed
    <3>3. Listed'
      BY <1>1, <2>2, <3>1 DEF Listed
    <3> QED BY <2>3, <2>4, <3>1, <3>2, <3>3 DEF GCInv
  <2> QED BY <1>5, <2>5, <2>6 DEF GCCheck, Eligible
<1>6. CASE GCDelete
  <2>1. PICK ok \in BOOLEAN : Remove(gc.inst, ok)
    BY <1>6 DEF GCDelete
  <2>2. UNCHANGED <<workload, next, call, born, cut, unmarked, missed, before, horizon>>
    BY <1>6 DEF GCDelete
  <2>3. TypeOK' /\ Named'
    <3>1. instance' \in [Ids -> InstanceRows] /\ mishaps' \in Nat
      BY <1>1, <2>1, RemoveTyped
    <3> QED BY <1>1, <2>2, <3>1 DEF TypeOK, Named, Ids
  <2>4. Known'
    <3>1. Shrinks /\ NoneBack
      BY <1>1, <2>1, <2>2, RemoveShrinks, SameNoneBack
    <3> QED BY <1>2, <2>2, <3>1
  <2>5. GCTypeOK' /\ gc'.at = "sweep" /\ gc'.todo \subseteq gc.todo
    BY <1>1, <1>6, <2>2, <2>3 DEF GCTypeOK, GCDelete, Ids
  <2>6. Doomed' /\ Listed'
    BY <1>1, <2>2, <2>5 DEF Doomed, Listed
  <2> QED BY <2>3, <2>4, <2>5, <2>6 DEF GCInv
<1>7. CASE GCEnd
  <2>1. TypeOK' /\ Named' /\ Known'
    BY <1>3, <1>7 DEF GCEnd
  <2>2. gc' = Resting /\ horizon' = horizon
    BY <1>7 DEF GCEnd
  <2>3. GCTypeOK' /\ Doomed' /\ Listed'
    BY <1>1, <2>1, <2>2 DEF GCTypeOK, Doomed, Listed, Resting
  <2> QED BY <2>1, <2>3 DEF GCInv
<1>8. CASE Age
  <2>1. UNCHANGED vars /\ gc' = gc /\ horizon' = horizon + 1
    BY <1>8 DEF Age
  <2>2. TypeOK' /\ Named' /\ Known' /\ Doomed' /\ next' = next
    BY <1>3, <2>1
  <2>3. GCTypeOK' /\ Listed'
    BY <1>1, <2>1, <2>2 DEF GCTypeOK, Listed, Ids
  <2> QED BY <2>2, <2>3 DEF GCInv
<1>9. CASE Reboot /\ gc' = Resting /\ horizon' = horizon
  <2>1. TypeOK' /\ Named'
    BY <1>1, <1>9, TypeStep DEF Next
  <2>2. Known'
    <3>1. UNCHANGED <<workload, instance, born, next>> /\ \A c \in Callers : call'[c] = Idle
      BY <1>9 DEF Reboot
    <3> QED BY <1>1, <3>1, SameRows, SameNoneBack, TameKeeps
  <2>3. GCTypeOK' /\ Doomed' /\ Listed'
    BY <1>1, <1>9, <2>1 DEF GCTypeOK, Doomed, Listed, Resting
  <2> QED BY <2>1, <2>2, <2>3 DEF GCInv
<1>10. QED
  BY <1>4, <1>5, <1>6, <1>7, <1>8, <1>9 DEF Collect

LEMMA GCInvStep == GCInv /\ [GCNext]_allVars => GCInv'
<1> SUFFICES ASSUME GCInv, [GCNext]_allVars PROVE GCInv'
  OBVIOUS
<1>1. CASE UNCHANGED allVars
  <2>1. UNCHANGED vars /\ UNCHANGED gcVars
    BY <1>1 DEF allVars, vars, gcVars
  <2>2. TypeOK' /\ Named'
    BY <2>1, TypeStep DEF GCInv, GCTypeOK
  <2> QED BY <1>1, <2>2 DEF allVars, GCInv, GCTypeOK, Known, Doomed, Listed, Present, Live, Ids,
                            Idle, Absent
<1>2. CASE GCNext
  BY <1>2, CallerKeeps, CollectKeeps, StrangerKeeps DEF GCNext
<1>3. QED
  BY <1>1, <1>2

(* The sweep's place, its page and the clock it read stay within their     *)
(* types, beside the workload service's tables and calls.                  *)
THEOREM GCTypeCorrect == GCSpec => []GCTypeOK
<1>1. GCInv => GCTypeOK
  BY DEF GCInv
<1>2. QED
  BY <1>1, GCInitInv, GCInvStep, PTL DEF GCSpec

(* The collector deletes only replicas of workloads that were created and  *)
(* are gone at that moment: isOrphan's lookup goes stale before the Delete *)
(* it decides, but a workload that was gone then is gone for good.         *)
THEOREM CollectorSpares == GCSpec => CollectorSparesReplicas
<1>1. ASSUME GCInv, NEW i \in Ids, GCDelete, Live(i), ~Live(i)'
      PROVE  instance[i].owner \in born /\ ~Present(instance[i].owner)
  <2>1. PICK ok \in BOOLEAN : Remove(gc.inst, ok)
    BY <1>1 DEF GCDelete
  <2>2. instance \in [Ids -> InstanceRows] /\ Doomed /\ gc.at = "delete"
    BY <1>1 DEF GCInv, GCTypeOK, TypeOK, GCDelete
  <2>3. i = gc.inst
    <3> SUFFICES ASSUME i # gc.inst PROVE FALSE
      OBVIOUS
    <3>1. instance'[i] = instance[i]
      BY <2>1, <2>2 DEF Remove
    <3> QED BY <1>1, <3>1 DEF Live
  <2> QED BY <1>1, <2>2, <2>3 DEF Doomed
<1>2. GCInv /\ [GCNext]_allVars =>
        [\A i \in Ids : GCDelete /\ Live(i) /\ ~Live(i)' =>
            instance[i].owner \in born /\ ~Present(instance[i].owner)]_allVars
  BY <1>1
<1>3. QED
  BY <1>2, GCInitInv, GCInvStep, PTL DEF GCSpec, CollectorSparesReplicas

=============================================================================
