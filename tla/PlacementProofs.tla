-------------------------- MODULE PlacementProofs --------------------------
(***************************************************************************)
(* Plans and placements.  Selection adds up GPUs domain by domain; kueue   *)
(* places the hero pod by pod.  These theorems say what the one tells of   *)
(* the other.                                                              *)
(***************************************************************************)
EXTENDS ReplanProofs

----------------------------------------------------------------------------
(* What no drain can move.                                                 *)

\* The pods on node n that stay.
FixedOn(n) == {p \in PodsOn(n) : WorkloadOf[p] = None /\ p \notin NonBlocking}

\* They leave every node some room, or none.
RoomInv == \A n \in Node : Room[n] \in Nat

\* And nobody evicts them.
FixedRun == \A p \in Pod : WorkloadOf[p] = None => pod[p] # "ending"

\* Sums over pods.
LEMMA PodSums ==
  ASSUME NEW P \in SUBSET Pod
  PROVE  /\ IsFiniteSet(P) /\ SumOver(PodGPU, P) \in Nat
         /\ \A Q \in SUBSET P : SumOver(PodGPU, Q) <= SumOver(PodGPU, P)
<1>1. IsFiniteSet(P) /\ \A p \in P : PodGPU[p] \in Nat
  BY ClusterAssumption, FS_Subset DEF ClusterAssumptions
<1> QED BY <1>1, SumOverType, SumOfPart

\* What a node has, as a sum.
LEMMA RoomIs ==
  \A n \in Node : /\ Room[n] = GPU[n] - SumOver(PodGPU, FixedOn(n))
                  /\ Unused[n] = GPU[n] - SumOver(PodGPU, PodsOn(n))
                  /\ FixedOn(n) \subseteq PodsOn(n) /\ PodsOn(n) \subseteq Pod /\ GPU[n] \in Nat
BY ClusterAssumption DEF Room, Unused, FixedOn, PodsOn, SumOver, ClusterAssumptions

\* The same after a step.
LEMMA RoomIsNext ==
  (\A n \in Node : /\ Room[n] = GPU[n] - SumOver(PodGPU, FixedOn(n))
                   /\ Unused[n] = GPU[n] - SumOver(PodGPU, PodsOn(n))
                   /\ FixedOn(n) \subseteq PodsOn(n) /\ PodsOn(n) \subseteq Pod /\ GPU[n] \in Nat)'
BY RoomIs, PTL

\* A pod that no drain can move stays where it is, or ends.
LEMMA FixedStay ==
  ASSUME TypeOK, Next
  PROVE  \A n \in Node : FixedOn(n)' \subseteq FixedOn(n)
<1> SUFFICES \A p \in Pod : WorkloadOf[p] = None => at'[p] = at[p] /\ (pod'[p] # "gone" => pod[p] # "gone")
  BY DEF FixedOn, PodsOn
<1>1. \A w \in Workload : \A p \in PodsOf(w) : WorkloadOf[p] # None
  BY ClusterAssumption DEF PodsOf, ClusterAssumptions
<1>2. ASSUME Change PROVE at' = at /\ pod' = pod
  BY <1>2 DEF Change
<1>3. CASE Reconcile
  BY <1>3 DEF Reconcile, clusterVars
<1>4. ASSUME NEW w \in Workload, Evict(w)
      PROVE  at' = at /\ \A p \in Pod : pod'[p] # "gone" => pod[p] # "gone"
  BY <1>4 DEF Evict, clusterVars
<1>5. ASSUME NEW w \in Workload, Readmit(w)
      PROVE  \A p \in Pod : WorkloadOf[p] = None => at'[p] = at[p] /\ pod'[p] = pod[p]
  BY <1>1, <1>5 DEF Readmit
<1>6. ASSUME NEW q \in Pod, PodGone(q)
      PROVE  at' = at /\ \A p \in Pod : pod'[p] # "gone" => pod[p] # "gone"
  BY <1>6 DEF PodGone, clusterVars, TypeOK
<1> QED BY <1>2, <1>3, <1>4, <1>5, <1>6 DEF Next, WorkloadDeleted, NodesChange, RivalChanges, Tick

\* In the beginning no node has more pods than GPUs, and what a node has for the hero
\* never shrinks.
LEMMA RoomKept == Spec => []RoomInv
<1>1. Init /\ TypeOK => RoomInv
  <2> SUFFICES ASSUME Init, NEW n \in Node PROVE Room[n] \in Nat
    BY DEF RoomInv
  <2>1. Unused[n] >= 0
    BY DEF Init
  <2>2. SumOver(PodGPU, FixedOn(n)) <= SumOver(PodGPU, PodsOn(n)) /\ SumOver(PodGPU, PodsOn(n)) \in Nat
    BY RoomIs, PodSums
  <2>3. SumOver(PodGPU, FixedOn(n)) \in Nat
    BY RoomIs, PodSums
  <2> QED BY <2>1, <2>2, <2>3, RoomIs
<1>2. TypeOK /\ RoomInv /\ [Next]_planVars => RoomInv'
  <2> SUFFICES ASSUME TypeOK, RoomInv, [Next]_planVars, NEW n \in Node PROVE Room'[n] \in Nat
    BY DEF RoomInv
  <2>1. FixedOn(n)' \subseteq FixedOn(n)
    <3>1. CASE Next
      BY <3>1, FixedStay
    <3>2. CASE UNCHANGED planVars
      BY <3>2 DEF FixedOn, PodsOn, planVars, clusterVars
    <3> QED BY <3>1, <3>2
  <2>2. FixedOn(n) \in SUBSET Pod /\ FixedOn(n)' \in SUBSET Pod
    BY RoomIs, RoomIsNext
  <2>3. /\ SumOver(PodGPU, FixedOn(n)') <= SumOver(PodGPU, FixedOn(n))
        /\ SumOver(PodGPU, FixedOn(n)') \in Nat /\ SumOver(PodGPU, FixedOn(n)) \in Nat
    BY <2>1, <2>2, PodSums
  <2>4. Room[n] \in Nat /\ Room[n] = GPU[n] - SumOver(PodGPU, FixedOn(n)) /\ GPU[n] \in Nat
    BY RoomIs DEF RoomInv
  <2>5. Room'[n] = GPU[n] - SumOver(PodGPU, FixedOn(n)')
    BY RoomIsNext
  <2> QED BY <2>3, <2>4, <2>5
<1> QED BY <1>1, <1>2, PlanTypeCorrect, PTL DEF Spec

\* A pod without a workload is none of those that an eviction ends.
LEMMA FixedNeverEnd == Spec => []FixedRun
<1>1. Init => FixedRun
  BY DEF Init, FixedRun
<1>2. FixedRun /\ [Next]_planVars => FixedRun'
  <2> SUFFICES ASSUME FixedRun, [Next]_planVars, NEW p \in Pod, WorkloadOf[p] = None
               PROVE  pod'[p] # "ending"
    BY DEF FixedRun
  <2>1. pod[p] # "ending"
    BY DEF FixedRun
  <2>2. \A w \in Workload : p \notin PodsOf(w)
    BY ClusterAssumption DEF PodsOf, ClusterAssumptions
  <2>3. CASE Reconcile \/ UNCHANGED planVars
    BY <2>1, <2>3 DEF Reconcile, planVars
  <2>4. ASSUME NEW w \in Workload, Evict(w) \/ Readmit(w) PROVE pod'[p] = pod[p]
    BY <2>2, <2>4 DEF Evict, Readmit
  <2>5. ASSUME NEW q \in Pod, PodGone(q) PROVE pod'[p] # "ending"
    BY <2>1, <2>5 DEF PodGone
  <2>6. ASSUME Change PROVE pod'[p] = pod[p]
    BY <2>6 DEF Change
  <2> QED BY <2>1, <2>3, <2>4, <2>5, <2>6 DEF Next, WorkloadDeleted, NodesChange, RivalChanges, Tick
<1> QED BY <1>1, <1>2, PTL DEF Spec

\* Draining a domain frees what its usable nodes have for the hero, or more if a pod
\* that stays is ending.
LEMMA FreeIsRoom ==
  ASSUME TypeOK, Selects, NEW id \in Ids
  PROVE  /\ SumOver(Room, At(id) \cap up) <= Free(id)
         /\ RoomInv /\ FixedRun => SumOver(Room, At(id) \cap up) = Free(id)
<1> DEFINE A == At(id) \cap up
           fixed == [n \in A |-> SumOver(PodGPU, FixedOn(n))]
           stay == {p \in Pod : at[p] \in A /\ pod[p] # "gone" /\ WorkloadOf[p] = None /\ p \notin NonBlocking}
           counted == Counted(A, "nonReclaimable")
<1>1. A \subseteq Node
  BY DEF At
<1>2. IsFiniteSet(A) /\ \A n \in A : GPU[n] \in Nat
  <2> HIDE DEF A
  <2> QED BY <1>1, ClusterAssumption, FS_Subset DEF ClusterAssumptions
<1>3. stay \in SUBSET Pod /\ counted \in SUBSET stay
  BY DEF Counted, Classify
<1>3a. FixedRun => counted = stay
  BY DEF FixedRun, Counted, Classify, TypeOK
<1>4. ByClass(fixed, PodGPU, stay, at, A)
  <2>1. \A p \in stay : at[p] \in A
    OBVIOUS
  <2>2. ASSUME NEW n \in A PROVE FixedOn(n) = {p \in stay : at[p] = n}
    BY DEF FixedOn, PodsOn
  <2>3. \A n \in A : fixed[n] = SumOver(PodGPU, FixedOn(n))
    OBVIOUS
  <2> HIDE DEF fixed, stay, A
  <2>4. \A n \in A : fixed[n] = SumOver(PodGPU, {p \in stay : at[p] = n})
    BY <2>2, <2>3
  <2> QED BY <2>1, <2>4 DEF ByClass
<1>5. \A n \in A : fixed[n] \in Nat /\ Room[n] = GPU[n] - fixed[n]
  <2> SUFFICES ASSUME NEW n \in A PROVE fixed[n] \in Nat /\ Room[n] = GPU[n] - fixed[n]
    OBVIOUS
  <2>1. n \in Node /\ fixed[n] = SumOver(PodGPU, FixedOn(n))
    BY <1>1
  <2>2. FixedOn(n) \in SUBSET Pod
    BY <2>1, RoomIs
  <2> QED BY <2>1, <2>2, RoomIs, PodSums
<1>6. /\ Build[id].allocatable = SumOver(GPU, A) /\ Build[id].nonReclaimable = SumOver(PodGPU, counted)
  BY BuildIs
<1> HIDE DEF A, fixed, stay, counted
<1>7. SumOver(PodGPU, counted) <= SumOver(PodGPU, stay) /\ SumOver(PodGPU, stay) \in Nat
  BY <1>3, PodSums
<1>8. SumOver(PodGPU, counted) \in Nat
  <2>1. counted \in SUBSET Pod
    BY <1>3
  <2> QED BY <2>1, PodSums
<1>9. SumOver(PodGPU, stay) = SumOver(fixed, A)
  <2>1. IsFiniteSet(stay) /\ \A p \in stay : PodGPU[p] \in Int
    BY <1>3, ClusterAssumption, FS_Subset DEF ClusterAssumptions
  <2> QED BY <1>2, <1>4, <2>1, SumByClass
<1>10. SumOver(Room, A) = SumOver(GPU, A) - SumOver(fixed, A)
  BY <1>2, <1>5, SumMinus
<1>11. SumOver(GPU, A) \in Nat
  BY <1>2, SumOverType
<1>12. SumOver(GPU, A) - SumOver(PodGPU, counted) <= Free(id)
  <2>1. Free(id) = IF Build[id].allocatable > Build[id].nonReclaimable
                   THEN Build[id].allocatable - Build[id].nonReclaimable ELSE 0
    BY <1>6, <1>8, <1>11, ReclaimableType DEF Free
  <2> QED BY <1>6, <1>8, <1>11, <2>1
<1>13. SumOver(fixed, A) >= SumOver(PodGPU, counted) /\ SumOver(fixed, A) \in Nat
  BY <1>7, <1>9
<1>14. SumOver(Room, A) <= SumOver(GPU, A) - SumOver(PodGPU, counted) /\ SumOver(Room, A) \in Int
  BY <1>8, <1>10, <1>11, <1>13
<1>15. Free(id) \in Nat
  BY BuildIs
<1>16. ASSUME RoomInv, FixedRun PROVE SumOver(Room, A) = Free(id)
  <2>1. \A n \in A : Room[n] \in Nat
    BY <1>1, <1>16 DEF RoomInv
  <2>2. SumOver(Room, A) \in Nat
    BY <1>2, <2>1, SumOverType
  <2>3. SumOver(Room, A) = Build[id].allocatable - Build[id].nonReclaimable
    BY <1>3a, <1>6, <1>9, <1>10, <1>16
  <2>4. Free(id) = IF Build[id].allocatable > Build[id].nonReclaimable
                   THEN Build[id].allocatable - Build[id].nonReclaimable ELSE 0
    BY <1>6, <1>8, <1>11, ReclaimableType DEF Free
  <2> QED BY <1>6, <1>8, <1>11, <2>2, <2>3, <2>4
<1>17. SumOver(Room, A) <= Free(id)
  BY <1>8, <1>11, <1>12, <1>14, <1>15
<1> QED BY <1>16, <1>17 DEF A

----------------------------------------------------------------------------
(* The pods of the hero, slice by slice.                                   *)

\* The podsets that ask for GPUs, and their slices.
Asking == {i \in SlicePodSets(spec) : ChunkSize(spec[i]) > 0 /\ ChunkCount(spec[i]) > 0}

SlicesOf(i) == {i} \X (0..(ChunkCount(spec[i]) - 1))

Slices == UNION {SlicesOf(i) : i \in Asking}

\* What each pod asks for, and the slice it is in.
Need == [s \in HeroPods |-> spec[s[1]].gpu]

SliceOf == [s \in HeroPods |-> <<s[1], (s[2] - 1) \div spec[s[1]].size>>]

\* The podsets of a hero.
LEMMA PodSetType ==
  ASSUME TypeOK
  PROVE  /\ IsFiniteSet(SlicePodSets(spec)) /\ IsFiniteSet(Asking)
         /\ \A i \in SlicePodSets(spec) :
              /\ spec[i].size \in Nat \ {0} /\ spec[i].count \in Nat /\ spec[i].gpu \in Nat
              /\ ChunkCount(spec[i]) \in Nat /\ ChunkSize(spec[i]) \in Nat
<1>1. IsFiniteSet(DOMAIN spec)
  BY PodTotalType DEF TypeOK
<1>2. SlicePodSets(spec) \subseteq DOMAIN spec /\ Asking \subseteq DOMAIN spec
  BY DEF SlicePodSets, Asking
<1>3. IsFiniteSet(SlicePodSets(spec)) /\ IsFiniteSet(Asking)
  BY <1>1, <1>2, FS_Subset
<1>4. ASSUME NEW i \in SlicePodSets(spec)
      PROVE  /\ spec[i].size \in Nat \ {0} /\ spec[i].count \in Nat /\ spec[i].gpu \in Nat
             /\ ChunkCount(spec[i]) \in Nat /\ ChunkSize(spec[i]) \in Nat
  <2>1. spec[i].size \in Nat \ {0} /\ spec[i].count \in Nat /\ spec[i].gpu \in Nat
    BY PlanAssumption DEF SlicePodSets, RequiresSliceTopology, TypeOK
  <2>2. ChunkCount(spec[i]) \in Int /\ ChunkCount(spec[i]) * spec[i].size >= spec[i].count
    BY <2>1, SlicesHoldThePods DEF ChunkCount
  <2>3. ChunkCount(spec[i]) \in Nat
    <3> DEFINE c == ChunkCount(spec[i])
    <3> HIDE DEF c
    <3>1. c \in Int /\ c * spec[i].size >= spec[i].count
      BY <2>2 DEF c
    <3>2. c \in Nat
      BY <2>1, <3>1
    <3> QED BY <3>2 DEF c
  <2>4. ChunkSize(spec[i]) \in Nat
    BY <2>1 DEF ChunkSize
  <2> QED BY <2>1, <2>3, <2>4
<1> QED BY <1>3, <1>4

\* The pods of a hero.
LEMMA HeroPodsAre ==
  ASSUME TypeOK
  PROVE  /\ IsFiniteSet(HeroPods)
         /\ \A s : s \in HeroPods <=> \E i \in SlicePodSets(spec) : \E k \in 1..spec[i].count : s = <<i, k>>
         /\ \A s \in HeroPods : Need[s] \in Nat
<1> DEFINE Of(i) == {<<i, k>> : k \in 1..spec[i].count}
           of == [i \in SlicePodSets(spec) |-> Of(i)]
<1>1. HeroPods = UNION {of[i] : i \in SlicePodSets(spec)}
  BY DEF HeroPods
<1>2. ASSUME NEW i \in SlicePodSets(spec) PROVE IsFiniteSet(of[i])
  <2> DEFINE pair == [k \in 1..spec[i].count |-> <<i, k>>]
  <2>1. IsFiniteSet(1..spec[i].count)
    <3>1. spec[i].count \in Int /\ 1 \in Int
      BY PodSetType
    <3> QED BY <3>1, FS_Interval
  <2>2. IsFiniteSet({pair[k] : k \in 1..spec[i].count})
    <3> HIDE DEF pair
    <3> QED BY <2>1, FiniteImage
  <2>3. {pair[k] : k \in 1..spec[i].count} = Of(i)
    OBVIOUS
  <2> QED BY <2>2, <2>3
<1>3. IsFiniteSet(HeroPods)
  <2> DEFINE all == {of[i] : i \in SlicePodSets(spec)}
  <2> HIDE DEF of
  <2>1. IsFiniteSet(all)
    BY PodSetType, FiniteImage
  <2>2. \A T \in all : IsFiniteSet(T)
    BY <1>2
  <2> HIDE DEF all
  <2>3. IsFiniteSet(UNION all)
    BY <2>1, <2>2, FS_UNION
  <2> QED BY <1>1, <2>3 DEF all
<1>4. \A s : s \in HeroPods <=> \E i \in SlicePodSets(spec) : \E k \in 1..spec[i].count : s = <<i, k>>
  BY DEF HeroPods
<1>5. \A s \in HeroPods : Need[s] \in Nat
  BY <1>4, PodSetType DEF Need
<1> QED BY <1>3, <1>4, <1>5

\* The pods of slice j of a podset of whole slices.
LEMMA SlicePods ==
  ASSUME NEW size \in Nat \ {0}, NEW count \in Nat, count % size = 0, NEW j \in Nat,
         j < (count + size - 1) \div size
  PROVE  /\ \A k \in 1..count : (k - 1) \div size = j <=> k \in (j * size + 1)..(j * size + size)
         /\ (j * size + 1)..(j * size + size) \subseteq 1..count
<1> DEFINE q == count \div size
           c == (count + size - 1) \div size
<1>1. q \in Nat /\ count = q * size
  OBVIOUS
<1>2. c \in Int /\ (c - 1) * size < count
  OBVIOUS
<1>3. j < c
  OBVIOUS
<1>4. j + 1 <= q
  <2> HIDE DEF q, c
  <2>1. (c - 1) * size < q * size
    BY <1>1, <1>2
  <2>2. c - 1 < q
    BY <1>1, <1>2, <2>1
  <2> QED BY <1>1, <1>2, <1>3, <2>2
<1>5. j * size \in Nat /\ j * size + size <= count
  <2> HIDE DEF q
  <2>1. (j + 1) * size <= q * size
    BY <1>1, <1>4
  <2> QED BY <1>1, <2>1
<1>6. ASSUME NEW k \in 1..count PROVE (k - 1) \div size = j <=> k \in (j * size + 1)..(j * size + size)
  <2> DEFINE d == (k - 1) \div size
  <2>1. d \in Int /\ d * size <= k - 1 /\ k - 1 < d * size + size
    OBVIOUS
  <2> HIDE DEF d
  <2>2. ASSUME d = j PROVE k \in (j * size + 1)..(j * size + size)
    BY <1>5, <2>1, <2>2
  <2>3. ASSUME k \in (j * size + 1)..(j * size + size) PROVE d = j
    <3>1. d * size < j * size + size /\ j * size < d * size + size
      BY <1>5, <2>1, <2>3
    <3>2. d * size < (j + 1) * size /\ j * size < (d + 1) * size
      BY <2>1, <3>1
    <3>3. d < j + 1 /\ j < d + 1
      BY <2>1, <3>2
    <3> QED BY <2>1, <3>3
  <2> QED BY <2>2, <2>3 DEF d
<1>7. (j * size + 1)..(j * size + size) \subseteq 1..count
  BY <1>5
<1> QED BY <1>6, <1>7

\* The size of each slice, in GPUs.
SizeOf == [x \in Slices |-> ChunkSize(spec[x[1]])]

\* A hero has as many slices of a size as its demand says.
LEMMA SlicesOfSize ==
  ASSUME TypeOK
  PROVE  /\ IsFiniteSet(Slices) /\ IsDemand(Demand(spec))
         /\ DOMAIN Demand(spec) = {ChunkSize(spec[i]) : i \in Asking}
         /\ \A x \in Slices : x[1] \in Asking /\ SizeOf[x] \in DOMAIN Demand(spec)
         /\ \A u \in DOMAIN Demand(spec) : Cardinality({x \in Slices : SizeOf[x] = u}) = Demand(spec)[u]
<1> DEFINE dem == Demand(spec)
           sizes == {ChunkSize(spec[i]) : i \in Asking}
           Sized(u) == {i \in Asking : ChunkSize(spec[i]) = u}
           of == [i \in Asking |-> SlicesOf(i)]
           one == [x \in Slices |-> 1]
           podset == [x \in Slices |-> x[1]]
<1>1. dem = [u \in sizes |-> MapThenSumSet(LAMBDA i : ChunkCount(spec[i]), Sized(u))]
  BY DEF Demand, Asking
<1>2. IsDemand(dem) /\ DOMAIN dem = sizes
  <2>1. DOMAIN dem = sizes
    <3> HIDE DEF sizes, Sized
    <3> QED BY <1>1
  <2> QED BY <2>1, DemandType DEF TypeOK
<1>3. ASSUME NEW i \in Asking
      PROVE  /\ IsFiniteSet(SlicesOf(i)) /\ Cardinality(SlicesOf(i)) = ChunkCount(spec[i])
             /\ ChunkCount(spec[i]) \in Nat
  <2> DEFINE n == ChunkCount(spec[i])
  <2>1. n \in Nat \ {0}
    BY PodSetType DEF Asking
  <2> HIDE DEF n
  <2>2. IsFiniteSet(0..(n - 1)) /\ Cardinality(0..(n - 1)) = n
    <3>1. 0 \in Int /\ n - 1 \in Int
      BY <2>1
    <3>2. IsFiniteSet(0..(n - 1)) /\ Cardinality(0..(n - 1)) = IF 0 > n - 1 THEN 0 ELSE (n - 1) - 0 + 1
      BY <3>1, FS_Interval
    <3> QED BY <2>1, <3>2
  <2>3. IsFiniteSet({i}) /\ Cardinality({i}) = 1
    BY FS_Singleton
  <2>4. IsFiniteSet({i} \X (0..(n - 1))) /\ Cardinality({i} \X (0..(n - 1))) = 1 * n
    BY <2>2, <2>3, FS_Product
  <2> QED BY <2>1, <2>4 DEF SlicesOf, n
<1>4. IsFiniteSet(Slices)
  <2> DEFINE all == {of[i] : i \in Asking}
  <2>1. Slices = UNION all
    BY DEF Slices
  <2>2. \A i \in Asking : of[i] = SlicesOf(i)
    OBVIOUS
  <2> HIDE DEF of
  <2>3. IsFiniteSet(all)
    BY PodSetType, FiniteImage
  <2>4. \A T \in all : IsFiniteSet(T)
    BY <1>3, <2>2
  <2> HIDE DEF all
  <2> QED BY <2>1, <2>3, <2>4, FS_UNION
<1>5. \A x \in Slices : x[1] \in Asking /\ x \in SlicesOf(x[1]) /\ SizeOf[x] = ChunkSize(spec[x[1]])
  BY DEF Slices, SlicesOf, SizeOf
<1>6. ASSUME NEW u \in sizes PROVE Cardinality({x \in Slices : SizeOf[x] = u}) = dem[u]
  <2> DEFINE X == {x \in Slices : SizeOf[x] = u}
             I == Sized(u)
             chunks == [i \in I |-> ChunkCount(spec[i])]
  <2>1. I \subseteq Asking /\ X \subseteq Slices
    OBVIOUS
  <2>2. dem[u] = SumOver(chunks, I)
    <3>1. dem[u] = MapThenSumSet(LAMBDA i : ChunkCount(spec[i]), I)
      <4> HIDE DEF sizes, Sized
      <4> QED BY <1>1
    <3> QED BY <3>1, ChunkSum
  <2>3. ByClass(chunks, one, X, podset, I)
    <3>1. \A x \in X : podset[x] \in I
      BY <1>5
    <3>2. ASSUME NEW i \in I PROVE {x \in X : podset[x] = i} = SlicesOf(i)
      BY <1>5 DEF Slices, SlicesOf
    <3>3. ASSUME NEW i \in I PROVE chunks[i] = SumOver(one, SlicesOf(i))
      <4>1. \A x \in SlicesOf(i) : one[x] = 1
        BY <2>1 DEF Slices
      <4>2. chunks[i] = ChunkCount(spec[i]) /\ i \in Asking
        OBVIOUS
      <4> HIDE DEF one, chunks, I
      <4>3. SumOver(one, SlicesOf(i)) = 1 * Cardinality(SlicesOf(i))
        BY <1>3, <4>1, <4>2, SumOfEquals
      <4> QED BY <1>3, <4>2, <4>3
    <3> HIDE DEF one, podset, chunks, I, X
    <3>4. \A i \in I : chunks[i] = SumOver(one, {x \in X : podset[x] = i})
      BY <3>2, <3>3
    <3> QED BY <3>1, <3>4 DEF ByClass
  <2>4. \A x \in X : one[x] = 1 /\ one[x] \in Int
    OBVIOUS
  <2> HIDE DEF one, podset, chunks, X, I
  <2>5. IsFiniteSet(X) /\ IsFiniteSet(I)
    BY <1>4, <2>1, PodSetType, FS_Subset
  <2>6. SumOver(one, X) = SumOver(chunks, I)
    BY <2>3, <2>4, <2>5, SumByClass
  <2>7. SumOver(one, X) = 1 * Cardinality(X) /\ Cardinality(X) \in Nat
    BY <2>4, <2>5, SumOfEquals, FS_CardinalityType
  <2> QED BY <2>2, <2>6, <2>7 DEF X
<1>7. \A x \in Slices : x[1] \in Asking /\ SizeOf[x] \in DOMAIN dem
  BY <1>2, <1>5
<1> HIDE DEF dem
<1>8. /\ IsFiniteSet(Slices) /\ IsDemand(dem) /\ DOMAIN dem = sizes
      /\ \A u \in DOMAIN dem : Cardinality({x \in Slices : SizeOf[x] = u}) = dem[u]
  BY <1>2, <1>4, <1>6
<1> QED BY <1>7, <1>8 DEF dem

\* A hero of equal slices has as many as it has units.
LEMMA SlicesCounted ==
  ASSUME TypeOK, Uniform
  PROVE  /\ IsFiniteSet(Slices) /\ Cardinality(Slices) = Len(Units)
         /\ \A i \in Asking : ChunkSize(spec[i]) = Units[1]
<1> DEFINE dem == Demand(spec)
<1>1. PICK u : DOMAIN dem = {u}
  BY SlicesOfSize, FS_Singleton DEF Uniform, IsDemand
<1>2. \A i \in Asking : ChunkSize(spec[i]) = u
  BY <1>1, SlicesOfSize
<1>3. {x \in Slices : SizeOf[x] = u} = Slices
  BY <1>1, SlicesOfSize
<1>4. IsFiniteSet(Slices) /\ Cardinality(Slices) = dem[u] /\ IsDemand(dem)
  BY <1>1, <1>3, SlicesOfSize
<1>5. Units \in Seq({u}) /\ 1 \in DOMAIN Units /\ Units \in Seq(DOMAIN dem)
  BY <1>1, <1>4, UnitsType, AlikeUnits DEF Units
<1>6. DOMAIN Units = 1..AtLeast(dem, 0)
  BY DEF Units, UnitsOf
<1> HIDE DEF dem
<1>7. u \in Nat /\ dem[u] \in Nat /\ {t \in DOMAIN dem : t >= 0} = {u}
  BY <1>1, <1>4 DEF IsDemand
<1>8. AtLeast(dem, 0) = SumOver(dem, {u})
  BY <1>7 DEF AtLeast, SumOver
<1>9. SumOver(dem, {u}) = dem[u]
  <2>1. IsFiniteSet({u}) /\ \A x \in {u} : dem[x] \in Int
    <3>1. IsFiniteSet({u})
      BY FS_Singleton
    <3> QED BY <1>7, <3>1
  <2>2. SumOver(dem, {u}) = dem[u] + SumOver(dem, {u} \ {u})
    BY <2>1, SumOverStep
  <2>3. SumOver(dem, {}) = 0
    BY SumOverStep, FS_EmptySet
  <2>4. {u} \ {u} = {}
    OBVIOUS
  <2>5. SumOver(dem, {u} \ {u}) = 0
    BY <2>3, <2>4, Zenon
  <2> QED BY <1>7, <2>2, <2>5
<1>10. Len(Units) = dem[u]
  <2>1. DOMAIN Units = 1..Len(Units) /\ Len(Units) \in Nat
    BY <1>5
  <2> QED BY <1>6, <1>7, <1>8, <1>9, <2>1
<1>11. Units[1] = u
  BY <1>5
<1> QED BY <1>2, <1>4, <1>10, <1>11

----------------------------------------------------------------------------
(* A placement, and what it puts into a domain.                            *)

\* The pods of a slice share a domain of the slice level, those of a podset one of
\* its required level.
Together(place) ==
  \A s, t \in HeroPods : s[1] = t[1] =>
    /\ SameSlice(s, t) => Label[place[s]][spec[s[1]].slice] = Label[place[t]][spec[s[1]].slice]
    /\ spec[s[1]].required # NoLevel
         => Label[place[s]][spec[s[1]].required] = Label[place[t]][spec[s[1]].required]

\* No node of M is given more than it has.
Within(place, M, has) == \A n \in M : SumOver(Need, {s \in HeroPods : place[s] = n}) <= has[n]

\* What KueueFits asks for.
LEMMA KueuePlaces ==
  ASSUME TypeOK, NEW N \in SUBSET Node, NEW has, KueueFits(N, has)
  PROVE  \E M \in SUBSET (N \cap up) : \E place \in [HeroPods -> M] : Together(place) /\ Within(place, M, has)
<1> DEFINE M == {n \in N \cap up : \E s \in HeroPods : has[n] >= spec[s[1]].gpu}
           Asks(S) == MapThenSumSet(LAMBDA s : spec[s[1]].gpu, S)
<1>1. PICK place \in [HeroPods -> M] :
        /\ \A s, t \in HeroPods : s[1] = t[1] =>
             LET ps == spec[s[1]] IN
             /\ SameSlice(s, t) => Label[place[s]][ps.slice] = Label[place[t]][ps.slice]
             /\ ps.required # NoLevel => Label[place[s]][ps.required] = Label[place[t]][ps.required]
        /\ \A n \in M : Asks({s \in HeroPods : place[s] = n}) <= has[n]
  BY DEF KueueFits
<1>2. ASSUME NEW S \in SUBSET HeroPods PROVE Asks(S) = SumOver(Need, S)
  BY DEF SumOver, MapThenSumSet, MapThenFoldSet, Need
<1>3. Together(place)
  BY <1>1 DEF Together
<1>4. ASSUME NEW n \in M PROVE SumOver(Need, {s \in HeroPods : place[s] = n}) <= has[n]
  <2> DEFINE S == {s \in HeroPods : place[s] = n}
  <2>1. S \in SUBSET HeroPods /\ Asks(S) <= has[n]
    BY <1>1
  <2> HIDE DEF S, Asks
  <2>2. Asks(S) = SumOver(Need, S)
    BY <1>2, <2>1
  <2>3. SumOver(Need, S) <= has[n]
    BY <2>1, <2>2
  <2> QED BY <2>3 DEF S
<1>5. Within(place, M, has)
  <2> HIDE DEF M
  <2> QED BY <1>4 DEF Within
<1>6. M \in SUBSET (N \cap up)
  OBVIOUS
<1> HIDE DEF M
<1> QED BY <1>1, <1>3, <1>5, <1>6

\* No domain is given more than its drain frees.
LEMMA DomainHolds ==
  ASSUME TypeOK, Selects, RoomInv, NEW id \in Ids,
         NEW M \in SUBSET up, NEW place \in [HeroPods -> M], Within(place, M, Room)
  PROVE  SumOver(Need, {s \in HeroPods : place[s] \in At(id)}) <= Free(id)
<1> DEFINE P == {s \in HeroPods : place[s] \in At(id)}
           B == At(id) \cap M
           A == At(id) \cap up
           On(n) == {s \in HeroPods : place[s] = n}
           given == [n \in B |-> SumOver(Need, On(n))]
<1>1. /\ P \subseteq HeroPods /\ B \subseteq A /\ A \subseteq Node
      /\ \A n \in B : On(n) \subseteq HeroPods /\ {s \in P : place[s] = n} = On(n)
      /\ \A s \in P : place[s] \in B
  BY DEF At
<1>2. \A n \in B : given[n] = SumOver(Need, On(n)) /\ given[n] <= Room[n]
  BY DEF Within
<1>3. SumOver(Room, A) <= Free(id)
  BY FreeIsRoom
<1> HIDE DEF P, A, B, On, given
<1>4. IsFiniteSet(A) /\ IsFiniteSet(B) /\ IsFiniteSet(P)
  BY <1>1, HeroPodsAre, ClusterAssumption, FS_Subset DEF ClusterAssumptions
<1>5. ByClass(given, Need, P, place, B)
  BY <1>1, <1>2 DEF ByClass
<1>6. SumOver(Need, P) = SumOver(given, B)
  BY <1>1, <1>4, <1>5, HeroPodsAre, SumByClass
<1>7. \A n \in B : given[n] \in Int /\ Room[n] \in Int
  <2> SUFFICES ASSUME NEW n \in B PROVE given[n] \in Int /\ Room[n] \in Int
    OBVIOUS
  <2>1. On(n) \subseteq HeroPods /\ IsFiniteSet(On(n))
    BY <1>1, HeroPodsAre, FS_Subset
  <2>2. SumOver(Need, On(n)) \in Int
    BY <2>1, HeroPodsAre, SumOverType
  <2> QED BY <1>1, <1>2, <2>2 DEF RoomInv
<1>8. SumOver(given, B) <= SumOver(Room, B)
  BY <1>2, <1>4, <1>7, SumMonotone
<1>9. SumOver(Room, B) <= SumOver(Room, A)
  BY <1>1, <1>4, SumOfPart DEF RoomInv
<1>10. SumOver(given, B) \in Int /\ SumOver(Room, B) \in Int /\ SumOver(Room, A) \in Int
  BY <1>1, <1>4, <1>7, SumOverType DEF RoomInv
<1>11. Free(id) \in Nat
  BY BuildIs
<1>12. SumOver(Need, P) <= Free(id)
  BY <1>3, <1>6, <1>8, <1>9, <1>10, <1>11
<1> QED BY <1>12 DEF P

\* A level of the hierarchy and its index.
LEMMA IndexIs ==
  ASSUME NEW l \in Range(Levels)
  PROVE  Index(l) \in DOMAIN Levels /\ Levels[Index(l)] = l
<1>1. \E i \in DOMAIN Levels : Levels[i] = l
  BY DEF Range
<1> QED BY <1>1 DEF Index

\* The drain level is the coarsest slice level.
LEMMA LevelIsCoarsest ==
  ASSUME Selects
  PROVE  /\ Level \in RequiredTopologyLevels(spec) /\ RequiredTopologyLevels(spec) \subseteq Range(Levels)
         /\ \A l \in RequiredTopologyLevels(spec) : Index(Level) <= Index(l)
<1> DEFINE L == RequiredTopologyLevels(spec)
           I == {Index(l) : l \in L}
<1>1. L # {} /\ L \subseteq Range(Levels) /\ Level = Levels[Min(I)]
  BY DEF Selects, LevelsResolve, Level, CoarsestLevel, InHierarchy
<1> HIDE DEF L
<1>2. DOMAIN Levels = 1..Len(Levels) /\ Len(Levels) \in Nat /\ IsInjective(Levels)
  BY LevelsAssumption
<1>3. I # {} /\ I \subseteq 1..Len(Levels)
  BY <1>1, <1>2, IndexIs
<1>4. Min(I) \in I /\ \A t \in I : Min(I) <= t
  <2> HIDE DEF I
  <2>1. IsFiniteSet(1..Len(Levels))
    <3>1. 1 \in Int /\ Len(Levels) \in Int
      BY <1>2
    <3> QED BY <3>1, FS_Interval
  <2>2. IsFiniteSet(I)
    BY <1>3, <2>1, FS_Subset
  <2>3. I \in SUBSET Int
    BY <1>3
  <2> QED BY <1>3, <2>2, <2>3, MaxMin
<1>5. PICK m \in L : Index(m) = Min(I)
  BY <1>4
<1>6. Level = m
  BY <1>1, <1>5, IndexIs
<1>7. \A l \in L : Index(Level) <= Index(l)
  BY <1>4, <1>5, <1>6
<1> QED BY <1>1, <1>6, <1>7 DEF L

\* Nodes that share a domain of some level share those of every coarser one.
LEMMA SharedAbove ==
  ASSUME Nested, NEW m \in Node, NEW n \in Node, NEW k \in Range(Levels), NEW l \in Range(Levels),
         Index(k) <= Index(l), Label[m][l] = Label[n][l]
  PROVE  Label[m][k] = Label[n][k]
<1>1. Index(k) \in DOMAIN Levels /\ Levels[Index(k)] = k /\ Index(l) \in DOMAIN Levels /\ Levels[Index(l)] = l
  BY IndexIs
<1> QED BY <1>1 DEF Nested

----------------------------------------------------------------------------
(* Slices stay in their domains.                                           *)

\* The first pod of a slice, and the domain it is put in.
Lead(x) == <<x[1], x[2] * spec[x[1]].size + 1>>

Home(place) == [x \in Slices |-> Label[place[Lead(x)]][Level]]

\* The pods of a slice ask for one unit, and follow the first of them.
LEMMA SliceIsUnit ==
  ASSUME TypeOK, Uniform, WholeSlices, NEW x \in Slices
  PROVE  /\ x[1] \in Asking /\ Lead(x) \in HeroPods
         /\ SumOver(Need, {s \in HeroPods : SliceOf[s] = x}) = Units[1]
         /\ \A s \in HeroPods : SliceOf[s] = x => s[1] = x[1] /\ SameSlice(Lead(x), s)
<1>1. PICK i \in Asking : x \in SlicesOf(i)
  BY DEF Slices
<1>2. PICK j \in 0..(ChunkCount(spec[i]) - 1) : x = <<i, j>>
  BY <1>1 DEF SlicesOf
<1> DEFINE size == spec[i].size
           count == spec[i].count
           K == (j * size + 1)..(j * size + size)
           P == {s \in HeroPods : SliceOf[s] = x}
<1>3. /\ i \in SlicePodSets(spec) /\ size \in Nat \ {0} /\ count \in Nat /\ spec[i].gpu \in Nat
      /\ ChunkCount(spec[i]) \in Nat /\ count % size = 0 /\ x[1] = i /\ x[2] = j
  BY <1>2, PodSetType DEF Asking, WholeSlices
<1>4. j \in Nat /\ j < (count + size - 1) \div size
  BY <1>2, <1>3 DEF ChunkCount
<1> HIDE DEF size, count
<1>5. /\ \A k \in 1..count : (k - 1) \div size = j <=> k \in K
      /\ K \subseteq 1..count
  <2>1. size \in Nat \ {0} /\ count \in Nat /\ count % size = 0
    BY <1>3
  <2> QED BY <1>4, <2>1, SlicePods, Zenon
<1>6. j * size \in Nat
  BY <1>3, <1>4
<1>7. \A s : s \in HeroPods <=> \E h \in SlicePodSets(spec) : \E k \in 1..spec[h].count : s = <<h, k>>
  BY HeroPodsAre
<1> HIDE DEF K
<1>8. P = {i} \X K
  <2>1. ASSUME NEW s \in P PROVE s \in {i} \X K
    <3>1. PICK h \in SlicePodSets(spec) : \E k \in 1..spec[h].count : s = <<h, k>>
      BY <1>7
    <3>2. PICK k \in 1..spec[h].count : s = <<h, k>>
      BY <3>1
    <3>3. SliceOf[s] = <<h, (k - 1) \div spec[h].size>>
      BY <3>2 DEF SliceOf
    <3>4. h = i /\ (k - 1) \div size = j
      BY <1>2, <3>3 DEF size
    <3> QED BY <1>5, <3>2, <3>4 DEF count
  <2>2. ASSUME NEW k \in K PROVE <<i, k>> \in P
    <3>1. k \in 1..count /\ (k - 1) \div size = j
      BY <1>5
    <3>2. <<i, k>> \in HeroPods
      BY <1>3, <1>7, <3>1 DEF count
    <3>3. SliceOf[<<i, k>>] = <<i, (k - 1) \div size>>
      BY <3>2 DEF SliceOf, size
    <3> QED BY <1>2, <3>1, <3>2, <3>3
  <2> QED BY <2>1, <2>2
<1>9. \A s \in P : s \in HeroPods /\ s[1] = i /\ (s[2] - 1) \div size = j /\ Need[s] = spec[i].gpu
  <2> SUFFICES ASSUME NEW s \in P PROVE s \in HeroPods /\ s[1] = i /\ (s[2] - 1) \div size = j /\ Need[s] = spec[i].gpu
    OBVIOUS
  <2>1. PICK k \in K : s = <<i, k>>
    BY <1>8
  <2>2. (k - 1) \div size = j
    BY <1>5
  <2> QED BY <2>1, <2>2 DEF Need
<1>10. Lead(x) \in P
  <2>1. j * size + 1 \in K
    BY <1>3, <1>6 DEF K
  <2> QED BY <1>3, <1>8, <2>1 DEF Lead, size
<1>11. \A s \in P : SameSlice(Lead(x), s)
  <2> HIDE DEF P
  <2>1. \A s \in P : SameSlice(Lead(x), s) <=> (Lead(x)[2] - 1) \div size = (s[2] - 1) \div size
    BY <1>9, <1>10 DEF SameSlice, size
  <2> QED BY <1>9, <1>10, <2>1
<1>12. IsFiniteSet(P) /\ Cardinality(P) = size
  <2> DEFINE a == j * size + 1
             b == j * size + size
  <2>1. a \in Int /\ b \in Int /\ ~ (a > b) /\ b - a + 1 = size
    BY <1>3, <1>6
  <2> HIDE DEF a, b
  <2>2. IsFiniteSet(a..b) /\ Cardinality(a..b) = size
    BY <2>1, FS_Interval
  <2>3. IsFiniteSet({i}) /\ Cardinality({i}) = 1
    BY FS_Singleton
  <2>4. IsFiniteSet({i} \X K) /\ Cardinality({i} \X K) = 1 * size
    BY <2>2, <2>3, FS_Product DEF K, a, b
  <2> HIDE DEF P
  <2> QED BY <1>3, <1>8, <2>4
<1>13. SumOver(Need, P) = Units[1]
  <2> HIDE DEF P
  <2>1. SumOver(Need, P) = spec[i].gpu * size
    <3> DEFINE g == spec[i].gpu
    <3>1. g \in Nat /\ \A s \in P : Need[s] = g
      BY <1>3, <1>9
    <3> HIDE DEF g
    <3>2. SumOver(Need, P) = g * Cardinality(P)
      BY <1>12, <3>1, SumOfEquals
    <3> QED BY <1>12, <3>2 DEF g
  <2>2. ChunkSize(spec[i]) = size * spec[i].gpu
    BY DEF ChunkSize, size
  <2>3. ChunkSize(spec[i]) = Units[1]
    BY SlicesCounted
  <2>4. spec[i].gpu * size = size * spec[i].gpu
    BY <1>3
  <2> QED BY <2>1, <2>2, <2>3, <2>4
<1> QED BY <1>2, <1>3, <1>9, <1>10, <1>11, <1>13

\* All pods of a slice are put in the domain of the first.
LEMMA SliceInOneDomain ==
  ASSUME TypeOK, Selects, Uniform, WholeSlices, Nested, NEW M \in SUBSET Node,
         NEW place \in [HeroPods -> M], Together(place), NEW x \in Slices
  PROVE  /\ Home(place)[x] \in Ids /\ place[Lead(x)] \in M /\ place[Lead(x)] \in At(Home(place)[x])
         /\ \A s \in HeroPods : SliceOf[s] = x => place[s] \in At(Home(place)[x])
<1> DEFINE n == place[Lead(x)]
           id == Home(place)[x]
           l == spec[x[1]].slice
<1>1. /\ x[1] \in Asking /\ Lead(x) \in HeroPods /\ Lead(x)[1] = x[1]
      /\ \A s \in HeroPods : SliceOf[s] = x => s[1] = x[1] /\ SameSlice(Lead(x), s)
  BY SliceIsUnit DEF Lead
<1>2. n \in M /\ n \in Node /\ id = Label[n][Level]
  BY <1>1 DEF Home
<1>3. l \in RequiredTopologyLevels(spec)
  BY <1>1 DEF RequiredTopologyLevels, Asking
<1>4. Level \in Range(Levels) /\ l \in Range(Levels) /\ Index(Level) <= Index(l)
  BY <1>3, LevelIsCoarsest
<1>5. id # 0
  BY <1>2, <1>4 DEF Nested
<1>6. id \in Ids /\ n \in At(id)
  BY <1>2, <1>5, BuildIs DEF At
<1>7. ASSUME NEW s \in HeroPods, SliceOf[s] = x PROVE place[s] \in At(id)
  <2>1. place[s] \in Node
    OBVIOUS
  <2>2. Label[n][l] = Label[place[s]][l]
    BY <1>1, <1>7 DEF Together
  <2> HIDE DEF n, l
  <2>3. Label[n][Level] = Label[place[s]][Level]
    BY <1>2, <1>4, <2>1, <2>2, SharedAbove
  <2> QED BY <1>2, <2>1, <2>3 DEF At
<1> QED BY <1>2, <1>6, <1>7

\* The slices of a domain ask for no more than their pods do.
LEMMA SlicesHold ==
  ASSUME TypeOK, Selects, Uniform, WholeSlices, Nested, NEW M \in SUBSET Node,
         NEW place \in [HeroPods -> M], Together(place), NEW id
  PROVE  Units[1] * Cardinality({x \in Slices : Home(place)[x] = id})
           <= SumOver(Need, {s \in HeroPods : place[s] \in At(id)})
<1> DEFINE X == {x \in Slices : Home(place)[x] = id}
           Q == {s \in HeroPods : SliceOf[s] \in X}
           P == {s \in HeroPods : place[s] \in At(id)}
           Of(x) == {s \in HeroPods : SliceOf[s] = x}
           units == [x \in X |-> Units[1]]
<1>1. X \subseteq Slices /\ Q \subseteq HeroPods /\ P \subseteq HeroPods
  OBVIOUS
<1>2. Q \subseteq P
  BY SliceInOneDomain
<1>3. IsFiniteSet(X) /\ IsFiniteSet(Q) /\ IsFiniteSet(P)
  <2> HIDE DEF X, Q, P
  <2>1. IsFiniteSet(Slices) /\ IsFiniteSet(HeroPods)
    BY SlicesCounted, HeroPodsAre
  <2> QED BY <1>1, <2>1, FS_Subset
<1>4. \A x \in X : units[x] = Units[1] /\ SumOver(Need, Of(x)) = Units[1]
  BY SliceIsUnit
<1>5. ByClass(units, Need, Q, SliceOf, X)
  <2>1. \A s \in Q : SliceOf[s] \in X
    OBVIOUS
  <2>2. ASSUME NEW x \in X PROVE {s \in Q : SliceOf[s] = x} = Of(x)
    OBVIOUS
  <2> HIDE DEF X, Q, Of, units
  <2> QED BY <1>4, <2>1, <2>2 DEF ByClass
<1>6. \A s \in HeroPods : Need[s] \in Nat
  BY HeroPodsAre
<1>7. Units[1] \in Nat
  BY AlikeUnits
<1> HIDE DEF X, Q, P, units
<1>8. SumOver(Need, Q) = SumOver(units, X)
  BY <1>1, <1>3, <1>5, <1>6, SumByClass
<1>9. SumOver(units, X) = Units[1] * Cardinality(X)
  <2> DEFINE u == Units[1]
  <2>1. u \in Nat /\ \A x \in X : units[x] = u
    BY <1>4, <1>7
  <2> HIDE DEF u
  <2>2. SumOver(units, X) = u * Cardinality(X)
    BY <1>3, <2>1, SumOfEquals
  <2> QED BY <2>2 DEF u
<1>10. SumOver(Need, Q) <= SumOver(Need, P)
  BY <1>1, <1>2, <1>3, <1>6, SumOfPart
<1> QED BY <1>8, <1>9, <1>10 DEF X, P

----------------------------------------------------------------------------
(* A hero that can be helped has a plan.                                   *)

\* A domain in which a drainable node is has no other hero, and no workload that is
\* not below this one.
LEMMA DrainableDomain ==
  ASSUME TypeOK, Selects, NEW id \in Ids, NEW n \in Drainable, n \in At(id)
  PROVE  ~Build[id].hasOtherHero /\ VictimsBelowHero(Vic(id))
<1> DEFINE L == RequiredTopologyLevels(spec)
           top == CHOOSE l \in L : \A m \in L : Index(l) <= Index(m)
           Fixed(p) == /\ pod[p] = "running" /\ WorkloadOf[p] \in known
                       /\ Priority[WorkloadOf[p]] >= HeroPriority
           Taken(m) == m \in rival \/ \E p \in PodsOn(m) : Fixed(p)
<1>1. top = Level
  <2>1. Level \in L /\ L \subseteq Range(Levels) /\ \A l \in L : Index(Level) <= Index(l)
    BY LevelIsCoarsest
  <2>2. top \in L /\ \A m \in L : Index(top) <= Index(m)
    <3> HIDE DEF L
    <3> QED BY <2>1
  <2> HIDE DEF top, L
  <2>3. Index(top) = Index(Level)
    <3>1. DOMAIN Levels \subseteq Int
      BY LevelsAssumption
    <3>2. Index(top) \in Int /\ Index(Level) \in Int
      BY <2>1, <2>2, <3>1, IndexIs
    <3> QED BY <2>1, <2>2, <3>2
  <2> QED BY <2>1, <2>2, <2>3, IndexIs
<1>2. n \in Node /\ \A m \in Node : Label[m][top] = Label[n][top] => ~Taken(m)
  BY DEF Drainable
<1>3. ASSUME NEW m \in At(id) PROVE ~Taken(m)
  <2> HIDE DEF top, Taken
  <2> QED BY <1>1, <1>2 DEF At
<1>4. ~Build[id].hasOtherHero
  <2>1. Build[id].hasOtherHero = (rival \cap At(id) # {})
    BY BuildIs DEF HasOtherHero
  <2> QED BY <1>3, <2>1
<1>5. ASSUME NEW w \in Vic(id) PROVE Priority[w] < HeroPriority
  <2>1. w \in known /\ w \in Workload
    BY VicIs
  <2>2. PICK p \in Pod : WorkloadOf[p] = w /\ pod[p] = "running" /\ at[p] \in At(id)
    BY VicIs
  <2>3. p \in PodsOn(at[p])
    BY <2>2 DEF PodsOn
  <2>4. ~ (Priority[w] >= HeroPriority)
    BY <1>3, <2>1, <2>2, <2>3
  <2> QED BY <2>1, <2>4, WorkloadAssumption
<1> QED BY <1>4, <1>5 DEF VictimsBelowHero

\* The group of a domain is the label of each of its nodes.
LEMMA GroupIs ==
  ASSUME TypeOK, Selects, Nested, GroupLevel # NoLevel, Index(GroupLevel) <= Index(Level),
         NEW id \in Ids, NEW n \in At(id)
  PROVE  Grp(id) = Label[n][GroupLevel]
<1> DEFINE seen == {Label[m][GroupLevel] : m \in At(id)} \ {0}
<1>1. GroupLevel \in Range(Levels) /\ Level \in Range(Levels)
  BY LevelsType DEF Selects
<1>2. ASSUME NEW m \in At(id) PROVE Label[m][GroupLevel] = Label[n][GroupLevel]
  <2>1. m \in Node /\ n \in Node /\ Label[m][Level] = Label[n][Level]
    BY DEF At
  <2> QED BY <1>1, <2>1, SharedAbove
<1>3. Label[n][GroupLevel] # 0
  BY <1>1 DEF Nested, At
<1>4. seen = {Label[n][GroupLevel]}
  BY <1>2, <1>3
<1>5. Group(At(id), GroupLevel) = Label[n][GroupLevel]
  BY <1>4 DEF Group
<1> QED BY <1>5, BuildIs

\* Kueue keeps a podset with a required level in one group; without one there is one.
LEMMA PlacedInOneGroup ==
  ASSUME TypeOK, Selects, Nested, Cardinality(SlicePodSets(spec)) = 1 \/ GroupingLevels(spec) = {},
         NEW M \in SUBSET Node, NEW place \in [HeroPods -> M], Together(place),
         NEW s \in HeroPods, NEW t \in HeroPods,
         NEW a \in Ids, NEW b \in Ids, place[s] \in At(a), place[t] \in At(b)
  PROVE  Grp(a) = Grp(b)
<1>1. CASE GroupLevel = NoLevel
  BY <1>1, OneGroup
<1>2. CASE GroupLevel # NoLevel
  <2> DEFINE G == {l \in GroupingLevels(spec) : Index(l) <= Index(Level)}
  <2>1. G # {} /\ GroupLevel = Levels[Max({Index(l) : l \in G})]
    BY <1>2 DEF GroupLevel, GroupingLevel, FinestLevel
  <2>2. PICK i : SlicePodSets(spec) = {i}
    <3>1. Cardinality(SlicePodSets(spec)) = 1
      BY <2>1
    <3> QED BY <3>1, PodSetType, FS_Singleton
  <2> DEFINE r == spec[i].required
  <2>3. GroupingLevels(spec) \subseteq {r}
    BY <2>2 DEF GroupingLevels
  <2>4. G = {r} /\ r \in GroupingLevels(spec) /\ Index(r) <= Index(Level)
    BY <2>1, <2>3
  <2>5. r # NoLevel /\ r \in Range(Levels)
    BY <2>4 DEF GroupingLevels, Selects, LevelsResolve, InHierarchy
  <2> HIDE DEF r, G
  <2>6. GroupLevel = r
    <3>1. {Index(l) : l \in G} = {Index(r)}
      BY <2>4
    <3>2. Index(r) \in Int /\ Levels[Index(r)] = r
      BY <2>5, IndexIs, LevelsAssumption
    <3>3. Max({Index(r)}) = Index(r)
      <4>1. IsFiniteSet({Index(r)})
        BY FS_Singleton
      <4>2. {Index(r)} \in SUBSET Int /\ {Index(r)} # {}
        BY <3>2
      <4>3. Max({Index(r)}) \in {Index(r)}
        BY <4>1, <4>2, MaxMin
      <4> QED BY <4>3
    <3> QED BY <2>1, <3>1, <3>2, <3>3
  <2>7. s[1] = i /\ t[1] = i
    BY <2>2, HeroPodsAre
  <2>8. Label[place[s]][r] = Label[place[t]][r]
    BY <2>5, <2>7 DEF Together, r
  <2>9. Grp(a) = Label[place[s]][r] /\ Grp(b) = Label[place[t]][r]
    BY <1>2, <2>4, <2>6, GroupIs
  <2> QED BY <2>8, <2>9
<1> QED BY <1>1, <1>2

\* A hero of equal slices is never refused a drain that helps: if, with every domain
\* emptied that a drain may empty, kueue could place the hero, then SelectDomains
\* finds a plan.  For any cluster whose levels are nested, as kueue's topologies are.
THEOREM RefusalsAreRight ==
  ASSUME Nested
  PROVE  Spec => []NoPlanMeansNoFit
<1>1. TypeOK /\ RoomInv => NoPlanMeansNoFit
  <2> SUFFICES ASSUME TypeOK, RoomInv, Uniform, Selects, WholeSlices,
                      Cardinality(SlicePodSets(spec)) = 1 \/ GroupingLevels(spec) = {},
                      KueueFits(Drainable, Room)
               PROVE  SelectDomains(Build) # {}
    BY DEF NoPlanMeansNoFit, DrainingCannotHelp
  <2>1. Drainable \in SUBSET Node
    BY DEF Drainable
  <2>2. PICK M \in SUBSET (Drainable \cap up) :
          \E place \in [HeroPods -> M] : Together(place) /\ Within(place, M, Room)
    BY <2>1, KueuePlaces
  <2>3. PICK place \in [HeroPods -> M] : Together(place) /\ Within(place, M, Room)
    BY <2>2
  <2>4. M \in SUBSET Node /\ M \in SUBSET up /\ M \subseteq Drainable
    BY <2>1
  <2> DEFINE f == Home(place)
             u == Units[1]
             On(id) == {x \in Slices : f[x] = id}
  <2>5. /\ Units \in Seq(Nat) /\ u \in Nat \ {0} /\ 1 \in DOMAIN Units /\ DOMAIN Units # {}
        /\ \A i \in DOMAIN Units : Units[i] = u
    BY AlikeUnits
  <2>6. IsFiniteSet(Slices) /\ Cardinality(Slices) = Len(Units)
    BY SlicesCounted
  <2>7. ASSUME NEW x \in Slices
        PROVE  f[x] \in Ids /\ place[Lead(x)] \in M /\ place[Lead(x)] \in At(f[x]) /\ Lead(x) \in HeroPods
    BY <2>3, <2>4, SliceInOneDomain, SliceIsUnit
  <2>8. ASSUME NEW id \in Ids PROVE u * Cardinality(On(id)) <= Free(id)
    <3> DEFINE sum == SumOver(Need, {s \in HeroPods : place[s] \in At(id)})
               c == u * Cardinality(On(id))
    <3>1. c <= sum
      BY <2>3, <2>4, SlicesHold
    <3>2. sum <= Free(id)
      BY <2>3, <2>4, DomainHolds
    <3>3. sum \in Int
      <4> DEFINE P == {s \in HeroPods : place[s] \in At(id)}
      <4>1. P \subseteq HeroPods
        OBVIOUS
      <4> HIDE DEF P
      <4>2. IsFiniteSet(P) /\ \A s \in P : Need[s] \in Int
        BY <4>1, HeroPodsAre, FS_Subset
      <4>3. SumOver(Need, P) \in Int
        BY <4>2, SumOverType
      <4> QED BY <4>3 DEF P
    <3>4. c \in Int
      <4>1. On(id) \subseteq Slices
        OBVIOUS
      <4> HIDE DEF On
      <4>2. Cardinality(On(id)) \in Nat
        BY <2>6, <4>1, FS_Subset, FS_CardinalityType
      <4> QED BY <2>5, <4>2
    <3>5. Free(id) \in Nat
      BY BuildIs
    <3> HIDE DEF sum, c
    <3>6. c <= Free(id)
      BY <3>1, <3>2, <3>3, <3>4, <3>5
    <3> QED BY <3>6 DEF c
  <2>9. ASSUME NEW x \in Slices PROVE f[x] \in Candidates(Build)
    <3>1. f[x] \in Ids
      BY <2>7
    <3>2. ~Build[f[x]].hasOtherHero /\ VictimsBelowHero(Vic(f[x]))
      BY <2>4, <2>7, DrainableDomain
    <3>3. Free(f[x]) > 0
      <4> DEFINE X == On(f[x])
      <4>1. X \subseteq Slices /\ X # {}
        OBVIOUS
      <4>2. u * Cardinality(X) <= Free(f[x])
        BY <2>8, <3>1
      <4> HIDE DEF X
      <4>3. Cardinality(X) \in Nat /\ Cardinality(X) # 0
        BY <2>6, <4>1, FS_Subset, FS_CardinalityType, FS_EmptySet
      <4>4. Free(f[x]) \in Nat
        BY <3>1, BuildIs
      <4> HIDE DEF u, f
      <4>5. u * Cardinality(X) >= u
        BY <2>5, <4>3
      <4> QED BY <2>5, <4>2, <4>3, <4>4, <4>5
    <3> QED BY <3>1, <3>2, <3>3, CandidatesAre
  <2>10. PICK x \in Slices : TRUE
    <3>1. Len(Units) # 0
      BY <2>5
    <3> QED BY <2>6, <3>1, FS_EmptySet
  <2> DEFINE g == Grp(f[x])
             C == GroupIds(Build, g)
             b == Unpacked(Restrict(Build, C))
  <2>11. \A y \in Slices : f[y] \in C
    <3> SUFFICES ASSUME NEW y \in Slices PROVE f[y] \in Candidates(Build) /\ Grp(f[y]) = g
      BY DEF GroupIds, Grp
    <3>1. Grp(f[y]) = g
      BY <2>3, <2>4, <2>7, <2>10, PlacedInOneGroup
    <3> QED BY <2>9, <3>1
  <2>12. g \in Groups(Build) /\ IsSnapshot(Build)
    BY <2>9, <2>10, BuildIs DEF Groups, Grp
  <2>13. f \in [Slices -> C]
    <3>1. f = [y \in Slices |-> f[y]]
      BY DEF Home
    <3> HIDE DEF f, C
    <3> QED BY <2>11, <3>1
  <2> HIDE DEF g, u, f
  <2>14. /\ C \in SUBSET Nat /\ IsFiniteSet(C) /\ C \subseteq Ids
         /\ b \in Packings(C) /\ b.selected = {} /\ b.ok
         /\ \A id \in C : b.remaining[id] = Free(id)
         /\ Packed(Build, g) = PackAll(b, Units)
    BY GroupOrder
  <2> HIDE DEF C, b
  <2>15. Counts(f, Slices, C, b, u)
    BY <2>8, <2>13, <2>14 DEF Counts
  <2>16. PackAll(b, Units).ok
    <3>1. Len(Units) <= Cardinality(Slices)
      BY <2>5, <2>6
    <3> QED BY <2>5, <2>6, <2>14, <2>15, <3>1, CountedPacking
  <2> QED BY <2>5, <2>12, <2>14, <2>16, PackedMeansPlan
<1> QED BY <1>1, PlanTypeCorrect, RoomKept, PTL

----------------------------------------------------------------------------
(* A plan serves its hero.                                                 *)

\* As many units of a size as the demand says.
LEMMA UnitsOfSize ==
  ASSUME NEW dem, IsDemand(dem), NEW u \in DOMAIN dem
  PROVE  /\ IsFiniteSet(DOMAIN UnitsOf(dem))
         /\ dem[u] <= Cardinality({k \in DOMAIN UnitsOf(dem) : UnitsOf(dem)[k] = u})
<1> DEFINE A(s) == AtLeast(dem, s)
           T(s) == {t \in DOMAIN dem : t >= s}
           K == (A(u) - dem[u] + 1)..A(u)
           U == {k \in DOMAIN UnitsOf(dem) : UnitsOf(dem)[k] = u}
<1>1. /\ \A s \in DOMAIN dem : s \in Nat /\ dem[s] \in Nat /\ A(s) = dem[s] + A(s + 1)
      /\ \A s \in Nat : A(s) \in Nat
  BY AtLeastSteps DEF IsDemand
<1>2. ASSUME NEW s \in Nat, NEW t \in Nat, s <= t PROVE A(t) <= A(s)
  <2>1. A(s) = SumOver(dem, T(s)) /\ A(t) = SumOver(dem, T(t))
    BY DEF AtLeast, SumOver
  <2>2. T(t) \subseteq T(s) /\ T(s) \subseteq DOMAIN dem
    BY <1>1, <1>2
  <2> HIDE DEF T
  <2>3. IsFiniteSet(T(s)) /\ \A x \in T(s) : dem[x] \in Nat
    BY <1>1, <2>2, FS_Subset DEF IsDemand
  <2>4. SumOver(dem, T(t)) <= SumOver(dem, T(s))
    BY <2>2, <2>3, SumOfPart
  <2> QED BY <2>1, <2>4
<1>3. UnitsOf(dem) = [k \in 1..A(0) |-> CHOOSE s \in DOMAIN dem : k <= A(s) /\ k > A(s) - dem[s]]
  BY DEF UnitsOf
<1> HIDE DEF A
<1>4. ASSUME NEW k \in K PROVE k \in 1..A(0) /\ UnitsOf(dem)[k] = u
  <2>1. k \in 1..A(0) /\ k <= A(u) /\ k > A(u) - dem[u]
    <3>1. A(u) <= A(0) /\ A(0) \in Nat /\ A(u) \in Nat /\ A(u + 1) \in Nat /\ A(u) = dem[u] + A(u + 1) /\ dem[u] \in Nat
      BY <1>1, <1>2
    <3> QED BY <3>1
  <2>2. ASSUME NEW s \in DOMAIN dem, k <= A(s), k > A(s) - dem[s] PROVE s = u
    <3>1. s \in Nat /\ u \in Nat /\ A(s) = dem[s] + A(s + 1) /\ A(u) = dem[u] + A(u + 1)
      BY <1>1
    <3>2. A(s + 1) \in Nat /\ A(u + 1) \in Nat /\ A(s) \in Nat /\ A(u) \in Nat /\ dem[s] \in Nat /\ dem[u] \in Nat
      BY <1>1, <3>1
    <3>3. k > A(s + 1) /\ k > A(u + 1)
      BY <2>1, <2>2, <3>1, <3>2
    <3>4. ~ (s < u)
      <4>1. s < u => A(u) <= A(s + 1)
        BY <1>2, <3>1
      <4> QED BY <2>1, <3>2, <3>3, <4>1
    <3>5. ~ (u < s)
      <4>1. u < s => A(s) <= A(u + 1)
        BY <1>2, <3>1
      <4> QED BY <2>1, <2>2, <3>2, <3>3, <4>1
    <3> QED BY <3>1, <3>4, <3>5
  <2>3. (CHOOSE s \in DOMAIN dem : k <= A(s) /\ k > A(s) - dem[s]) = u
    BY <2>1, <2>2
  <2> QED BY <1>3, <2>1, <2>3
<1>5. DOMAIN UnitsOf(dem) = 1..A(0)
  BY <1>3
<1>6. K \subseteq U
  BY <1>4, <1>5
<1>7. IsFiniteSet(1..A(0))
  <2>1. 0 \in Nat /\ 1 \in Int /\ A(0) \in Int
    BY <1>1
  <2> QED BY <2>1, FS_Interval
<1>8. Cardinality(K) = dem[u]
  <2> DEFINE a == A(u) - dem[u] + 1
  <2>1. u \in Nat /\ A(u) \in Nat /\ dem[u] \in Nat
    BY <1>1
  <2>2. a \in Int /\ A(u) \in Int /\ A(u) - a + 1 = dem[u] /\ (a > A(u) => dem[u] = 0)
    BY <2>1
  <2> HIDE DEF a
  <2>3. Cardinality(a..A(u)) = IF a > A(u) THEN 0 ELSE A(u) - a + 1
    BY <2>2, FS_Interval
  <2> QED BY <2>2, <2>3 DEF a
<1>9. U \subseteq 1..A(0)
  BY <1>5
<1> HIDE DEF K, U
<1>10. IsFiniteSet(U) /\ Cardinality(K) <= Cardinality(U)
  <2>1. IsFiniteSet(U)
    BY <1>7, <1>9, FS_Subset
  <2> QED BY <1>6, <2>1, FS_Subset
<1> QED BY <1>5, <1>7, <1>8, <1>10 DEF U

\* b gives every slice a unit of its size.
Serves(b) == OneToOne(b, Slices, DOMAIN Units) /\ \A x \in Slices : Units[b[x]] = SizeOf[x]

\* There are enough units for that.
LEMMA SlicesGetUnits ==
  ASSUME TypeOK
  PROVE  \E b : Serves(b)
<1> DEFINE dem == Demand(spec)
           C == DOMAIN dem
<1>1. /\ IsFiniteSet(Slices) /\ IsDemand(dem) /\ \A x \in Slices : SizeOf[x] \in C
      /\ \A u \in C : Cardinality({x \in Slices : SizeOf[x] = u}) = dem[u]
  BY SlicesOfSize
<1>2. SizeOf \in [Slices -> C]
  BY <1>1 DEF SizeOf
<1>3. Units = UnitsOf(dem)
  BY DEF Units
<1> HIDE DEF dem
<1>4. Units \in [DOMAIN Units -> C] /\ IsFiniteSet(DOMAIN Units)
  <2>1. Units \in Seq(C)
    BY <1>1, <1>3, UnitsType
  <2> QED BY <2>1, SeqFinite
<1>5. \A u \in C : dem[u] <= Cardinality({k \in DOMAIN Units : Units[k] = u})
  BY <1>1, <1>3, UnitsOfSize
<1>6. ClassesFit(SizeOf, Slices, Units, DOMAIN Units, C)
  BY <1>1, <1>2, <1>4, <1>5 DEF ClassesFit
<1>7. \E b : OneToOne(b, Slices, DOMAIN Units) /\ \A x \in Slices : Units[b[x]] = SizeOf[x]
  BY <1>1, <1>4, <1>6, MatchByClass
<1> QED BY <1>7 DEF Serves

\* A pod that asks for GPUs is in a slice, in one of its places.
LEMMA PodInSlice ==
  ASSUME TypeOK, NEW s \in HeroPods, spec[s[1]].gpu > 0
  PROVE  /\ SliceOf[s] \in Slices /\ SliceOf[s][1] = s[1] /\ s[1] \in SlicePodSets(spec)
         /\ SizeOf[SliceOf[s]] = spec[s[1]].size * spec[s[1]].gpu
         /\ ((s[2] - 1) % spec[s[1]].size) + 1 \in 1..spec[s[1]].size
         /\ s = <<s[1], SliceOf[s][2] * spec[s[1]].size + (((s[2] - 1) % spec[s[1]].size) + 1)>>
<1>0. PICK i \in SlicePodSets(spec) : \E k \in 1..spec[i].count : s = <<i, k>>
  BY HeroPodsAre
<1>1. PICK k \in 1..spec[i].count : s = <<i, k>>
  BY <1>0
<1> DEFINE size == spec[i].size
           count == spec[i].count
           q == (k - 1) \div size
           m == (k - 1) % size
<1>2. size \in Nat \ {0} /\ count \in Nat /\ spec[i].gpu \in Nat \ {0}
  BY <1>1, PodSetType
<1>3. q \in Nat /\ m \in 0..(size - 1) /\ k - 1 = q * size + m
  <2> HIDE DEF size
  <2> QED BY <1>2
<1>4. ChunkSize(spec[i]) = size * spec[i].gpu
  BY DEF ChunkSize
<1>5. ChunkSize(spec[i]) > 0
  <2> DEFINE g == spec[i].gpu
  <2>1. g \in Nat \ {0}
    BY <1>2
  <2> HIDE DEF g, size
  <2>2. size * g > 0
    BY <1>2, <2>1
  <2> QED BY <1>4, <2>2 DEF g
<1>6. ChunkCount(spec[i]) \in Nat /\ q < ChunkCount(spec[i])
  <2> DEFINE c == ChunkCount(spec[i])
  <2>1. c \in Nat /\ c * size >= count
    BY <1>2, PodSetType, SlicesHoldThePods
  <2> HIDE DEF c, size, count, q, m
  <2>2. q * size < c * size
    BY <1>2, <1>3, <2>1 DEF count
  <2>3. q < c
    BY <1>2, <1>3, <2>1, <2>2
  <2> QED BY <2>1, <2>3 DEF c
<1>7. SliceOf[s] = <<i, q>>
  BY <1>1 DEF SliceOf
<1> HIDE DEF q, m, size
<1>8. i \in Asking /\ <<i, q>> \in SlicesOf(i)
  BY <1>3, <1>5, <1>6 DEF Asking, SlicesOf
<1>9. SliceOf[s] \in Slices
  BY <1>7, <1>8 DEF Slices
<1>10. SizeOf[SliceOf[s]] = size * spec[i].gpu
  BY <1>4, <1>7, <1>9 DEF SizeOf
<1>11. k = q * size + (m + 1) /\ m + 1 \in 1..size
  <2>1. q * size \in Int
    BY <1>2, <1>3
  <2> QED BY <1>2, <1>3, <2>1
<1> QED BY <1>1, <1>7, <1>9, <1>10, <1>11 DEF m, size

\* Products with one positive factor compare as the other factors do.
LEMMA Cancel ==
  ASSUME NEW g \in Nat \ {0}, NEW a \in Int, NEW b \in Int
  PROVE  /\ g * a = g * b => a = b
         /\ g * a <= g * b => a <= b
         /\ g * a >= 0 => a >= 0
<1>1. ASSUME a < b PROVE g * a < g * b
  BY <1>1
<1>2. ASSUME b < a PROVE g * b < g * a
  BY <1>2
<1>3. ASSUME a < 0 PROVE g * a < 0
  BY <1>3
<1>4. g * a \in Int /\ g * b \in Int
  OBVIOUS
<1> QED BY <1>1, <1>2, <1>3, <1>4

\* The hero's pods all ask for g GPUs.
OfSize(g) == \A i \in SlicePodSets(spec) : spec[i].gpu = g

\* The domain of each pod, when b gives slices their units and f gives units their domains.
House(b, f) == [s \in HeroPods |-> f[b[SliceOf[s]]]]

\* The pods of a domain, and the units that it is given.
PodsIn(b, f, id) == {s \in HeroPods : House(b, f)[s] = id}

UnitsIn(f, id) == {k \in DOMAIN Units : f[k] = id}

\* The pods of a domain ask for no more than the units that it is given.
LEMMA PodsCounted ==
  ASSUME TypeOK, NEW g \in Nat \ {0}, OfSize(g), NEW b, Serves(b), NEW f, NEW id
  PROVE  g * Cardinality(PodsIn(b, f, id)) <= SumOver(Units, UnitsIn(f, id))
<1> DEFINE P == PodsIn(b, f, id)
           K == UnitsIn(f, id)
           w == [k \in DOMAIN Units |-> CHOOSE n \in Nat : Units[k] = g * n]
           m == [s \in P |-> <<b[SliceOf[s]], ((s[2] - 1) % spec[s[1]].size) + 1>>]
<1>1. /\ IsDemand(Demand(spec)) /\ DOMAIN Demand(spec) = {ChunkSize(spec[i]) : i \in Asking}
      /\ Units \in Seq(DOMAIN Demand(spec))
  BY SlicesOfSize, UnitsType DEF Units
<1>2. ASSUME NEW k \in DOMAIN Units PROVE w[k] \in Nat /\ Units[k] = g * w[k]
  <2>1. Units[k] \in DOMAIN Demand(spec)
    BY <1>1
  <2>2. PICK i \in Asking : Units[k] = ChunkSize(spec[i])
    BY <1>1, <2>1
  <2>3. spec[i].gpu = g /\ spec[i].size \in Nat
    BY PodSetType DEF OfSize, Asking
  <2>4. Units[k] = g * spec[i].size
    BY <2>2, <2>3 DEF ChunkSize
  <2>5. \E n \in Nat : Units[k] = g * n
    BY <2>3, <2>4
  <2>6. w[k] = CHOOSE n \in Nat : Units[k] = g * n
    OBVIOUS
  <2> HIDE DEF w
  <2> QED BY <2>5, <2>6
<1> HIDE DEF w
<1>3. K \subseteq DOMAIN Units /\ IsFiniteSet(DOMAIN Units)
  BY <1>1, SeqFinite DEF UnitsIn
<1>4. ASSUME NEW s \in P
      PROVE  /\ s \in HeroPods /\ SliceOf[s] \in Slices /\ SliceOf[s][1] = s[1] /\ b[SliceOf[s]] \in K
             /\ w[b[SliceOf[s]]] = spec[s[1]].size
             /\ ((s[2] - 1) % spec[s[1]].size) + 1 \in 1..spec[s[1]].size
             /\ s = <<s[1], SliceOf[s][2] * spec[s[1]].size + (((s[2] - 1) % spec[s[1]].size) + 1)>>
  <2>1. s \in HeroPods /\ f[b[SliceOf[s]]] = id
    BY DEF House, PodsIn
  <2>2. s[1] \in SlicePodSets(spec)
    BY <2>1, HeroPodsAre
  <2>3. spec[s[1]].gpu = g /\ spec[s[1]].size \in Nat
    BY <2>2, PodSetType DEF OfSize
  <2>4. /\ SliceOf[s] \in Slices /\ SliceOf[s][1] = s[1]
        /\ SizeOf[SliceOf[s]] = spec[s[1]].size * g
        /\ ((s[2] - 1) % spec[s[1]].size) + 1 \in 1..spec[s[1]].size
        /\ s = <<s[1], SliceOf[s][2] * spec[s[1]].size + (((s[2] - 1) % spec[s[1]].size) + 1)>>
    BY <2>1, <2>3, PodInSlice
  <2>5. b[SliceOf[s]] \in DOMAIN Units /\ Units[b[SliceOf[s]]] = SizeOf[SliceOf[s]]
    BY <2>4 DEF Serves, OneToOne
  <2>6. w[b[SliceOf[s]]] = spec[s[1]].size
    <3> DEFINE a == w[b[SliceOf[s]]]
               c == spec[s[1]].size
    <3>1. a \in Nat /\ c \in Nat /\ c * g = g * a
      BY <1>2, <2>3, <2>4, <2>5
    <3> HIDE DEF a, c
    <3>2. g * c = g * a
      BY <3>1
    <3>3. c = a
      BY <3>1, <3>2, Cancel
    <3> QED BY <3>3 DEF a, c
  <2>7. b[SliceOf[s]] \in K
    BY <2>1, <2>5 DEF UnitsIn
  <2> QED BY <2>1, <2>4, <2>6, <2>7
<1> HIDE DEF P, K
<1>5. ASSUME NEW s \in P PROVE m[s] \in Slots(w, K)
  <2>1. m[s] = <<b[SliceOf[s]], ((s[2] - 1) % spec[s[1]].size) + 1>>
    OBVIOUS
  <2>2. ((s[2] - 1) % spec[s[1]].size) + 1 \in 1..w[b[SliceOf[s]]] /\ b[SliceOf[s]] \in K
    BY <1>4
  <2>3. ((s[2] - 1) % spec[s[1]].size) + 1 \in Nat
    BY <2>2
  <2> HIDE DEF m
  <2> QED BY <2>1, <2>2, <2>3 DEF Slots
<1>6. ASSUME NEW s \in P, NEW t \in P, m[s] = m[t] PROVE s = t
  <2> DEFINE j(r) == ((r[2] - 1) % spec[r[1]].size) + 1
  <2>1. b[SliceOf[s]] = b[SliceOf[t]] /\ j(s) = j(t)
    BY <1>6
  <2>2. /\ SliceOf[s] \in Slices /\ SliceOf[s][1] = s[1] /\ SliceOf[t] \in Slices /\ SliceOf[t][1] = t[1]
        /\ s = <<s[1], SliceOf[s][2] * spec[s[1]].size + j(s)>>
        /\ t = <<t[1], SliceOf[t][2] * spec[t[1]].size + j(t)>>
    BY <1>4
  <2>3. SliceOf[s] = SliceOf[t]
    BY <2>1, <2>2 DEF Serves, OneToOne
  <2> HIDE DEF j, m
  <2>4. s[1] = t[1]
    BY <2>2, <2>3
  <2>5. SliceOf[s][2] * spec[s[1]].size + j(s) = SliceOf[t][2] * spec[t[1]].size + j(t)
    BY <2>1, <2>3, <2>4
  <2> QED BY <2>2, <2>4, <2>5
<1>7. OneToOne(m, P, Slots(w, K))
  <2>1. m \in [P -> Slots(w, K)]
    <3>1. m = [s \in P |-> m[s]]
      OBVIOUS
    <3> HIDE DEF m
    <3> QED BY <1>5, <3>1
  <2> HIDE DEF m
  <2> QED BY <1>6, <2>1 DEF OneToOne
<1> HIDE DEF m
<1>8. IsFiniteSet(K) /\ \A k \in K : w[k] \in Nat /\ w[k] \in Int /\ Units[k] = g * w[k]
  BY <1>2, <1>3, FS_Subset
<1>9. IsFiniteSet(Slots(w, K)) /\ Cardinality(Slots(w, K)) = SumOver(w, K)
  BY <1>8, SlotsCounted
<1>10. IsFiniteSet(P) /\ Cardinality(P) <= SumOver(w, K)
  BY <1>7, <1>9, OneToOneCount
<1>11. SumOver(Units, K) = g * SumOver(w, K)
  BY <1>8, SumTimes
<1>12. SumOver(w, K) \in Nat /\ Cardinality(P) \in Nat
  BY <1>8, <1>10, SumOverType, FS_CardinalityType
<1>13. g * Cardinality(P) <= SumOver(Units, K)
  <2> DEFINE a == Cardinality(P)
             c == SumOver(w, K)
  <2>1. a \in Nat /\ c \in Nat /\ a <= c /\ SumOver(Units, K) = g * c
    BY <1>10, <1>11, <1>12
  <2> HIDE DEF a, c
  <2>2. g * a <= g * c
    BY <2>1
  <2> QED BY <2>1, <2>2 DEF a
<1> QED BY <1>13 DEF P, K

\* Every node has room for a whole number of pods.
LEMMA RoomInPods ==
  ASSUME TypeOK, RoomInv, NEW g \in Nat \ {0}, OnePodSize(g), NEW n \in Node
  PROVE  \E k \in Nat : Room[n] = g * k
<1> DEFINE F == FixedOn(n)
           c == [p \in F |-> PodGPU[p] \div g]
<1>1. F \in SUBSET Pod /\ \A p \in F : WorkloadOf[p] = None /\ p \notin NonBlocking
  BY RoomIs DEF FixedOn
<1>2. GPU[n] \in Nat /\ GPU[n] % g = 0 /\ \A p \in F : PodGPU[p] \in Nat /\ PodGPU[p] % g = 0
  BY <1>1, ClusterAssumption DEF OnePodSize, ClusterAssumptions
<1>3. \A x \in Nat : x % g = 0 => x \div g \in Nat /\ x = g * (x \div g)
  OBVIOUS
<1>4. \A p \in F : c[p] \in Int /\ PodGPU[p] = g * c[p]
  BY <1>2, <1>3
<1>5. PICK a \in Nat : GPU[n] = g * a
  BY <1>2, <1>3
<1> HIDE DEF c, F
<1>6. IsFiniteSet(F)
  BY <1>1, PodSums
<1>7. SumOver(PodGPU, F) = g * SumOver(c, F) /\ SumOver(c, F) \in Int
  BY <1>4, <1>6, SumTimes, SumOverType
<1>8. PICK k \in Int : k = a - SumOver(c, F)
  BY <1>7
<1>9. Room[n] = g * a - g * SumOver(c, F)
  BY <1>5, <1>7, RoomIs DEF F
<1>10. Room[n] = g * k
  <2> DEFINE d == SumOver(c, F)
  <2>1. d \in Int /\ k = a - d /\ Room[n] = g * a - g * d
    BY <1>7, <1>8, <1>9
  <2> HIDE DEF d
  <2> QED BY <2>1
<1>11. k >= 0
  <2>1. g * k >= 0
    BY <1>10 DEF RoomInv
  <2> QED BY <2>1, Cancel
<1> QED BY <1>10, <1>11

\* With one slice level, it is the drain level.
LEMMA SliceIsLevel ==
  ASSUME TypeOK, Selects, OneLevel, NEW i \in SlicePodSets(spec)
  PROVE  spec[i].slice = Level
<1>1. spec[i].slice \in RequiredTopologyLevels(spec) /\ Level \in RequiredTopologyLevels(spec)
  BY LevelIsCoarsest DEF RequiredTopologyLevels
<1>2. Cardinality(RequiredTopologyLevels(spec)) = 1 /\ RequiredTopologyLevels(spec) \subseteq Range(Levels)
  BY LevelIsCoarsest DEF OneLevel
<1>3. IsFiniteSet(RequiredTopologyLevels(spec))
  <2> DEFINE slice == [h \in SlicePodSets(spec) |-> spec[h].slice]
  <2>1. RequiredTopologyLevels(spec) = {slice[h] : h \in SlicePodSets(spec)}
    BY DEF RequiredTopologyLevels
  <2> HIDE DEF slice
  <2> QED BY <2>1, PodSetType, FiniteImage
<1>4. PICK l : RequiredTopologyLevels(spec) = {l}
  BY <1>2, <1>3, FS_Singleton
<1> QED BY <1>1, <1>2, <1>4

\* Domains of one group share the domain of each level that a podset requires.
LEMMA RequiredShared ==
  ASSUME TypeOK, Selects, Nested, SlicesInside, OneLevel,
         NEW i \in SlicePodSets(spec), spec[i].required # NoLevel,
         NEW a \in Ids, NEW b \in Ids, Grp(a) = Grp(b), NEW m \in At(a), NEW n \in At(b)
  PROVE  Label[m][spec[i].required] = Label[n][spec[i].required]
<1> DEFINE r == spec[i].required
           G == {l \in GroupingLevels(spec) : Index(l) <= Index(Level)}
           I == {Index(l) : l \in G}
<1>1. GroupingLevels(spec) \subseteq Range(Levels) /\ r \in GroupingLevels(spec)
  BY DEF Selects, LevelsResolve, InHierarchy, GroupingLevels
<1>2. spec[i].slice = Level /\ Level \in Range(Levels)
  BY SliceIsLevel, LevelIsCoarsest
<1>3. Index(r) <= Index(Level)
  BY <1>1, <1>2 DEF SlicesInside, TypeOK
<1>4. r \in G /\ GroupLevel = Levels[Max(I)]
  <2>1. r \in G /\ G # {} /\ InHierarchy(G)
    BY <1>1, <1>3 DEF InHierarchy
  <2> QED BY <2>1 DEF GroupLevel, GroupingLevel, FinestLevel
<1>5. DOMAIN Levels = 1..Len(Levels) /\ Len(Levels) \in Nat /\ G \subseteq Range(Levels)
  BY <1>1, LevelsAssumption
<1>6. I # {} /\ I \subseteq 1..Len(Levels)
  BY <1>4, <1>5, IndexIs
<1>7. Max(I) \in I /\ \A t \in I : t <= Max(I)
  <2> HIDE DEF I
  <2>1. IsFiniteSet(1..Len(Levels))
    <3>1. 1 \in Int /\ Len(Levels) \in Int
      BY <1>5
    <3> QED BY <3>1, FS_Interval
  <2>2. IsFiniteSet(I)
    BY <1>6, <2>1, FS_Subset
  <2>3. I \in SUBSET Int
    BY <1>6
  <2> QED BY <1>6, <2>2, <2>3, MaxMin
<1>8. PICK l \in G : Index(l) = Max(I)
  BY <1>7
<1>9. GroupLevel = l /\ l \in Range(Levels) /\ Index(l) <= Index(Level) /\ Index(r) <= Index(l)
  BY <1>4, <1>5, <1>7, <1>8, IndexIs
<1>10. GroupLevel # NoLevel
  BY <1>9, LevelsAssumption
<1>11. Label[m][l] = Label[n][l]
  <2>1. Grp(a) = Label[m][GroupLevel] /\ Grp(b) = Label[n][GroupLevel]
    BY <1>9, <1>10, GroupIs
  <2> QED BY <1>9, <2>1
<1>12. m \in Node /\ n \in Node /\ r \in Range(Levels)
  BY <1>1 DEF At
<1> HIDE DEF r
<1>13. Label[m][r] = Label[n][r]
  BY <1>9, <1>11, <1>12, SharedAbove
<1> QED BY <1>13 DEF r

\* A placement that KueueFits accepts.
LEMMA KueueAccepts ==
  ASSUME TypeOK, NEW N \in SUBSET Node, NEW has, NEW place \in [HeroPods -> N \cap up],
         \A s \in HeroPods : has[place[s]] >= spec[s[1]].gpu,
         Together(place), Within(place, N \cap up, has)
  PROVE  KueueFits(N, has)
<1> DEFINE M == {n \in N \cap up : \E s \in HeroPods : has[n] >= spec[s[1]].gpu}
           Asks(S) == MapThenSumSet(LAMBDA s : spec[s[1]].gpu, S)
<1>1. place \in [HeroPods -> M]
  <2>1. \A s \in HeroPods : place[s] \in M
    OBVIOUS
  <2> HIDE DEF M
  <2> QED BY <2>1
<1>2. ASSUME NEW S \in SUBSET HeroPods PROVE Asks(S) = SumOver(Need, S)
  BY DEF SumOver, MapThenSumSet, MapThenFoldSet, Need
<1>3. ASSUME NEW n \in M PROVE Asks({s \in HeroPods : place[s] = n}) <= has[n]
  <2> DEFINE S == {s \in HeroPods : place[s] = n}
  <2>1. S \in SUBSET HeroPods /\ n \in N \cap up
    OBVIOUS
  <2>2. SumOver(Need, S) <= has[n]
    BY <2>1 DEF Within
  <2> HIDE DEF S, Asks
  <2>3. Asks(S) <= has[n]
    BY <1>2, <2>1, <2>2
  <2> QED BY <2>3 DEF S
<1>4. \A s, t \in HeroPods : s[1] = t[1] =>
        LET ps == spec[s[1]] IN
        /\ SameSlice(s, t) => Label[place[s]][ps.slice] = Label[place[t]][ps.slice]
        /\ ps.required # NoLevel => Label[place[s]][ps.required] = Label[place[t]][ps.required]
  BY DEF Together
<1>5. KueueFits(N, has) = \E pl \in [HeroPods -> M] :
        /\ \A s, t \in HeroPods : s[1] = t[1] =>
             LET ps == spec[s[1]] IN
             /\ SameSlice(s, t) => Label[pl[s]][ps.slice] = Label[pl[t]][ps.slice]
             /\ ps.required # NoLevel => Label[pl[s]][ps.required] = Label[pl[t]][ps.required]
        /\ \A n \in M : Asks({s \in HeroPods : pl[s] = n}) <= has[n]
  BY DEF KueueFits
<1> HIDE DEF M, Asks
<1> QED BY <1>1, <1>3, <1>4, <1>5

\* Places for the pods of each domain.
LEMMA DomainFits ==
  ASSUME TypeOK, Selects, RoomInv, FixedRun, NEW g \in Nat \ {0}, OfSize(g), NEW b, Serves(b), NEW f,
         NEW id \in Ids, SumOver(Units, UnitsIn(f, id)) <= Free(id),
         NEW cap, \A n \in Node : cap[n] \in Nat /\ Room[n] = g * cap[n]
  PROVE  Cardinality(PodsIn(b, f, id)) <= Cardinality(Slots(cap, At(id) \cap up))
<1> DEFINE A == At(id) \cap up
           a == Cardinality(PodsIn(b, f, id))
           units == SumOver(Units, UnitsIn(f, id))
           c == SumOver(cap, A)
<1>1. A \subseteq Node /\ IsFiniteSet(A)
  BY ClusterAssumption, FS_Subset DEF At, ClusterAssumptions
<1>2. SumOver(Room, A) = Free(id)
  BY FreeIsRoom
<1> HIDE DEF A
<1>3. \A n \in A : cap[n] \in Nat /\ cap[n] \in Int /\ Room[n] = g * cap[n]
  BY <1>1
<1>4. SumOver(Room, A) = g * c /\ c \in Nat
  <2>1. SumOver(cap, A) \in Nat
    <3>1. \A n \in A : cap[n] \in Int /\ cap[n] >= 0
      BY <1>3
    <3> QED BY <1>1, <3>1, SumOverType
  <2>2. SumOver(Room, A) = g * SumOver(cap, A)
    <3>1. \A n \in A : cap[n] \in Int /\ Room[n] = g * cap[n]
      BY <1>3
    <3>2. g \in Int
      OBVIOUS
    <3> QED BY <1>1, <3>1, <3>2, SumTimes
  <2> QED BY <2>1, <2>2
<1>5. Cardinality(Slots(cap, A)) = c
  BY <1>1, <1>3, SlotsCounted
<1>6. g * a <= units
  BY PodsCounted
<1>7. a \in Nat
  <2> DEFINE P == PodsIn(b, f, id)
  <2>1. P \subseteq HeroPods
    BY DEF PodsIn
  <2> HIDE DEF P
  <2>2. Cardinality(P) \in Nat
    BY <2>1, HeroPodsAre, FS_Subset, FS_CardinalityType
  <2> QED BY <2>2 DEF P
<1>8. units \in Int
  <2> DEFINE K == UnitsIn(f, id)
  <2>1. Units \in Seq(Nat) /\ K \subseteq DOMAIN Units
    BY HeroUnits DEF UnitsIn
  <2> HIDE DEF K
  <2>2. IsFiniteSet(K) /\ \A k \in K : Units[k] \in Int
    BY <2>1, SeqFinite, FS_Subset
  <2>3. SumOver(Units, K) \in Int
    BY <2>2, SumOverType
  <2> QED BY <2>3 DEF K
<1>9. units <= Free(id) /\ Free(id) = g * c
  BY <1>2, <1>4
<1> HIDE DEF a, units, c
<1>10. g * a <= g * c
  <2>1. g * a \in Int /\ g * c \in Int
    BY <1>4, <1>7
  <2> QED BY <1>6, <1>8, <1>9, <2>1
<1>11. a <= c
  BY <1>4, <1>7, <1>10, Cancel
<1> QED BY <1>5, <1>11 DEF A, a

\* A plan serves its hero: once its domains are empty, kueue can place the hero on their
\* nodes, pod by pod, inside the levels that its podsets require.  For any cluster whose
\* levels are nested and whose nodes are not fragmented for the hero's pods.
THEOREM PlansServe ==
  ASSUME Nested, NEW g \in Nat \ {0}, OnePodSize(g), SlicesInside
  PROVE  Spec => []PlanServesHero
<1>1. TypeOK /\ RoomInv /\ FixedRun /\ PlanHasRoom /\ PlanKeepsOff => PlanServesHero
  <2> DEFINE s0 == Build
             D == SelectDomains(s0)
             N == PlanNodes(s0, D)
             M == N \cap up
  <2> SUFFICES ASSUME TypeOK, RoomInv, FixedRun, PlanHasRoom, PlanKeepsOff, Selects, OneLevel, N # {}
               PROVE  KueueFits(N, Room)
    BY DEF PlanServesHero
  <2>1. D \subseteq Ids /\ D # {} /\ N \subseteq Node /\ \A a, b \in D : Grp(a) = Grp(b)
    <3>1. D # {}
      BY DEF PlanNodes
    <3>2. IsSnapshot(s0)
      BY BuildIs
    <3>3. D \subseteq Candidates(s0) /\ N \subseteq Node /\ \A a, b \in D : s0[a].group = s0[b].group
      BY <3>2, PlanDomains
    <3> QED BY <3>1, <3>3 DEF Candidates, Ids, Grp
  <2>2. \A n : n \in N <=> \E id \in D : n \in At(id)
    <3>1. \A id \in D : s0[id].nodes = At(id)
      BY <2>1, BuildIs
    <3> HIDE DEF s0, D
    <3> QED BY <3>1 DEF PlanNodes
  <2>3. PICK f \in [DOMAIN Units -> D] : \A id \in D :
          SumOver(Units, UnitsIn(f, id)) <= Free(id)
    <3>1. \E f \in [DOMAIN Units -> D] : \A id \in D :
            MapThenSumSet(LAMBDA i : Units[i], {i \in DOMAIN Units : f[i] = id}) <= Reclaimable(s0[id])
      BY <2>1 DEF PlanHasRoom
    <3> HIDE DEF D
    <3> QED BY <3>1 DEF SumOver, Free, UnitsIn
  <2> HIDE DEF s0, D, N
  <2>4. OfSize(g)
    BY DEF OfSize, OnePodSize, TypeOK
  <2>5. PICK b : Serves(b)
    BY SlicesGetUnits
  <2> DEFINE H == House(b, f)
             cap == [n \in Node |-> CHOOSE k \in Nat : Room[n] = g * k]
             T == Slots(cap, M)
             d == [p \in T |-> Label[p[1]][Level]]
  <2>6. ASSUME NEW n \in Node PROVE cap[n] \in Nat /\ Room[n] = g * cap[n]
    <3>1. \E k \in Nat : Room[n] = g * k
      BY RoomInPods
    <3>2. cap[n] = CHOOSE k \in Nat : Room[n] = g * k
      OBVIOUS
    <3> HIDE DEF cap
    <3> QED BY <3>1, <3>2
  <2> HIDE DEF cap
  <2>7. ASSUME NEW s \in HeroPods
        PROVE  /\ H[s] \in D /\ H[s] = f[b[SliceOf[s]]] /\ spec[s[1]].gpu = g /\ s[1] \in SlicePodSets(spec)
               /\ spec[s[1]].slice = Level
    <3>1. s[1] \in SlicePodSets(spec)
      BY HeroPodsAre
    <3>2. spec[s[1]].gpu = g
      BY <2>4, <3>1 DEF OfSize
    <3>3. SliceOf[s] \in Slices
      BY <3>2, PodInSlice
    <3>4. b[SliceOf[s]] \in DOMAIN Units
      BY <2>5, <3>3 DEF Serves, OneToOne
    <3>5. spec[s[1]].slice = Level
      BY <3>1, SliceIsLevel
    <3> QED BY <3>1, <3>2, <3>4, <3>5 DEF House
  <2>8. \A p \in T : p[1] \in M /\ p[1] \in Node /\ p[2] \in 1..cap[p[1]]
    BY <2>1 DEF Slots
  <2>9. H \in [HeroPods -> D] /\ d \in [T -> D]
    <3>1. H = [s \in HeroPods |-> H[s]]
      BY DEF House
    <3>2. ASSUME NEW p \in T PROVE Label[p[1]][Level] \in D
      BY <2>2, <2>8 DEF At
    <3> HIDE DEF H, T
    <3> QED BY <2>7, <3>1, <3>2
  <2>10. ClassesFit(H, HeroPods, d, T, D)
    <3> SUFFICES ASSUME NEW id \in D
                 PROVE  Cardinality({s \in HeroPods : H[s] = id}) <= Cardinality({p \in T : d[p] = id})
      BY <2>9 DEF ClassesFit
    <3> DEFINE A == At(id) \cap up
    <3>1. {p \in T : d[p] = id} = Slots(cap, A)
      <4>1. A \subseteq M /\ \A n \in M : Label[n][Level] = id <=> n \in A
        BY <2>1, <2>2 DEF At
      <4>2. \A p \in T : d[p] = Label[p[1]][Level] /\ p[1] \in M
        BY <2>8
      <4> HIDE DEF d, M, A, T
      <4>3. {p \in T : d[p] = id} = {p \in T : p[1] \in A}
        BY <4>1, <4>2
      <4>4. T = {p \in M \X Nat : p[2] \in 1..cap[p[1]]} /\ Slots(cap, A) = {p \in A \X Nat : p[2] \in 1..cap[p[1]]}
        BY DEF T, Slots
      <4>5. {p \in T : p[1] \in A} = Slots(cap, A)
        BY <4>1, <4>4
      <4> QED BY <4>3, <4>5
    <3>2. id \in Ids /\ SumOver(Units, UnitsIn(f, id)) <= Free(id)
      BY <2>1, <2>3
    <3>3. Cardinality(PodsIn(b, f, id)) <= Cardinality(Slots(cap, A))
      BY <2>4, <2>5, <2>6, <3>2, DomainFits
    <3>4. {s \in HeroPods : H[s] = id} = PodsIn(b, f, id)
      BY DEF PodsIn
    <3> HIDE DEF H, T, d, A
    <3> QED BY <3>1, <3>3, <3>4
  <2>11. IsFiniteSet(T)
    <3>1. M \subseteq Node /\ IsFiniteSet(Node)
      BY <2>1, ClusterAssumption DEF ClusterAssumptions
    <3> HIDE DEF M
    <3>2. IsFiniteSet(M)
      BY <3>1, FS_Subset
    <3> QED BY <2>6, <3>1, <3>2, SlotsCounted
  <2>12. PICK m : OneToOne(m, HeroPods, T) /\ \A s \in HeroPods : d[m[s]] = H[s]
    <3>1. IsFiniteSet(HeroPods)
      BY HeroPodsAre
    <3> HIDE DEF H, T, d
    <3>2. \E m : OneToOne(m, HeroPods, T) /\ \A s \in HeroPods : d[m[s]] = H[s]
      BY <2>10, <2>11, <3>1, MatchByClass
    <3> QED BY <3>2, Zenon
  <2> DEFINE place == [s \in HeroPods |-> m[s][1]]
  <2>13. ASSUME NEW s \in HeroPods
         PROVE  /\ place[s] = m[s][1] /\ m[s] \in T /\ place[s] \in M /\ place[s] \in Node
                /\ place[s] \in At(H[s]) /\ Room[place[s]] >= g
    <3>1. m[s] \in T /\ place[s] = m[s][1]
      BY <2>12 DEF OneToOne
    <3>2. place[s] \in M /\ place[s] \in Node /\ m[s][2] \in 1..cap[place[s]]
      BY <2>8, <3>1
    <3>3. place[s] \in At(H[s])
      <4>1. d[m[s]] = Label[place[s]][Level]
        BY <3>1
      <4> QED BY <2>12, <3>2, <4>1 DEF At
    <3>4. Room[place[s]] >= g
      <4> DEFINE c == cap[place[s]]
      <4>1. c \in Nat /\ c >= 1 /\ Room[place[s]] = g * c
        BY <2>6, <3>2
      <4> HIDE DEF c
      <4>2. g * c >= g
        BY <4>1
      <4> QED BY <4>1, <4>2
    <3> QED BY <3>1, <3>2, <3>3, <3>4
  <2> HIDE DEF H, T, d, M
  <2>14. place \in [HeroPods -> M]
    <3>1. place = [s \in HeroPods |-> place[s]]
      OBVIOUS
    <3> HIDE DEF place
    <3> QED BY <2>13, <3>1
  <2> HIDE DEF place
  <2>15. Together(place)
    <3> SUFFICES ASSUME NEW s \in HeroPods, NEW t \in HeroPods, s[1] = t[1]
                 PROVE  /\ SameSlice(s, t) => Label[place[s]][spec[s[1]].slice] = Label[place[t]][spec[s[1]].slice]
                        /\ spec[s[1]].required # NoLevel
                             => Label[place[s]][spec[s[1]].required] = Label[place[t]][spec[s[1]].required]
      BY DEF Together
    <3>1. place[s] \in At(H[s]) /\ place[t] \in At(H[t]) /\ H[s] \in D /\ H[t] \in D
      BY <2>7, <2>13
    <3>2. ASSUME SameSlice(s, t)
          PROVE  Label[place[s]][spec[s[1]].slice] = Label[place[t]][spec[s[1]].slice]
      <4>1. SliceOf[s] = SliceOf[t]
        BY <3>2 DEF SameSlice, SliceOf
      <4>2. H[s] = H[t]
        BY <2>7, <4>1
      <4> QED BY <2>7, <3>1, <4>2 DEF At
    <3>3. ASSUME spec[s[1]].required # NoLevel
          PROVE  Label[place[s]][spec[s[1]].required] = Label[place[t]][spec[s[1]].required]
      <4>1. H[s] \in Ids /\ H[t] \in Ids /\ Grp(H[s]) = Grp(H[t]) /\ s[1] \in SlicePodSets(spec)
        BY <2>1, <2>7, <3>1
      <4> QED BY <3>1, <3>3, <4>1, RequiredShared
    <3> QED BY <3>2, <3>3
  <2>16. Within(place, M, Room)
    <3> SUFFICES ASSUME NEW n \in M PROVE SumOver(Need, {s \in HeroPods : place[s] = n}) <= Room[n]
      BY DEF Within
    <3> DEFINE S == {s \in HeroPods : place[s] = n}
               own == [p \in {n} |-> cap[n]]
    <3>1. n \in Node /\ S \subseteq HeroPods
      BY <2>1 DEF M
    <3>2. IsFiniteSet(Slots(cap, {n})) /\ Cardinality(Slots(cap, {n})) = cap[n]
      <4>1. IsFiniteSet({n}) /\ Cardinality({n}) = 1
        BY FS_Singleton
      <4>2. IsFiniteSet(Slots(cap, {n})) /\ Cardinality(Slots(cap, {n})) = SumOver(cap, {n})
        BY <2>6, <3>1, <4>1, SlotsCounted
      <4>3. SumOver(cap, {n}) = cap[n] * Cardinality({n})
        BY <2>6, <3>1, <4>1, SumOfEquals
      <4> QED BY <2>6, <3>1, <4>1, <4>2, <4>3
    <3> DEFINE ms == [s \in S |-> m[s]]
    <3>3. OneToOne(ms, S, Slots(cap, {n}))
      <4>1. ASSUME NEW s \in S PROVE m[s] \in Slots(cap, {n})
        BY <2>13, <3>1 DEF T, Slots
      <4>2. ASSUME NEW s \in S, NEW t \in S, m[s] = m[t] PROVE s = t
        BY <2>12, <4>2 DEF OneToOne
      <4> HIDE DEF S
      <4> QED BY <4>1, <4>2 DEF OneToOne
    <3> HIDE DEF S, ms
    <3>4. IsFiniteSet(S) /\ Cardinality(S) <= cap[n] /\ Cardinality(S) \in Nat
      BY <3>2, <3>3, OneToOneCount, FS_CardinalityType
    <3>5. \A s \in S : Need[s] = g
      BY <2>7, <3>1 DEF Need
    <3>6. SumOver(Need, S) = g * Cardinality(S)
      BY <3>4, <3>5, SumOfEquals
    <3>7. SumOver(Need, S) <= Room[n]
      <4> DEFINE a == Cardinality(S)
                 c == cap[n]
      <4>1. a \in Nat /\ c \in Nat /\ a <= c /\ SumOver(Need, S) = g * a /\ Room[n] = g * c
        BY <2>6, <3>1, <3>4, <3>6
      <4> HIDE DEF a, c
      <4>2. g * a <= g * c
        BY <4>1
      <4> QED BY <4>1, <4>2
    <3> QED BY <3>7 DEF S
  <2>17. \A s \in HeroPods : Room[place[s]] >= spec[s[1]].gpu
    BY <2>7, <2>13
  <2> QED BY <2>1, <2>14, <2>15, <2>16, <2>17, KueueAccepts DEF M
<1> QED BY <1>1, PlanTypeCorrect, RoomKept, FixedNeverEnd, PlansHaveRoom, PlansKeepOff, PTL
=============================================================================
