-------------------------- MODULE SelectionProofs --------------------------
(***************************************************************************)
(* Facts about selection that hold for every cluster, hero and             *)
(* configuration: the order by which greedy packing chooses, the slices    *)
(* that it packs, what they cost, and what packing them one by one ends    *)
(* in.                                                                     *)
(***************************************************************************)
EXTENDS DrainPlan, FoldProofs, TLAPS

\* packWithinGroup always has one best candidate: packBetter orders the domains
\* strictly and totally, whatever is selected already, so the answer does not
\* depend on the order in which the snapshot's map is walked.
THEOREM PackingIsDecided ==
  ASSUME NEW Cand \in SUBSET Int,
         NEW k \in [ok : BOOLEAN, selected : SUBSET Cand, remaining : [Cand -> Int], cost : [Cand -> Int]]
  PROVE  /\ \A a \in Cand : ~PackBetter(k, a, a)
         /\ \A a, b \in Cand : a # b => PackBetter(k, a, b) \/ PackBetter(k, b, a)
         /\ \A a, b, c \in Cand : PackBetter(k, a, b) /\ PackBetter(k, b, c) => PackBetter(k, a, c)
<1>1. \A a \in Cand : MarginalCost(k, a) \in Int /\ k.remaining[a] \in Int
  BY DEF MarginalCost
<1>2. \A a \in Cand : ~PackBetter(k, a, a)
  BY <1>1 DEF PackBetter
<1>3. \A a, b \in Cand : a # b => PackBetter(k, a, b) \/ PackBetter(k, b, a)
  BY <1>1 DEF PackBetter
<1>4. \A a, b, c \in Cand : PackBetter(k, a, b) /\ PackBetter(k, b, c) => PackBetter(k, a, c)
  BY <1>1 DEF PackBetter
<1> QED BY <1>2, <1>3, <1>4

\* Demand rounds up and no further: the slices of a podset hold all its pods,
\* and one slice fewer would not.
THEOREM SlicesHoldThePods ==
  ASSUME NEW ps, ps.size \in Nat \ {0}, ps.count \in Nat
  PROVE  /\ ChunkCount(ps) * ps.size >= ps.count
         /\ (ChunkCount(ps) - 1) * ps.size < ps.count
BY DEF ChunkCount

\* A part of a whole is between 0 and 1.
LEMMA RatioBound ==
  ASSUME NEW num \in Int, NEW den \in Int
  PROVE  Ratio(num, den) \in Nat /\ (num <= den => Ratio(num, den) <= Scale)
<1>1. Scale \in Nat
  BY ConfigAssumption DEF ValidConfig
<1>2. CASE num <= 0 \/ den <= 0
  BY <1>1, <1>2 DEF Ratio
<1>3. CASE num > 0 /\ den > 0
  <2> DEFINE x == Scale * num
             q == x \div den
  <2>1. x \in Nat /\ (num <= den => x <= Scale * den)
    BY <1>1, <1>3
  <2>2. q \in Int /\ den * q <= x /\ x < den * (q + 1)
    <3> HIDE DEF x
    <3> QED BY <1>3, <2>1
  <2>3. q >= 0
    <3> HIDE DEF q, x
    <3> QED BY <1>3, <2>1, <2>2
  <2>4. num <= den => q <= Scale
    <3> HIDE DEF q, x
    <3> QED BY <1>1, <1>3, <2>1, <2>2
  <2> QED BY <1>3, <2>2, <2>3, <2>4 DEF Ratio
<1> QED BY <1>2, <1>3

\* The weights of a valid configuration make a convex combination of three terms
\* between 0 and 1: evicting a victim of the hero's own ClusterQueue costs at
\* most 1, of another queue at most the multiplier, whatever its priority, size
\* and age.
THEOREM CostIsBounded ==
  ASSUME NEW w \in Workload, PodTotal(spec) \in Nat, since[w] \in Int, now \in Int
  PROVE  Cost(w) \in 0..((IF ClusterQueue[w] = HeroCQ THEN 1 ELSE CrossCQMultiplier) * Scale * Scale)
<1>1. Scale \in Nat /\ RuntimeHalfLife \in Nat
  BY ConfigAssumption DEF ValidConfig
<1>2. RHat(w) \in 0..Scale
  <2>1. RunningFor(w) \in Int
    BY DEF RunningFor
  <2>2. RunningFor(w) + RuntimeHalfLife \in Int /\ RunningFor(w) <= RunningFor(w) + RuntimeHalfLife
    BY <1>1, <2>1
  <2>3. RHat(w) \in Nat /\ RHat(w) <= Scale
    BY <2>1, <2>2, RatioBound DEF RHat
  <2> QED BY <1>1, <2>3
<1>3. NHat(w) \in 0..Scale
  <2>1. PodCount[w] \in Int /\ PodCount[w] + PodTotal(spec) \in Int
        /\ PodCount[w] <= PodCount[w] + PodTotal(spec)
    BY WorkloadAssumption
  <2>2. NHat(w) \in Nat /\ NHat(w) <= Scale
    BY <2>1, RatioBound DEF NHat
  <2> QED BY <1>1, <2>2
<1>4. PHat(w) \in 0..Scale
  <2>1. Ratio(Priority[w], HeroPriority) \in Nat
    BY RatioBound, WorkloadAssumption
  <2> QED BY <1>1, <2>1 DEF PHat
<1> QED BY <1>2, <1>3, <1>4, ConfigAssumption DEF Cost, ValidConfig

----------------------------------------------------------------------------
(* What selection works on: the demand, the levels, the snapshot.          *)

\* The podsets of a hero are finitely many, and so are its pods.
LEMMA PodTotalType ==
  ASSUME NEW wl \in HeroSpecs
  PROVE  IsFiniteSet(DOMAIN wl) /\ PodTotal(wl) \in Nat
<1>1. IsFiniteSet(DOMAIN wl)
  BY PlanAssumption, SeqFinite
<1> DEFINE f == [i \in DOMAIN wl |-> wl[i].count]
<1>2. \A i \in DOMAIN wl : f[i] \in Int /\ f[i] >= 0
  BY PlanAssumption
<1>3. PodTotal(wl) = SumOver(f, DOMAIN wl)
  BY DEF PodTotal, SumOver, MapThenSumSet, MapThenFoldSet
<1> HIDE DEF f
<1> QED BY <1>1, <1>2, <1>3, SumOverType

\* A demand counts units of finitely many sizes, none of them 0.
IsDemand(dem) == /\ IsFiniteSet(DOMAIN dem) /\ DOMAIN dem \subseteq Nat \ {0}
                 /\ \A s \in DOMAIN dem : dem[s] \in Nat

\* The chunks of some podsets, as a sum of a function.
LEMMA ChunkSum ==
  ASSUME NEW wl, NEW T
  PROVE  MapThenSumSet(LAMBDA i : ChunkCount(wl[i]), T) = SumOver([i \in T |-> ChunkCount(wl[i])], T)
BY DEF SumOver, MapThenSumSet, MapThenFoldSet, ChunkCount

\* What Demand computes is one.
LEMMA DemandType ==
  ASSUME NEW wl \in HeroSpecs
  PROVE  IsDemand(Demand(wl))
<1> DEFINE asking   == {i \in SlicePodSets(wl) : ChunkSize(wl[i]) > 0 /\ ChunkCount(wl[i]) > 0}
           Sized(s) == {i \in asking : ChunkSize(wl[i]) = s}
           sizes    == {ChunkSize(wl[i]) : i \in asking}
           f(s)     == [i \in Sized(s) |-> ChunkCount(wl[i])]
           g        == [i \in asking |-> ChunkSize(wl[i])]
<1>1. IsFiniteSet(asking)
  <2>1. asking \subseteq DOMAIN wl
    BY DEF SlicePodSets
  <2> HIDE DEF asking
  <2> QED BY <2>1, PodTotalType, FS_Subset
<1>2. ASSUME NEW i \in asking PROVE ChunkSize(wl[i]) \in Nat \ {0} /\ ChunkCount(wl[i]) \in Nat
  <2>1. wl[i].size \in Nat \ {0} /\ wl[i].count \in Nat /\ wl[i].gpu \in Nat
    BY PlanAssumption DEF SlicePodSets, RequiresSliceTopology
  <2>2. ChunkSize(wl[i]) > 0 /\ ChunkCount(wl[i]) > 0
    OBVIOUS
  <2>3. ChunkSize(wl[i]) \in Nat
    BY <2>1 DEF ChunkSize
  <2>4. ChunkCount(wl[i]) \in Int
    BY <2>1 DEF ChunkCount
  <2> QED BY <2>2, <2>3, <2>4
<1>3. IsFiniteSet(sizes) /\ sizes \subseteq Nat \ {0}
  <2>1. sizes = {g[i] : i \in asking}
    OBVIOUS
  <2>2. IsFiniteSet({g[i] : i \in asking})
    <3> HIDE DEF asking, g
    <3> QED BY <1>1, FiniteImage
  <2>3. sizes \subseteq Nat \ {0}
    <3> HIDE DEF asking
    <3> QED BY <1>2
  <2> QED BY <2>1, <2>2, <2>3
<1>4. ASSUME NEW s \in sizes PROVE SumOver(f(s), Sized(s)) \in Nat
  <2>1. \A i \in Sized(s) : f(s)[i] \in Int /\ f(s)[i] >= 0
    <3> HIDE DEF asking
    <3> QED BY <1>2
  <2>2. IsFiniteSet(Sized(s))
    <3>1. Sized(s) \subseteq asking
      OBVIOUS
    <3> HIDE DEF asking, Sized
    <3> QED BY <1>1, <3>1, FS_Subset
  <2> HIDE DEF f, Sized
  <2> QED BY <2>1, <2>2, SumOverType
<1>5. ASSUME NEW s \in sizes PROVE MapThenSumSet(LAMBDA i : ChunkCount(wl[i]), Sized(s)) = SumOver(f(s), Sized(s))
  BY ChunkSum
<1>6. Demand(wl) = [s \in sizes |-> MapThenSumSet(LAMBDA i : ChunkCount(wl[i]), Sized(s))]
  BY DEF Demand
<1>7. \A s \in sizes : MapThenSumSet(LAMBDA i : ChunkCount(wl[i]), Sized(s)) \in Nat
  BY <1>4, <1>5
<1> HIDE DEF sizes, Sized
<1>8. DOMAIN Demand(wl) = sizes /\ \A s \in sizes : Demand(wl)[s] \in Nat
  BY <1>6, <1>7
<1> QED BY <1>3, <1>8 DEF IsDemand

\* The sum that says where the units of a size begin.
LEMMA AtLeastSteps ==
  ASSUME NEW dem, IsDemand(dem)
  PROVE  /\ \A s \in Nat : AtLeast(dem, s) \in Nat
         /\ \A s \in DOMAIN dem : AtLeast(dem, s) = dem[s] + AtLeast(dem, s + 1)
         /\ \A s, t \in Nat : (\A u \in DOMAIN dem : u >= s <=> u >= t) => AtLeast(dem, s) = AtLeast(dem, t)
<1> DEFINE T(s) == {t \in DOMAIN dem : t >= s}
<1>1. \A s : AtLeast(dem, s) = SumOver(dem, T(s))
  BY DEF AtLeast, SumOver
<1>2. ASSUME NEW s \in Nat PROVE IsFiniteSet(T(s)) /\ \A t \in T(s) : dem[t] \in Int /\ dem[t] >= 0
  <2>1. IsFiniteSet(T(s))
    <3>1. T(s) \subseteq DOMAIN dem
      OBVIOUS
    <3> HIDE DEF T
    <3> QED BY <3>1, FS_Subset DEF IsDemand
  <2> QED BY <2>1 DEF IsDemand
<1>3. ASSUME NEW s \in Nat PROVE AtLeast(dem, s) \in Nat
  <2> HIDE DEF T
  <2> QED BY <1>1, <1>2, SumOverType
<1>4. ASSUME NEW s \in DOMAIN dem PROVE AtLeast(dem, s) = dem[s] + AtLeast(dem, s + 1)
  <2>1. s \in Nat /\ s \in T(s) /\ T(s) \ {s} = T(s + 1)
    BY DEF IsDemand
  <2> HIDE DEF T
  <2>2. SumOver(dem, T(s)) = dem[s] + SumOver(dem, T(s) \ {s})
    BY <1>2, <2>1, SumOverStep
  <2> QED BY <1>1, <2>1, <2>2
<1>5. ASSUME NEW s \in Nat, NEW t \in Nat, \A u \in DOMAIN dem : u >= s <=> u >= t
      PROVE  AtLeast(dem, s) = AtLeast(dem, t)
  <2>1. T(s) = T(t)
    BY <1>5
  <2> HIDE DEF T
  <2> QED BY <1>1, <2>1
<1> QED BY <1>3, <1>4, <1>5

\* Every unit has a size that the demand counts.
LEMMA UnitsType ==
  ASSUME NEW dem, IsDemand(dem)
  PROVE  UnitsOf(dem) \in Seq(DOMAIN dem)
<1> DEFINE A(s) == AtLeast(dem, s)
<1> USE DEF IsDemand
<1>1. A(0) \in Nat
  BY AtLeastSteps
<1>2. ASSUME NEW k \in 1..A(0) PROVE \E s \in DOMAIN dem : k <= A(s) /\ k > A(s) - dem[s]
  <2> DEFINE S == {s \in DOMAIN dem : k <= A(s)}
  <2>1. S # {}
    <3>1. CASE DOMAIN dem = {}
      <4>1. A(0) = 0
        <5>1. {t \in DOMAIN dem : t >= 0} = {}
          BY <3>1
        <5>2. A(0) = SumOver(dem, {})
          BY <5>1 DEF AtLeast, SumOver
        <5>3. SumOver(dem, {}) = 0
          BY SumOverStep, FS_EmptySet
        <5> QED BY <5>2, <5>3
      <4> QED BY <4>1
    <3>2. CASE DOMAIN dem # {}
      <4>1. PICK m \in DOMAIN dem : \A t \in DOMAIN dem : m <= t
        BY <3>2, LeastNat
      <4>2. A(m) = A(0)
        <5>1. \A u \in DOMAIN dem : u >= m <=> u >= 0
          BY <4>1
        <5> QED BY <4>1, <5>1, AtLeastSteps
      <4> QED BY <1>1, <4>1, <4>2
    <3> QED BY <3>1, <3>2
  <2>2. PICK s \in S : \A t \in S : t <= s
    <3>1. S \subseteq DOMAIN dem /\ S \subseteq Int
      OBVIOUS
    <3> HIDE DEF S
    <3>2. IsFiniteSet(S)
      BY <3>1, FS_Subset
    <3>3. Max(S) \in S /\ \A t \in S : t <= Max(S)
      BY <2>1, <3>1, <3>2, MaxMin
    <3> QED BY <3>3
  <2>3. A(s) = dem[s] + A(s + 1) /\ A(s + 1) \in Nat
    BY AtLeastSteps
  <2>4. k > A(s + 1)
    <3> DEFINE T == {t \in DOMAIN dem : t > s}
    <3>1. CASE T = {}
      <4>1. A(s + 1) = 0
        <5>1. {t \in DOMAIN dem : t >= s + 1} = {}
          BY <3>1
        <5>2. A(s + 1) = SumOver(dem, {})
          BY <5>1 DEF AtLeast, SumOver
        <5>3. SumOver(dem, {}) = 0
          BY SumOverStep, FS_EmptySet
        <5> QED BY <5>2, <5>3
      <4> QED BY <4>1
    <3>2. CASE T # {}
      <4>1. PICK m \in T : \A t \in T : m <= t
        BY <3>2, LeastNat
      <4>2. A(m) = A(s + 1)
        <5>1. \A u \in DOMAIN dem : u >= m <=> u >= s + 1
          BY <4>1
        <5> QED BY <4>1, <5>1, AtLeastSteps
      <4>3. ~ (k <= A(m))
        BY <2>2, <4>1
      <4> QED BY <2>3, <4>2, <4>3
    <3> QED BY <3>1, <3>2
  <2>5. dem[s] \in Nat /\ A(s) \in Nat /\ k <= A(s) /\ s \in DOMAIN dem
    BY <2>3
  <2>6. k > A(s) - dem[s]
    <3> HIDE DEF A
    <3> QED BY <2>3, <2>4, <2>5
  <2> QED BY <2>5, <2>6
<1>3. ASSUME NEW k \in 1..A(0)
      PROVE  (CHOOSE s \in DOMAIN dem : k <= A(s) /\ k > A(s) - dem[s]) \in DOMAIN dem
  <2> HIDE DEF A
  <2> QED BY <1>2
<1>4. UnitsOf(dem) = [k \in 1..A(0) |-> CHOOSE s \in DOMAIN dem : k <= A(s) /\ k > A(s) - dem[s]]
  BY DEF UnitsOf
<1> HIDE DEF A
<1> QED BY <1>1, <1>3, <1>4

\* The levels of a hero that resolve are levels of the hierarchy.
LEMMA LevelType ==
  ASSUME NEW L
  PROVE  /\ CoarsestLevel(L) \in Range(Levels) \cup {NoLevel}
         /\ FinestLevel(L) \in Range(Levels) \cup {NoLevel}
<1> SUFFICES ASSUME L # {}, InHierarchy(L)
             PROVE  /\ Levels[Min({Index(l) : l \in L})] \in Range(Levels)
                    /\ Levels[Max({Index(l) : l \in L})] \in Range(Levels)
  BY DEF CoarsestLevel, FinestLevel
<1> DEFINE I == {Index(l) : l \in L}
<1>1. DOMAIN Levels = 1..Len(Levels) /\ Len(Levels) \in Nat
  BY LevelsAssumption
<1>2. I \subseteq DOMAIN Levels /\ I # {}
  <2>1. ASSUME NEW l \in L PROVE Index(l) \in DOMAIN Levels
    <3>1. \E i \in DOMAIN Levels : Levels[i] = l
      BY DEF InHierarchy, Range
    <3> QED BY <3>1 DEF Index
  <2> QED BY <2>1
<1>3. IsFiniteSet(I) /\ I \subseteq Int
  <2> HIDE DEF I
  <2>1. IsFiniteSet(1..Len(Levels))
    BY <1>1, FS_Interval
  <2>2. IsFiniteSet(I)
    BY <1>1, <1>2, <2>1, FS_Subset
  <2> QED BY <1>1, <1>2, <2>2
<1>4. Min(I) \in I /\ Max(I) \in I
  <2> HIDE DEF I
  <2> QED BY <1>2, <1>3, MaxMin
<1> QED BY <1>2, <1>4 DEF Range

\* So are the levels that the snapshot is cut and grouped at.
LEMMA LevelsType ==
  ASSUME LevelsResolve
  PROVE  Level \in Range(Levels) /\ GroupLevel \in Range(Levels) \cup {NoLevel}
BY LevelType DEF LevelsResolve, Level, GroupLevel, GroupingLevel

\* What evicting workloads costs is a number.
LEMMA CostOfType ==
  ASSUME TypeOK, NEW W \in SUBSET Workload
  PROVE  CostOf(W) \in Nat
<1> DEFINE f == [w \in W |-> Cost(w)]
<1>1. CostOf(W) = SumOver(f, W)
  BY DEF SumOver, MapThenSumSet, MapThenFoldSet, CostOf
<1>2. IsFiniteSet(W)
  BY ClusterAssumption, FS_Subset DEF ClusterAssumptions
<1>3. ASSUME NEW w \in W PROVE Cost(w) \in Int /\ Cost(w) >= 0
  <2>1. PodTotal(spec) \in Nat /\ since[w] \in Int /\ now \in Int
    BY PodTotalType DEF TypeOK
  <2>2. Cost(w) \in 0..((IF ClusterQueue[w] = HeroCQ THEN 1 ELSE CrossCQMultiplier) * Scale * Scale)
    BY <2>1, CostIsBounded
  <2> QED BY <2>2
<1>4. \A w \in W : f[w] \in Int /\ f[w] >= 0
  BY <1>3
<1> HIDE DEF f
<1> QED BY <1>1, <1>2, <1>4, SumOverType

\* A snapshot: finitely many domains, with the facts that selection reads.
IsSnapshot(s) ==
  /\ IsFiniteSet(DOMAIN s) /\ DOMAIN s \subseteq Nat
  /\ \A id \in DOMAIN s :
       /\ s[id].nodes \subseteq Node /\ s[id].group \in Nat /\ s[id].victims \subseteq Pod
       /\ s[id].allocatable \in Nat /\ s[id].nonReclaimable \in Nat

\* The record that Build makes of the nodes of a domain.
LEMMA DomainType ==
  ASSUME NEW N \in SUBSET Node, NEW g \in Range(Levels) \cup {NoLevel}
  PROVE  /\ Domain(N, g).nodes = N /\ Domain(N, g).group \in Nat
         /\ Domain(N, g).victims = Counted(N, "victim") /\ Domain(N, g).hasOtherHero = HasOtherHero(N)
         /\ Domain(N, g).allocatable \in Nat /\ Domain(N, g).nonReclaimable \in Nat
<1> DEFINE usable == {n \in N : NodeUsable(n)}
           fixed == Counted(usable, "nonReclaimable")
<1> USE ClusterAssumption DEF ClusterAssumptions
<1>1. Group(N, g) \in Nat
  <2> DEFINE seen == {Label[n][g] : n \in N} \ {0}
  <2>1. g # NoLevel => seen \subseteq Nat
    OBVIOUS
  <2>2. Group(N, g) = IF g = NoLevel \/ seen = {} THEN 0 ELSE CHOOSE x \in seen : TRUE
    BY DEF Group
  <2> HIDE DEF seen
  <2> QED BY <2>1, <2>2
<1>2. MapThenSumSet(LAMBDA n : GPU[n], usable) = SumOver(GPU, usable)
  BY DEF SumOver
<1>3. MapThenSumSet(LAMBDA p : PodGPU[p], fixed) = SumOver(PodGPU, fixed)
  BY DEF SumOver
<1>4. SumOver(GPU, usable) \in Nat
  <2>1. usable \subseteq Node
    OBVIOUS
  <2> HIDE DEF usable
  <2>2. IsFiniteSet(usable) /\ \A n \in usable : GPU[n] \in Int /\ GPU[n] >= 0
    BY <2>1, FS_Subset
  <2> QED BY <2>2, SumOverType
<1>5. SumOver(PodGPU, fixed) \in Nat
  <2>1. fixed \subseteq Pod
    BY DEF Counted
  <2> HIDE DEF fixed
  <2>2. IsFiniteSet(fixed) /\ \A p \in fixed : PodGPU[p] \in Int /\ PodGPU[p] >= 0
    BY <2>1, FS_Subset
  <2> QED BY <2>2, SumOverType
<1>6. Domain(N, g) =
        [nodes |-> N, group |-> Group(N, g), allocatable |-> MapThenSumSet(LAMBDA n : GPU[n], usable),
         nonReclaimable |-> MapThenSumSet(LAMBDA p : PodGPU[p], fixed),
         victims |-> Counted(N, "victim"), hasOtherHero |-> HasOtherHero(N)]
  BY DEF Domain
<1> HIDE DEF usable, fixed
<1> QED BY <1>1, <1>2, <1>3, <1>4, <1>5, <1>6

\* Build makes a snapshot, once the hero's levels resolve.
LEMMA BuildType ==
  ASSUME LevelsResolve
  PROVE  IsSnapshot(Build)
<1> USE ClusterAssumption DEF ClusterAssumptions
<1> DEFINE f == [n \in Node |-> Label[n][Level]]
           At(id) == {n \in Node : Label[n][Level] = id}
           ids == {Label[n][Level] : n \in Node} \ {0}
<1>1. IsFiniteSet(ids)
  <2>1. IsFiniteSet({f[n] : n \in Node})
    <3> HIDE DEF f
    <3> QED BY FiniteImage
  <2>2. ids \subseteq {f[n] : n \in Node}
    OBVIOUS
  <2> HIDE DEF f, ids
  <2> QED BY <2>1, <2>2, FS_Subset
<1>2. ids \subseteq Nat
  BY LevelsType
<1>3. Build = [id \in ids |-> Domain(At(id), GroupLevel)]
  BY DEF Build
<1>4. ASSUME NEW id \in ids
      PROVE  LET dom == Domain(At(id), GroupLevel)
             IN  /\ dom.nodes \subseteq Node /\ dom.group \in Nat /\ dom.victims \subseteq Pod
                 /\ dom.allocatable \in Nat /\ dom.nonReclaimable \in Nat
  <2>1. At(id) \in SUBSET Node /\ GroupLevel \in Range(Levels) \cup {NoLevel}
    BY LevelsType
  <2> HIDE DEF At
  <2>2. Counted(At(id), "victim") \subseteq Pod
    BY DEF Counted
  <2> QED BY <2>1, <2>2, DomainType
<1> HIDE DEF ids, At
<1> QED BY <1>1, <1>2, <1>3, <1>4 DEF IsSnapshot

----------------------------------------------------------------------------
(* Packing: one unit, then all of them.                                    *)

\* A packing into the candidates C.
Packings(C) == [ok : BOOLEAN, selected : SUBSET C, remaining : [C -> Nat], cost : [C -> Nat]]

\* What a drain frees is never negative, and all of it when it is more than 0.
LEMMA ReclaimableType ==
  ASSUME NEW dom, dom.allocatable \in Nat, dom.nonReclaimable \in Nat
  PROVE  /\ Reclaimable(dom) \in Nat
         /\ Reclaimable(dom) = IF dom.allocatable > dom.nonReclaimable
                                THEN dom.allocatable - dom.nonReclaimable ELSE 0
<1> DEFINE d == dom.allocatable - dom.nonReclaimable
           S == {0, d}
<1>1. S \subseteq Int /\ S # {} /\ 0 \in S
  OBVIOUS
<1>2. IsFiniteSet(S)
  <2>1. IsFiniteSet({}) /\ IsFiniteSet({} \cup {0})
    BY FS_EmptySet, FS_AddElement
  <2>2. IsFiniteSet(({} \cup {0}) \cup {d})
    <3> HIDE DEF d
    <3> QED BY <2>1, FS_AddElement
  <2>3. S = ({} \cup {0}) \cup {d}
    OBVIOUS
  <2> QED BY <2>2, <2>3
<1>3. Reclaimable(dom) = Max(S)
  BY DEF Reclaimable
<1>4. Max(S) \in S /\ \A x \in S : x <= Max(S)
  <2> HIDE DEF S
  <2> QED BY <1>1, <1>2, MaxMin
<1>5. Max(S) = IF d > 0 THEN d ELSE 0
  <2>1. d \in Int
    OBVIOUS
  <2> HIDE DEF d
  <2> QED BY <1>4, <2>1
<1> QED BY <1>3, <1>5

\* Before the first unit: nothing is selected, all is left.
LEMMA UnpackedType ==
  ASSUME TypeOK, NEW cand, IsSnapshot(cand)
  PROVE  Unpacked(cand) \in Packings(DOMAIN cand)
<1>1. ASSUME NEW id \in DOMAIN cand
      PROVE  Reclaimable(cand[id]) \in Nat /\ CostOf(GroupVictims(cand[id])) \in Nat
  <2>1. Reclaimable(cand[id]) \in Nat
    BY ReclaimableType DEF IsSnapshot
  <2>2. GroupVictims(cand[id]) \in SUBSET Workload
    BY DEF GroupVictims, TypeOK
  <2> QED BY <2>1, <2>2, CostOfType
<1> QED BY <1>1 DEF Unpacked, Packings

\* There is one best candidate among those that a unit fits.
LEMMA BestIsBest ==
  ASSUME NEW C \in SUBSET Nat, IsFiniteSet(C), NEW k \in Packings(C), NEW F \in SUBSET C, F # {}
  PROVE  Best(k, F) \in F /\ \A b \in F \ {Best(k, F)} : PackBetter(k, Best(k, F), b)
<1> DEFINE R == {p \in F \X F : PackBetter(k, p[1], p[2])}
<1>1. \A a, b \in F : <<a, b>> \in R <=> PackBetter(k, a, b)
  OBVIOUS
<1>2. /\ \A a, b \in F : a # b => PackBetter(k, a, b) \/ PackBetter(k, b, a)
      /\ \A a, b, c \in F : PackBetter(k, a, b) /\ PackBetter(k, b, c) => PackBetter(k, a, c)
  <2>1. C \in SUBSET Int /\ k \in [ok : BOOLEAN, selected : SUBSET C, remaining : [C -> Int], cost : [C -> Int]]
    BY DEF Packings
  <2> QED BY <2>1, PackingIsDecided
<1>3. IsFiniteSet(F)
  BY FS_Subset
<1> HIDE DEF R
<1>4. /\ \A a, b \in F : a # b => <<a, b>> \in R \/ <<b, a>> \in R
      /\ \A a, b, c \in F : <<a, b>> \in R /\ <<b, c>> \in R => <<a, c>> \in R
  BY <1>1, <1>2
<1>5. PICK a \in F : \A b \in F \ {a} : <<a, b>> \in R
  BY <1>3, <1>4, FiniteLeast
<1>6. \E x \in F : \A b \in F \ {x} : PackBetter(k, x, b)
  BY <1>1, <1>5
<1> QED BY <1>6 DEF Best

\* A unit is placed whole, on one candidate that it fits, or the packing fails.
Places(k, unit, m, a) ==
  /\ k.ok /\ m.ok /\ a \in Fits(k, unit)
  /\ \A b \in Fits(k, unit) \ {a} : PackBetter(k, a, b)
  /\ m.selected = k.selected \cup {a} /\ m.cost = k.cost
  /\ m.remaining = [k.remaining EXCEPT ![a] = @ - unit]

\* What Place does with a unit: all or nothing.
LEMMA PlaceType ==
  ASSUME NEW C \in SUBSET Nat, IsFiniteSet(C), NEW k \in Packings(C), NEW unit \in Nat
  PROVE  /\ Place(k, unit) \in Packings(C)
         /\ \/ ~Place(k, unit).ok /\ (~k.ok \/ Fits(k, unit) = {})
            \/ \E a \in C : Places(k, unit, Place(k, unit), a)
<1> DEFINE F == Fits(k, unit)
           a == Best(k, F)
<1>1. F \subseteq C /\ \A id \in F : k.remaining[id] >= unit
  BY DEF Fits, Packings
<1>2. CASE ~k.ok \/ F = {}
  <2>1. Place(k, unit) = [k EXCEPT !.ok = FALSE]
    BY <1>2 DEF Place
  <2> QED BY <1>2, <2>1 DEF Packings
<1>3. CASE k.ok /\ F # {}
  <2>1. a \in F /\ \A b \in F \ {a} : PackBetter(k, a, b)
    <3> HIDE DEF F
    <3> QED BY <1>1, <1>3, BestIsBest
  <2>2. Place(k, unit) = [k EXCEPT !.remaining[a] = @ - unit, !.selected = @ \cup {a}]
    BY <1>3 DEF Place
  <2> HIDE DEF a
  <2>3. k.remaining[a] - unit \in Nat /\ a \in C
    <3>1. a \in C /\ k.remaining[a] >= unit
      BY <1>1, <2>1
    <3>2. k.remaining[a] \in Nat
      BY <3>1 DEF Packings
    <3> QED BY <3>1, <3>2
  <2>4. Place(k, unit) = [ok |-> k.ok, selected |-> k.selected \cup {a},
                          remaining |-> [k.remaining EXCEPT ![a] = k.remaining[a] - unit], cost |-> k.cost]
    BY <2>2, <2>3 DEF Packings
  <2>5. Place(k, unit) \in Packings(C)
    BY <2>3, <2>4 DEF Packings
  <2>6. Places(k, unit, Place(k, unit), a)
    BY <1>3, <2>1, <2>3, <2>4 DEF Places, Packings
  <2> QED BY <2>3, <2>5, <2>6
<1> QED BY <1>2, <1>3 DEF Packings

\* g packs the units of every subset of the units, the last one last.
Packs(g, b, units) ==
  g = [s \in SUBSET DOMAIN units |->
         IF s = {} THEN b ELSE Place(g[s \ {Max(s)}], units[Max(s)])]

\* There is such a function.
LEMMA PackExists ==
  ASSUME NEW C \in SUBSET Nat, IsFiniteSet(C), NEW b \in Packings(C), NEW units \in Seq(Nat)
  PROVE  \E g \in [SUBSET DOMAIN units -> Packings(C)] : Packs(g, b, units)
<1> DEFINE S == DOMAIN units
           c == [s \in SUBSET S |-> Max(s)]
           F == [i \in S |-> [r \in Packings(C) |-> Place(r, units[i])]]
<1>1. IsFiniteSet(S) /\ S \subseteq Int
  <2>1. IsFiniteSet(S) /\ S \subseteq Nat
    BY SeqFinite
  <2> QED BY <2>1
<1>2. \A s \in SUBSET S : s # {} => c[s] = Max(s) /\ c[s] \in s
  <2>1. ASSUME NEW s \in SUBSET S, s # {} PROVE Max(s) \in s
    <3>1. IsFiniteSet(s) /\ s \in SUBSET Int
      <4> HIDE DEF S
      <4> QED BY <1>1, FS_Subset
    <3> QED BY <2>1, <3>1, MaxMin
  <2> HIDE DEF S
  <2> QED BY <2>1
<1>3. \A i \in S, r \in Packings(C) : F[i][r] = Place(r, units[i]) /\ F[i][r] \in Packings(C)
  <2>1. \A i \in S : units[i] \in Nat
    OBVIOUS
  <2> HIDE DEF S
  <2> QED BY <2>1, PlaceType
<1> HIDE DEF S, c, F
<1>4. PICK g \in [SUBSET S -> Packings(C)] : Solution(g, S, b, c, F)
  <2>1. Recursion(S, Packings(C), b, c, F)
    BY <1>1, <1>2, <1>3 DEF Recursion
  <2> QED BY <2>1, SetRecursion
<1>5. ASSUME NEW s \in SUBSET S, s # {} PROVE g[s] = Place(g[s \ {Max(s)}], units[Max(s)])
  <2>1. c[s] = Max(s) /\ Max(s) \in S
    BY <1>2, <1>5
  <2>2. g[s] = F[Max(s)][g[s \ {Max(s)}]]
    BY <1>4, <1>5, <2>1 DEF Solution
  <2>3. g[s \ {Max(s)}] \in Packings(C)
    BY <1>4
  <2> QED BY <1>3, <2>1, <2>2, <2>3
<1>6. g[{}] = b
  BY <1>4 DEF Solution
<1>7. Packs(g, b, units)
  BY <1>4, <1>5, <1>6 DEF Packs, S
<1> QED BY <1>4, <1>7 DEF S

\* What such a function does: it stays within the packings, unit by unit.
PacksWithin(g, C, b, units) ==
  /\ g \in [SUBSET DOMAIN units -> Packings(C)] /\ g[{}] = b
  /\ \A s \in SUBSET DOMAIN units : s # {} =>
       /\ Max(s) \in s /\ units[Max(s)] \in Nat
       /\ g[s] = Place(g[s \ {Max(s)}], units[Max(s)])

\* Every such function does.
LEMMA PacksType ==
  ASSUME NEW C \in SUBSET Nat, IsFiniteSet(C), NEW b \in Packings(C), NEW units \in Seq(Nat),
         NEW g, Packs(g, b, units)
  PROVE  PacksWithin(g, C, b, units)
<1> DEFINE S == DOMAIN units
           G == {s \in SUBSET S : g[s] \in Packings(C)}
<1>1. IsFiniteSet(S) /\ S \subseteq Int
  <2>1. IsFiniteSet(S) /\ S \subseteq Nat
    BY SeqFinite
  <2> QED BY <2>1
<1>2. ASSUME NEW s \in SUBSET S, s # {} PROVE Max(s) \in s
  <2>1. IsFiniteSet(s) /\ s \in SUBSET Int
    <3> HIDE DEF S
    <3> QED BY <1>1, FS_Subset
  <2> QED BY <1>2, <2>1, MaxMin
<1>3. \A i \in S : units[i] \in Nat
  OBVIOUS
<1>4. g[{}] = b /\ \A s \in SUBSET S : s # {} => g[s] = Place(g[s \ {Max(s)}], units[Max(s)])
  BY DEF Packs
<1>5. DOMAIN g = SUBSET S /\ g = [s \in DOMAIN g |-> g[s]]
  BY DEF Packs
<1> HIDE DEF S
<1>6. {} \in G
  BY <1>4
<1>7. ASSUME NEW T \in SUBSET S, T # {}, \A x \in T : T \ {x} \in G PROVE T \in G
  <2>1. Max(T) \in T /\ units[Max(T)] \in Nat
    BY <1>2, <1>3, <1>7
  <2>2. g[T \ {Max(T)}] \in Packings(C)
    BY <1>7, <2>1
  <2>3. Place(g[T \ {Max(T)}], units[Max(T)]) \in Packings(C)
    BY <2>1, <2>2, PlaceType
  <2> QED BY <1>4, <1>7, <2>3
<1>8. \A s \in SUBSET S : g[s] \in Packings(C)
  <2> HIDE DEF G
  <2>1. SUBSET S \subseteq G
    BY <1>1, <1>6, <1>7, SubsetsInside
  <2> QED BY <2>1 DEF G
<1>9. g \in [SUBSET S -> Packings(C)]
  BY <1>5, <1>8
<1> QED BY <1>2, <1>3, <1>4, <1>9 DEF S, PacksWithin

\* What packWithinGroup returns is the value of such a function.
PackAll(b, units) == FoldLeft(Place, b, units)

\* So the fold is well defined, and goes unit by unit.
LEMMA PackAllPacks ==
  ASSUME NEW C \in SUBSET Nat, IsFiniteSet(C), NEW b \in Packings(C), NEW units \in Seq(Nat)
  PROVE  \E g : PacksWithin(g, C, b, units) /\ PackAll(b, units) = g[DOMAIN units]
<1> DEFINE it == CHOOSE g : Packs(g, b, units)
<1>1. Packs(it, b, units)
  <2>1. \E g : Packs(g, b, units)
    BY PackExists
  <2> QED BY <2>1, Zenon
<1>2. PackAll(b, units) = it[DOMAIN units]
  BY DEF PackAll, FoldLeft, MapThenFoldSet, Packs
<1>3. PacksWithin(it, C, b, units)
  <2> HIDE DEF it
  <2> QED BY <1>1, PacksType
<1> QED BY <1>2, <1>3, Zenon

\* f says where the units s went, in a packing that began as b and is k now:
\* what a candidate has left and what it was given add up to what it had, and
\* only candidates that were given something are selected.
Assigns(f, s, b, k, units) ==
  /\ f \in [s -> k.selected]
  /\ \A id \in DOMAIN b.remaining :
       SumOver(units, {i \in s : f[i] = id}) + k.remaining[id] = b.remaining[id]
  /\ \A id \in k.selected : \E i \in s : f[i] = id

\* Placing one more unit extends the assignment.
LEMMA AssignsNext ==
  ASSUME NEW C \in SUBSET Nat, IsFiniteSet(C), NEW b \in Packings(C), NEW units \in Seq(Nat),
         NEW T \in SUBSET DOMAIN units, IsFiniteSet(T), NEW x \in T,
         NEW k \in Packings(C), NEW m \in Packings(C), NEW a \in C, Places(k, units[x], m, a),
         NEW f0, Assigns(f0, T \ {x}, b, k, units)
  PROVE  \E f : Assigns(f, T, b, m, units)
<1> DEFINE f == [i \in T |-> IF i = x THEN a ELSE f0[i]]
           On(id) == {i \in T : f[i] = id}
           On0(id) == {i \in T \ {x} : f0[i] = id}
<1>1. f \in [T -> m.selected]
  BY DEF Assigns, Places
<1>2. \A id \in m.selected : \E i \in T : f[i] = id
  <2> SUFFICES ASSUME NEW id \in m.selected PROVE \E i \in T : f[i] = id
    OBVIOUS
  <2>1. CASE id = a
    BY <2>1
  <2>2. CASE id # a
    <3>1. id \in k.selected
      BY <2>2 DEF Places
    <3>2. PICK i \in T \ {x} : f0[i] = id
      BY <3>1 DEF Assigns
    <3> QED BY <3>2
  <2> QED BY <2>1, <2>2
<1>3. On(a) = On0(a) \cup {x} /\ x \notin On0(a) /\ \A id \in C \ {a} : On(id) = On0(id)
  OBVIOUS
<1>4. \A i \in T : units[i] \in Int
  OBVIOUS
<1>5. \A id \in C : IsFiniteSet(On(id)) /\ On(id) \subseteq T
  <2>1. \A id \in C : On(id) \subseteq T
    OBVIOUS
  <2> HIDE DEF On
  <2> QED BY <2>1, FS_Subset
<1>6. DOMAIN b.remaining = C
  BY DEF Packings
<1>7. \A id \in C : SumOver(units, On0(id)) + k.remaining[id] = b.remaining[id]
  BY <1>6 DEF Assigns
<1>8. \A id \in C : SumOver(units, On0(id)) \in Int
  <2>1. ASSUME NEW id \in C PROVE IsFiniteSet(On0(id)) /\ On0(id) \subseteq T
    <3>1. On0(id) \subseteq T
      OBVIOUS
    <3> HIDE DEF On0
    <3> QED BY <3>1, FS_Subset
  <2> HIDE DEF On0
  <2> QED BY <1>4, <2>1, SumOverType
<1>9. ASSUME NEW id \in C PROVE SumOver(units, On(id)) + m.remaining[id] = b.remaining[id]
  <2> HIDE DEF On, On0, f
  <2>1. CASE id = a
    <3>1. x \in On(a) /\ On(a) \ {x} = On0(a)
      BY <1>3
    <3>2. \A y \in On(a) : SumOver(units, On(a)) = units[y] + SumOver(units, On(a) \ {y})
      BY <1>4, <1>5, SumOverStep
    <3>3. SumOver(units, On(a)) = units[x] + SumOver(units, On0(a))
      BY <3>1, <3>2
    <3>4. m.remaining[a] = k.remaining[a] - units[x]
      BY DEF Places, Packings
    <3>5. k.remaining[a] \in Int /\ units[x] \in Int /\ SumOver(units, On0(a)) \in Int
      BY <1>4, <1>8 DEF Packings
    <3>6. SumOver(units, On0(a)) + k.remaining[a] = b.remaining[a]
      BY <1>7
    <3> DEFINE p == SumOver(units, On0(a))
               q == k.remaining[a]
               u == units[x]
    <3>7. (u + p) + (q - u) = p + q
      <4>1. p \in Int /\ q \in Int /\ u \in Int
        BY <3>5
      <4> HIDE DEF p, q, u
      <4> QED BY <4>1
    <3>8. SumOver(units, On(a)) + m.remaining[a] = b.remaining[a]
      BY <3>3, <3>4, <3>6, <3>7
    <3> QED BY <2>1, <3>8
  <2>2. CASE id # a
    <3>1. m.remaining[id] = k.remaining[id]
      BY <2>2 DEF Places, Packings
    <3>2. On(id) = On0(id)
      BY <1>3, <2>2
    <3> QED BY <1>7, <3>1, <3>2
  <2> QED BY <2>1, <2>2
<1>10. Assigns(f, T, b, m, units)
  <2> HIDE DEF f
  <2> QED BY <1>1, <1>2, <1>6, <1>9 DEF Assigns
<1> QED BY <1>10

\* A packing fails at a unit x that none of the candidates has room for, with
\* the units t placed before.
FailsAt(t, x, C, b, units) ==
  \E k \in Packings(C) : \E f : /\ Assigns(f, t, b, k, units)
                                 /\ \A id \in C : k.remaining[id] < units[x]

\* A packing that succeeds has a place for every unit, and one that fails stops
\* where there is none.
LEMMA PackingOutcome ==
  ASSUME NEW C \in SUBSET Nat, IsFiniteSet(C), NEW b \in Packings(C), b.selected = {}, b.ok,
         NEW units \in Seq(Nat)
  PROVE  IF PackAll(b, units).ok
         THEN \E f : Assigns(f, DOMAIN units, b, PackAll(b, units), units)
         ELSE \E x \in DOMAIN units : \E t \in SUBSET (DOMAIN units \ {x}) : FailsAt(t, x, C, b, units)
<1>1. PICK g : PacksWithin(g, C, b, units) /\ PackAll(b, units) = g[DOMAIN units]
  BY PackAllPacks
<1>2. /\ g \in [SUBSET DOMAIN units -> Packings(C)] /\ g[{}] = b
      /\ \A s \in SUBSET DOMAIN units : s # {} =>
           /\ Max(s) \in s /\ units[Max(s)] \in Nat
           /\ g[s] = Place(g[s \ {Max(s)}], units[Max(s)])
  BY <1>1 DEF PacksWithin
<1> DEFINE S == DOMAIN units
           Good(s) == IF g[s].ok THEN \E f : Assigns(f, s, b, g[s], units)
                      ELSE \E x \in s : \E t \in SUBSET (s \ {x}) : FailsAt(t, x, C, b, units)
           G == {s \in SUBSET S : Good(s)}
<1>3. IsFiniteSet(S)
  BY SeqFinite
<1>4. {} \in G
  <2> DEFINE f == [i \in {} |-> i]
  <2>1. \A id \in DOMAIN b.remaining : SumOver(units, {i \in {} : f[i] = id}) + b.remaining[id] = b.remaining[id]
    <3> SUFFICES ASSUME NEW id \in DOMAIN b.remaining
                 PROVE  SumOver(units, {i \in {} : f[i] = id}) + b.remaining[id] = b.remaining[id]
      OBVIOUS
    <3>1. {i \in {} : f[i] = id} = {}
      OBVIOUS
    <3>2. SumOver(units, {}) = 0
      BY SumOverStep, FS_EmptySet
    <3>3. b.remaining[id] \in Int
      BY DEF Packings
    <3> QED BY <3>1, <3>2, <3>3
  <2>2. Assigns(f, {}, b, b, units)
    BY <2>1 DEF Assigns
  <2> QED BY <1>2, <2>2
<1>5. ASSUME NEW T \in SUBSET S, T # {}, \A x \in T : T \ {x} \in G PROVE T \in G
  <2> DEFINE x == Max(T)
             k == g[T \ {x}]
             m == g[T]
  <2>1. x \in T /\ units[x] \in Nat /\ m = Place(k, units[x])
    BY <1>2, <1>5
  <2>2. k \in Packings(C) /\ m \in Packings(C) /\ IsFiniteSet(T)
    BY <1>2, <1>3, FS_Subset
  <2>3. Good(T \ {x})
    <3> HIDE DEF x, Good
    <3> QED BY <1>5, <2>1
  <2>4. \/ ~m.ok /\ (~k.ok \/ Fits(k, units[x]) = {})
        \/ \E a \in C : Places(k, units[x], m, a)
    <3> HIDE DEF x, k, m
    <3> QED BY <2>1, <2>2, PlaceType
  <2>5. CASE ~m.ok /\ ~k.ok
    <3>1. PICK y \in T \ {x} : \E t \in SUBSET ((T \ {x}) \ {y}) : FailsAt(t, y, C, b, units)
      BY <2>3, <2>5
    <3>2. PICK t \in SUBSET ((T \ {x}) \ {y}) : FailsAt(t, y, C, b, units)
      BY <3>1
    <3>3. y \in T /\ t \in SUBSET (T \ {y})
      OBVIOUS
    <3> HIDE DEF x, k, m
    <3> QED BY <2>5, <3>2, <3>3 DEF m
  <2>6. CASE ~m.ok /\ k.ok /\ Fits(k, units[x]) = {}
    <3>1. PICK f : Assigns(f, T \ {x}, b, k, units)
      BY <2>3, <2>6
    <3> HIDE DEF x, k
    <3>2. \A id \in C : k.remaining[id] < units[x]
      BY <2>1, <2>2, <2>6 DEF Fits, Packings
    <3>3. FailsAt(T \ {x}, x, C, b, units)
      BY <2>2, <3>1, <3>2 DEF FailsAt
    <3> QED BY <2>1, <2>6, <3>3
  <2>7. CASE \E a \in C : Places(k, units[x], m, a)
    <3>1. PICK a \in C : Places(k, units[x], m, a)
      BY <2>7
    <3>2. PICK f0 : Assigns(f0, T \ {x}, b, k, units)
      BY <2>3, <3>1 DEF Places
    <3>3. \E f : Assigns(f, T, b, m, units)
      <4> HIDE DEF x, k, m
      <4> QED BY <2>1, <2>2, <3>1, <3>2, AssignsNext
    <3>4. m.ok
      BY <3>1 DEF Places
    <3> QED BY <3>3, <3>4
  <2> QED BY <2>4, <2>5, <2>6, <2>7
<1>6. S \in G
  <2> HIDE DEF G, S
  <2> QED BY <1>3, <1>4, <1>5, SubsetsInside
<1> QED BY <1>1, <1>6

\* packBetter's comment: "a chunk that fits an already-selected domain never taints
\* an extra one".  It holds because no cost is negative, and only because ties go
\* to the domain that is in the plan.
THEOREM ChunksStayTogether ==
  ASSUME NEW C \in SUBSET Nat, IsFiniteSet(C), NEW k \in Packings(C), NEW unit \in Nat,
         k.ok, Fits(k, unit) \cap k.selected # {}
  PROVE  Place(k, unit).ok /\ Place(k, unit).selected = k.selected
<1> DEFINE F == Fits(k, unit)
           a == Best(k, F)
<1>1. F \in SUBSET C /\ F # {}
  BY DEF Fits, Packings
<1>2. a \in F /\ \A b \in F \ {a} : PackBetter(k, a, b)
  <2> HIDE DEF F
  <2> QED BY <1>1, BestIsBest
<1>3. a \in k.selected
  <2> SUFFICES ASSUME a \notin k.selected PROVE FALSE
    OBVIOUS
  <2>1. PICK b \in F : b \in k.selected
    OBVIOUS
  <2> HIDE DEF a, F
  <2>2. PackBetter(k, a, b)
    BY <1>2, <2>1
  <2>3. MarginalCost(k, a) \in Nat /\ MarginalCost(k, b) = 0
    BY <1>1, <1>2, <2>1 DEF MarginalCost, Packings
  <2> QED BY <2>1, <2>2, <2>3 DEF PackBetter
<1>4. Place(k, unit) = [k EXCEPT !.remaining[a] = @ - unit, !.selected = @ \cup {a}]
  BY <1>1 DEF Place
<1> HIDE DEF a
<1> QED BY <1>3, <1>4 DEF Packings

\* A single unit goes to the cheapest candidate that it fits.
LEMMA OneUnit ==
  ASSUME NEW C \in SUBSET Nat, IsFiniteSet(C), NEW b \in Packings(C), b.selected = {}, b.ok,
         NEW units \in Seq(Nat), Len(units) = 1
  PROVE  \A id \in C : b.remaining[id] >= units[1]
           => /\ PackAll(b, units).ok
              /\ \E a \in C : PackAll(b, units).selected = {a} /\ b.cost[a] <= b.cost[id]
<1>1. PICK g : PacksWithin(g, C, b, units) /\ PackAll(b, units) = g[DOMAIN units]
  BY PackAllPacks
<1>2. DOMAIN units = {1}
  OBVIOUS
<1> DEFINE S == {1}
<1>3. Max(S) = 1 /\ units[1] \in Nat /\ g[S] = Place(g[S \ {Max(S)}], units[Max(S)])
  <2>1. S \in SUBSET DOMAIN units /\ S # {}
    BY <1>2
  <2>2. /\ Max(S) \in S /\ units[Max(S)] \in Nat
        /\ g[S] = Place(g[S \ {Max(S)}], units[Max(S)])
    <3> HIDE DEF S
    <3> QED BY <1>1, <2>1 DEF PacksWithin
  <2>3. Max(S) = 1
    BY <2>2
  <2> QED BY <2>2, <2>3
<1>4. PackAll(b, units) = Place(b, units[1])
  <2>1. S \ {1} = {} /\ g[{}] = b
    BY <1>1 DEF PacksWithin
  <2>2. PackAll(b, units) = g[S]
    BY <1>1, <1>2
  <2> HIDE DEF S
  <2> QED BY <1>3, <2>1, <2>2
<1> SUFFICES ASSUME NEW id \in C, b.remaining[id] >= units[1]
             PROVE  /\ Place(b, units[1]).ok
                    /\ \E a \in C : Place(b, units[1]).selected = {a} /\ b.cost[a] <= b.cost[id]
  BY <1>4
<1> DEFINE u == units[1]
           F == Fits(b, u)
           a == Best(b, F)
<1>5. id \in F /\ F \in SUBSET C
  BY DEF Fits, Packings
<1>6. a \in F /\ \A c \in F \ {a} : PackBetter(b, a, c)
  <2> HIDE DEF F
  <2> QED BY <1>5, BestIsBest
<1>7. Place(b, u) = [b EXCEPT !.remaining[a] = @ - u, !.selected = @ \cup {a}]
  BY <1>5 DEF Place
<1> HIDE DEF a
<1>8. Place(b, u).ok /\ Place(b, u).selected = {a}
  BY <1>7 DEF Packings
<1>9. b.cost[a] <= b.cost[id]
  <2> HIDE DEF F
  <2>1. b.cost[a] \in Nat /\ b.cost[id] \in Nat
    BY <1>5, <1>6 DEF Packings
  <2>2. a # id => PackBetter(b, a, id)
    BY <1>5, <1>6
  <2> QED BY <2>1, <2>2 DEF PackBetter, MarginalCost
<1> QED BY <1>5, <1>6, <1>8, <1>9

\* How far a packing that began as b has got with units of size u: the domains that
\* are not selected are untouched and come after the selected ones, and a domain
\* was opened only when every better one was full.
InOrder(k, b, C, u) ==
  /\ k.cost = b.cost
  /\ \A x \in C \ k.selected : k.remaining[x] = b.remaining[x]
  /\ \A a \in k.selected : b.remaining[a] >= u
  /\ \A a \in k.selected, x \in C \ k.selected : b.remaining[x] >= u => PackBetter(b, a, x)
  /\ \A a, x \in k.selected : PackBetter(b, a, x) => k.remaining[a] < u

\* Placing one more unit keeps to the order.
LEMMA OrderNext ==
  ASSUME NEW C \in SUBSET Nat, IsFiniteSet(C), NEW b \in Packings(C), b.selected = {},
         NEW u \in Nat \ {0}, NEW k \in Packings(C), NEW m \in Packings(C), NEW a \in C,
         Places(k, u, m, a), InOrder(k, b, C, u)
  PROVE  InOrder(m, b, C, u)
<1>1. /\ \A x, y \in C : x # y => PackBetter(b, x, y) \/ PackBetter(b, y, x)
      /\ \A x, y \in C : PackBetter(b, x, y) => ~PackBetter(b, y, x)
  <2>1. C \in SUBSET Int /\ b \in [ok : BOOLEAN, selected : SUBSET C, remaining : [C -> Int], cost : [C -> Int]]
    BY DEF Packings
  <2>2. /\ \A x \in C : ~PackBetter(b, x, x)
        /\ \A x, y \in C : x # y => PackBetter(b, x, y) \/ PackBetter(b, y, x)
        /\ \A x, y, z \in C : PackBetter(b, x, y) /\ PackBetter(b, y, z) => PackBetter(b, x, z)
    BY <2>1, PackingIsDecided
  <2> QED BY <2>2
<1>2. /\ k.selected \subseteq C /\ m.selected = k.selected \cup {a} /\ m.cost = k.cost
      /\ k.remaining[a] >= u /\ m.remaining[a] < k.remaining[a]
      /\ \A x \in C \ {a} : m.remaining[x] = k.remaining[x]
      /\ \A x \in C : x # a /\ k.remaining[x] >= u => PackBetter(k, a, x)
      /\ \A x \in C : b.remaining[x] \in Nat /\ k.remaining[x] \in Nat /\ b.cost[x] \in Nat
  <2>1. a \in Fits(k, u) /\ \A x \in C : k.remaining[x] >= u => x \in Fits(k, u)
    BY DEF Places, Fits, Packings
  <2>2. k.remaining[a] >= u /\ m.remaining[a] = k.remaining[a] - u /\ k.remaining[a] \in Nat
    BY <2>1 DEF Places, Fits, Packings
  <2>3. \A x \in C \ {a} : m.remaining[x] = k.remaining[x]
    BY DEF Places, Packings
  <2> QED BY <2>1, <2>2, <2>3 DEF Places, Packings
<1>3. CASE a \in k.selected
  <2>1. m.selected = k.selected
    BY <1>2, <1>3
  <2>2. ASSUME NEW x \in k.selected, NEW y \in k.selected, PackBetter(b, x, y) PROVE m.remaining[x] < u
    <3>1. k.remaining[x] < u
      BY <2>2 DEF InOrder
    <3>2. x \in C
      BY <1>2
    <3> QED BY <1>2, <3>1, <3>2
  <2> QED BY <1>2, <1>3, <2>1, <2>2 DEF InOrder
<1>4. CASE a \notin k.selected
  <2>1. b.remaining[a] >= u
    BY <1>2, <1>4 DEF InOrder
  <2>2. ASSUME NEW x \in k.selected PROVE k.remaining[x] < u
    <3>1. x # a /\ x \in C
      BY <1>2, <1>4
    <3>2. ~PackBetter(k, a, x)
      BY <1>2, <1>4, <3>1 DEF PackBetter, MarginalCost, InOrder
    <3> QED BY <1>2, <3>1, <3>2
  <2>3. ASSUME NEW x \in C \ m.selected, b.remaining[x] >= u PROVE PackBetter(b, a, x)
    <3>1. x \in C /\ x \notin k.selected /\ x # a /\ k.remaining[x] = b.remaining[x] /\ k.remaining[a] = b.remaining[a]
      BY <1>2, <1>4 DEF InOrder
    <3>2. PackBetter(k, a, x)
      BY <1>2, <2>3, <3>1
    <3> QED BY <1>2, <1>4, <3>1, <3>2 DEF PackBetter, MarginalCost, InOrder
  <2>4. \A y \in m.selected, x \in C \ m.selected : b.remaining[x] >= u => PackBetter(b, y, x)
    BY <1>2, <2>3 DEF InOrder
  <2>5. ASSUME NEW x \in m.selected, NEW y \in m.selected, PackBetter(b, x, y) PROVE m.remaining[x] < u
    <3>1. CASE x = a
      <4>1. CASE y = a
        BY <1>1, <2>5, <3>1, <4>1
      <4>2. CASE y # a
        <5>1. y \in k.selected /\ y \in C
          BY <1>2, <4>2
        <5>2. PackBetter(b, y, a)
          BY <1>2, <1>4, <2>1, <5>1 DEF InOrder
        <5> QED BY <1>1, <2>5, <3>1, <5>1, <5>2
      <4> QED BY <4>1, <4>2
    <3>2. CASE x # a
      BY <1>2, <2>2, <3>2
    <3> QED BY <3>1, <3>2
  <2> QED BY <1>2, <1>4, <2>1, <2>4, <2>5 DEF InOrder
<1> QED BY <1>3, <1>4

\* So a packing of equal units has opened the domains in the order of PackBetter.
LEMMA PackingOrder ==
  ASSUME NEW C \in SUBSET Nat, IsFiniteSet(C), NEW b \in Packings(C), b.selected = {},
         NEW units \in Seq(Nat), NEW u \in Nat \ {0}, \A i \in DOMAIN units : units[i] = u
  PROVE  InOrder(PackAll(b, units), b, C, u)
<1>1. PICK g : PacksWithin(g, C, b, units) /\ PackAll(b, units) = g[DOMAIN units]
  BY PackAllPacks
<1>2. /\ g \in [SUBSET DOMAIN units -> Packings(C)] /\ g[{}] = b
      /\ \A s \in SUBSET DOMAIN units : s # {} =>
           /\ Max(s) \in s /\ units[Max(s)] \in Nat
           /\ g[s] = Place(g[s \ {Max(s)}], units[Max(s)])
  BY <1>1 DEF PacksWithin
<1> DEFINE S == DOMAIN units
           G == {s \in SUBSET S : InOrder(g[s], b, C, u)}
<1>3. IsFiniteSet(S)
  BY SeqFinite
<1>4. {} \in G
  BY <1>2 DEF InOrder
<1>5. ASSUME NEW T \in SUBSET S, T # {}, \A x \in T : T \ {x} \in G PROVE T \in G
  <2> DEFINE x == Max(T)
             k == g[T \ {x}]
             m == g[T]
  <2>1. x \in T /\ units[x] = u /\ m = Place(k, u)
    <3>1. x \in T /\ m = Place(k, units[x])
      BY <1>2, <1>5
    <3>2. units[x] = u
      <4> HIDE DEF x
      <4> QED BY <3>1
    <3> QED BY <3>1, <3>2
  <2>2. k \in Packings(C) /\ m \in Packings(C)
    BY <1>2
  <2>3. InOrder(k, b, C, u)
    <3> HIDE DEF x
    <3> QED BY <1>5, <2>1
  <2> HIDE DEF x, k
  <2>4. \/ ~m.ok /\ (~k.ok \/ Fits(k, u) = {})
        \/ \E a \in C : Places(k, u, m, a)
    <3> HIDE DEF m
    <3> QED BY <2>1, <2>2, PlaceType
  <2>5. CASE ~m.ok /\ (~k.ok \/ Fits(k, u) = {})
    <3>1. m = [k EXCEPT !.ok = FALSE]
      BY <2>1, <2>5 DEF Place
    <3>2. m.selected = k.selected /\ m.remaining = k.remaining /\ m.cost = k.cost
      BY <2>2, <3>1 DEF Packings
    <3>3. InOrder(m, b, C, u)
      <4> HIDE DEF m
      <4> QED BY <2>3, <3>2 DEF InOrder
    <3> QED BY <3>3
  <2>6. CASE \E a \in C : Places(k, u, m, a)
    <3>1. PICK a \in C : Places(k, u, m, a)
      BY <2>6
    <3>2. InOrder(m, b, C, u)
      <4> HIDE DEF m
      <4> QED BY <2>2, <2>3, <3>1, OrderNext
    <3> QED BY <3>2
  <2> QED BY <2>4, <2>5, <2>6
<1>6. S \in G
  <2> HIDE DEF G, S
  <2> QED BY <1>3, <1>4, <1>5, SubsetsInside
<1> QED BY <1>1, <1>6

\* f spreads the units over the candidates C without giving one more than it has.
Spreads(f, C, b, units) ==
  /\ f \in [DOMAIN units -> C]
  /\ \A id \in C : SumOver(units, {i \in DOMAIN units : f[i] = id}) <= b.remaining[id]

\* Slices S of size u that can be spread over C (by f), and units of that size (t)
\* that have filled C (by h).
FillsFor(S, f, t, h, C, had, left, units, u) ==
  /\ f \in [S -> C] /\ h \in [t -> C]
  /\ \A id \in C :
       /\ left[id] \in Nat /\ left[id] < u
       /\ u * Cardinality({x \in S : f[x] = id}) <= had[id]
       /\ SumOver(units, {i \in t : h[i] = id}) + left[id] = had[id]

\* The units are as many as the slices: no candidate has room for one more.
LEMMA FullMeansAsMany ==
  ASSUME NEW C, IsFiniteSet(C), NEW units \in Seq(Nat), NEW u \in Nat \ {0},
         \A i \in DOMAIN units : units[i] = u, NEW t \in SUBSET DOMAIN units, NEW S, IsFiniteSet(S),
         NEW f, NEW h, NEW had, NEW left, FillsFor(S, f, t, h, C, had, left, units, u)
  PROVE  Cardinality(S) <= Cardinality(t)
<1>1. IsFiniteSet(t)
  <2>1. IsFiniteSet(DOMAIN units)
    BY SeqFinite
  <2> QED BY <2>1, FS_Subset
<1>2. ASSUME NEW id \in C PROVE Cardinality({i \in S : f[i] = id}) <= Cardinality({i \in t : h[i] = id})
  <2> DEFINE A == {i \in S : f[i] = id}
             B == {i \in t : h[i] = id}
             p == Cardinality(A)
             q == Cardinality(B)
             r == left[id]
  <2>1. A \in SUBSET S /\ B \in SUBSET t /\ \A i \in B : units[i] = u
    OBVIOUS
  <2>2. u * p <= had[id] /\ SumOver(units, B) + r = had[id] /\ r < u /\ r \in Nat
    BY DEF FillsFor
  <2> HIDE DEF A, B
  <2>3. IsFiniteSet(A) /\ IsFiniteSet(B)
    BY <1>1, <2>1, FS_Subset
  <2>4. SumOver(units, B) = u * q
    BY <2>1, <2>3, SumOfEquals
  <2>5. p \in Nat /\ q \in Nat /\ r \in Nat
    BY <2>2, <2>3, FS_CardinalityType
  <2>6. u * p <= u * q + r
    BY <2>2, <2>4
  <2> HIDE DEF p, q, r
  <2>7. p <= q
    <3> SUFFICES ASSUME p >= q + 1 PROVE FALSE
      BY <2>5
    <3>1. u * p >= u * (q + 1)
      BY <2>5
    <3>2. u * (q + 1) = u * q + u
      BY <2>5
    <3>3. u * p \in Int /\ u * q \in Int
      BY <2>5
    <3> QED BY <2>2, <2>5, <2>6, <3>1, <3>2, <3>3
  <2> QED BY <2>7 DEF p, q, A, B
<1>3. ClassesFit(f, S, h, t, C)
  BY <1>2 DEF ClassesFit, FillsFor
<1> QED BY <1>1, <1>3, CountByClass

\* Some units fewer than all of them.
LEMMA PartIsFewer ==
  ASSUME NEW units \in Seq(Nat), NEW x \in DOMAIN units, NEW t \in SUBSET DOMAIN units, x \notin t
  PROVE  Cardinality(t) < Len(units)
<1> DEFINE S == DOMAIN units
<1>1. IsFiniteSet(S) /\ Cardinality(S) = Len(units)
  BY SeqFinite, SeqCardinality
<1>2. t \subseteq S \ {x} /\ x \in S
  OBVIOUS
<1> HIDE DEF S
<1>3. IsFiniteSet(S \ {x}) /\ Cardinality(S \ {x}) = Cardinality(S) - 1 /\ Cardinality(S) \in Nat
  BY <1>1, <1>2, FS_RemoveElement, FS_CardinalityType
<1>4. Cardinality(t) <= Cardinality(S \ {x}) /\ Cardinality(t) \in Nat
  BY <1>2, <1>3, FS_Subset, FS_CardinalityType
<1> QED BY <1>1, <1>3, <1>4

\* Units of one size u that can be spread over C (by f), and some of them (t) that
\* have filled C (by h): the latter are all of them.
Fills(t, f, h, C, had, left, units, u) ==
  /\ f \in [DOMAIN units -> C] /\ h \in [t -> C]
  /\ \A id \in C :
       /\ left[id] \in Nat /\ left[id] < u
       /\ SumOver(units, {i \in DOMAIN units : f[i] = id}) <= had[id]
       /\ SumOver(units, {i \in t : h[i] = id}) + left[id] = had[id]

LEMMA FullMeansAll ==
  ASSUME NEW C, IsFiniteSet(C), NEW units \in Seq(Nat), NEW u \in Nat \ {0},
         \A i \in DOMAIN units : units[i] = u, NEW t \in SUBSET DOMAIN units,
         NEW f, NEW h, NEW had, NEW left, Fills(t, f, h, C, had, left, units, u)
  PROVE  t = DOMAIN units
<1> DEFINE S == DOMAIN units
<1>1. IsFiniteSet(S) /\ Cardinality(S) = Len(units)
  BY SeqFinite, SeqCardinality
<1>2. ASSUME NEW id \in C PROVE u * Cardinality({i \in S : f[i] = id}) <= had[id]
  <2> DEFINE A == {i \in S : f[i] = id}
  <2>1. A \in SUBSET S /\ (\A i \in A : units[i] = u) /\ SumOver(units, A) <= had[id]
    BY DEF Fills
  <2> HIDE DEF A, S
  <2>2. IsFiniteSet(A)
    BY <1>1, <2>1, FS_Subset
  <2>3. SumOver(units, A) = u * Cardinality(A)
    BY <2>1, <2>2, SumOfEquals
  <2> QED BY <2>1, <2>3 DEF A
<1>3. FillsFor(S, f, t, h, C, had, left, units, u)
  BY <1>2 DEF Fills, FillsFor
<1>4. Cardinality(S) <= Cardinality(t) /\ Cardinality(t) \in Nat /\ IsFiniteSet(t)
  <2>1. IsFiniteSet(t)
    BY <1>1, FS_Subset
  <2> HIDE DEF S
  <2> QED BY <1>1, <1>3, <2>1, FullMeansAsMany, FS_CardinalityType
<1>5. ASSUME NEW x \in DOMAIN units, x \notin t PROVE FALSE
  BY <1>1, <1>4, <1>5, PartIsFewer
<1> QED BY <1>5

\* f gives no candidate more slices of size u than it has room for.
Counts(f, S, C, b, u) ==
  f \in [S -> C] /\ \A id \in C : u * Cardinality({x \in S : f[x] = id}) <= b.remaining[id]

\* Greedy packing is complete for units of one size: it places as many of them as
\* there are slices that fit in some way.
LEMMA CountedPacking ==
  ASSUME NEW C \in SUBSET Nat, IsFiniteSet(C), NEW b \in Packings(C), b.selected = {}, b.ok,
         NEW units \in Seq(Nat), NEW u \in Nat \ {0}, \A i \in DOMAIN units : units[i] = u,
         NEW S, IsFiniteSet(S), Len(units) <= Cardinality(S), NEW f, Counts(f, S, C, b, u)
  PROVE  PackAll(b, units).ok
<1> SUFFICES ASSUME ~PackAll(b, units).ok PROVE FALSE
  OBVIOUS
<1>1. PICK x \in DOMAIN units, t \in SUBSET DOMAIN units : x \notin t /\ FailsAt(t, x, C, b, units)
  BY PackingOutcome
<1>2. PICK k \in Packings(C) :
        \E h : Assigns(h, t, b, k, units) /\ \A id \in C : k.remaining[id] < units[x]
  BY <1>1 DEF FailsAt
<1>3. PICK h : Assigns(h, t, b, k, units) /\ \A id \in C : k.remaining[id] < units[x]
  BY <1>2
<1>4. FillsFor(S, f, t, h, C, b.remaining, k.remaining, units, u)
  BY <1>3 DEF FillsFor, Counts, Assigns, Packings
<1>5. Cardinality(S) <= Cardinality(t)
  BY <1>4, FullMeansAsMany
<1>6. Cardinality(t) < Len(units)
  BY <1>1, PartIsFewer
<1>7. Cardinality(S) \in Nat /\ Cardinality(t) \in Nat /\ Len(units) \in Nat
  <2>1. IsFiniteSet(DOMAIN units)
    BY SeqFinite
  <2>2. IsFiniteSet(t)
    BY <2>1, FS_Subset
  <2> QED BY <2>2, FS_CardinalityType
<1> QED BY <1>5, <1>6, <1>7

\* Or as many as can be spread.
LEMMA UniformPacking ==
  ASSUME NEW C \in SUBSET Nat, IsFiniteSet(C), NEW b \in Packings(C), b.selected = {}, b.ok,
         NEW units \in Seq(Nat), NEW u \in Nat \ {0}, \A i \in DOMAIN units : units[i] = u,
         NEW f, Spreads(f, C, b, units)
  PROVE  PackAll(b, units).ok
<1> SUFFICES ASSUME ~PackAll(b, units).ok PROVE FALSE
  OBVIOUS
<1>1. PICK x \in DOMAIN units, t \in SUBSET DOMAIN units : x \notin t /\ FailsAt(t, x, C, b, units)
  BY PackingOutcome
<1>2. PICK k \in Packings(C) :
        \E h : Assigns(h, t, b, k, units) /\ \A id \in C : k.remaining[id] < units[x]
  BY <1>1 DEF FailsAt
<1>3. PICK h : Assigns(h, t, b, k, units) /\ \A id \in C : k.remaining[id] < units[x]
  BY <1>2
<1>4. Fills(t, f, h, C, b.remaining, k.remaining, units, u)
  BY <1>3 DEF Fills, Spreads, Assigns, Packings
<1>5. t = DOMAIN units
  BY <1>4, FullMeansAll
<1> QED BY <1>1, <1>5

\* A packing into C at its beginning, units of one size, and domains T that come
\* before all others with room for one.
Begun(b, C) == /\ C \in SUBSET Nat /\ IsFiniteSet(C)
               /\ b \in Packings(C) /\ b.selected = {} /\ b.ok

Alike(units, u) == /\ units \in Seq(Nat) /\ u \in Nat \ {0}
                   /\ \A i \in DOMAIN units : units[i] = u

Preferred(T, C, b, u) == \A a \in T, x \in C \ T : b.remaining[x] >= u => PackBetter(b, a, x)

\* If T has room for equal units it is all that packing needs.
LEMMA PackInside ==
  ASSUME NEW C, NEW b, Begun(b, C), NEW units, NEW u, Alike(units, u),
         NEW T \in SUBSET C, NEW f, Spreads(f, T, b, units), Preferred(T, C, b, u)
  PROVE  PackAll(b, units).ok /\ PackAll(b, units).selected \subseteq T
<1> USE DEF Begun, Alike, Preferred
<1> DEFINE S == DOMAIN units
           k == PackAll(b, units)
<1>0. /\ f \in [DOMAIN units -> T]
      /\ \A id \in T : SumOver(units, {i \in DOMAIN units : f[i] = id}) <= b.remaining[id]
  BY DEF Spreads
<1>1. k.ok
  <2>1. ASSUME NEW id \in C \ T PROVE SumOver(units, {i \in S : f[i] = id}) <= b.remaining[id]
    <3>1. {i \in S : f[i] = id} = {}
      BY <1>0
    <3>2. SumOver(units, {}) = 0
      BY SumOverStep, FS_EmptySet
    <3>3. b.remaining[id] \in Nat
      BY DEF Packings
    <3>4. SumOver(units, {i \in S : f[i] = id}) = 0
      BY <3>1, <3>2, Zenon
    <3> QED BY <3>3, <3>4
  <2>2. Spreads(f, C, b, units)
    BY <1>0, <2>1 DEF Spreads
  <2> QED BY <2>2, UniformPacking
<1>2. PICK h : Assigns(h, S, b, k, units)
  BY <1>1, PackingOutcome
<1>3. InOrder(k, b, C, u)
  BY PackingOrder
<1>4. k \in Packings(C)
  <2>1. PICK g : PacksWithin(g, C, b, units) /\ PackAll(b, units) = g[DOMAIN units]
    BY PackAllPacks
  <2> QED BY <2>1 DEF PacksWithin
<1> HIDE DEF k
<1>5. \A x, y \in C : PackBetter(b, x, y) => ~PackBetter(b, y, x)
  <2>1. C \in SUBSET Int /\ b \in [ok : BOOLEAN, selected : SUBSET C, remaining : [C -> Int], cost : [C -> Int]]
    BY DEF Packings
  <2>2. /\ \A x \in C : ~PackBetter(b, x, x)
        /\ \A x, y, z \in C : PackBetter(b, x, y) /\ PackBetter(b, y, z) => PackBetter(b, x, z)
    BY <2>1, PackingIsDecided
  <2> QED BY <2>2
<1>6. ASSUME NEW x \in k.selected, x \notin T PROVE FALSE
  <2> DEFINE t == {i \in S : h[i] \in T}
             e == [i \in t |-> h[i]]
  <2>1. x \in C /\ b.remaining[x] >= u /\ DOMAIN b.remaining = C
    BY <1>3, <1>4 DEF InOrder, Packings
  <2>2. ASSUME NEW a \in T PROVE k.remaining[a] < u /\ k.remaining[a] \in Nat
    <3>1. PackBetter(b, a, x) /\ a \in C
      BY <1>6, <2>1
    <3>2. k.remaining[a] \in Nat /\ b.remaining[a] \in Nat
      BY <1>4, <3>1 DEF Packings
    <3>3. CASE a \in k.selected
      BY <1>3, <1>6, <3>1, <3>2, <3>3 DEF InOrder
    <3>4. CASE a \notin k.selected
      <4>1. ~ (b.remaining[a] >= u)
        BY <1>3, <1>5, <1>6, <2>1, <3>1, <3>4 DEF InOrder
      <4>2. k.remaining[a] = b.remaining[a]
        BY <1>3, <3>1, <3>4 DEF InOrder
      <4> QED BY <3>2, <4>1, <4>2
    <3> QED BY <3>2, <3>3, <3>4
  <2>3. ASSUME NEW id \in T
        PROVE  SumOver(units, {i \in t : e[i] = id}) + k.remaining[id] = b.remaining[id]
    <3>1. {i \in t : e[i] = id} = {i \in S : h[i] = id}
      OBVIOUS
    <3>2. SumOver(units, {i \in S : h[i] = id}) + k.remaining[id] = b.remaining[id]
      BY <1>2, <2>1 DEF Assigns
    <3> QED BY <3>1, <3>2
  <2>4. Fills(t, f, e, T, b.remaining, k.remaining, units, u)
    <3>1. e \in [t -> T] /\ f \in [DOMAIN units -> T]
      BY <1>0
    <3> HIDE DEF t, e
    <3> QED BY <1>0, <2>2, <2>3, <3>1 DEF Fills
  <2>5. IsFiniteSet(T)
    BY FS_Subset
  <2>6. t = S
    <3>1. t \in SUBSET DOMAIN units
      OBVIOUS
    <3> HIDE DEF t, e, S
    <3> QED BY <2>4, <2>5, <3>1, FullMeansAll DEF S
  <2>7. PICK i \in S : h[i] = x
    BY <1>2, <1>6 DEF Assigns
  <2> QED BY <1>6, <2>6, <2>7
<1> QED BY <1>1, <1>6 DEF k

----------------------------------------------------------------------------
(* The choice among the groups.                                            *)

\* The candidates of a group, and what packWithinGroup makes of them.
Candidates(s) == {id \in DOMAIN s : Feasible(s[id])}

GroupIds(s, g) == {id \in Candidates(s) : s[id].group = g}

Groups(s) == {s[id].group : id \in Candidates(s)}

Packed(s, g) == PackWithinGroup(Restrict(s, GroupIds(s, g)), Units)

\* The units of a hero are numbers, and none is 0.
LEMMA HeroUnits ==
  ASSUME TypeOK
  PROVE  Units \in Seq(Nat) /\ \A i \in DOMAIN Units : Units[i] > 0
<1> DEFINE dem == Demand(spec)
<1>1. IsDemand(dem)
  BY DemandType DEF TypeOK
<1>2. Units \in Seq(DOMAIN dem)
  BY <1>1, UnitsType DEF Units
<1>3. DOMAIN dem \subseteq Nat \ {0}
  BY <1>1 DEF IsDemand
<1> HIDE DEF dem
<1> QED BY <1>2, <1>3

\* A group is a smaller snapshot, and what it is packed into is a packing.
LEMMA PackedType ==
  ASSUME TypeOK, NEW s, IsSnapshot(s), NEW g
  PROVE  LET C == GroupIds(s, g)
             b == Unpacked(Restrict(s, C))
         IN  /\ C \in SUBSET Nat /\ IsFiniteSet(C) /\ C \subseteq DOMAIN s
             /\ b \in Packings(C) /\ b.selected = {} /\ b.ok
             /\ \A id \in C : /\ b.remaining[id] = Reclaimable(s[id])
                              /\ b.cost[id] = CostOf(GroupVictims(s[id]))
             /\ Packed(s, g) = PackAll(b, Units) /\ Packed(s, g) \in Packings(C)
<1> DEFINE C == GroupIds(s, g)
           r == Restrict(s, C)
           b == Unpacked(r)
<1>1. C \subseteq DOMAIN s
  BY DEF GroupIds, Candidates
<1> HIDE DEF C
<1>2. C \in SUBSET Nat /\ IsFiniteSet(C)
  BY <1>1, FS_Subset DEF IsSnapshot
<1>3. DOMAIN r = C /\ \A id \in C : r[id] = s[id]
  BY DEF Restrict
<1>4. IsSnapshot(r)
  <2> HIDE DEF r
  <2> QED BY <1>1, <1>2, <1>3 DEF IsSnapshot
<1>5. b \in Packings(C)
  <2> HIDE DEF r
  <2> QED BY <1>3, <1>4, UnpackedType
<1>6. /\ b.selected = {} /\ b.ok
      /\ \A id \in C : b.remaining[id] = Reclaimable(s[id]) /\ b.cost[id] = CostOf(GroupVictims(s[id]))
  <2> HIDE DEF r
  <2> QED BY <1>3 DEF Unpacked
<1>7. Packed(s, g) = PackAll(b, Units)
  BY DEF Packed, PackWithinGroup, PackAll, C
<1>8. PackAll(b, Units) \in Packings(C)
  <2> HIDE DEF b
  <2>1. PICK f : PacksWithin(f, C, b, Units) /\ PackAll(b, Units) = f[DOMAIN Units]
    BY <1>2, <1>5, HeroUnits, PackAllPacks
  <2> QED BY <2>1 DEF PacksWithin
<1> QED BY <1>1, <1>2, <1>5, <1>6, <1>7, <1>8 DEF C

\* What SelectDomains returns is the packing of one group, the first of the
\* cheapest ones that succeed.
LEMMA SelectsCheapestGroup ==
  ASSUME TypeOK, NEW s, IsSnapshot(s), SelectDomains(s) # {}
  PROVE  \E g \in Groups(s) :
           /\ Packed(s, g).ok /\ SelectDomains(s) = Packed(s, g).selected
           /\ \A h \in Groups(s) : Packed(s, h).ok
                => \/ TotalCost(s, SelectDomains(s)) < TotalCost(s, Packed(s, h).selected)
                   \/ TotalCost(s, SelectDomains(s)) = TotalCost(s, Packed(s, h).selected) /\ g <= h
<1> DEFINE packed == {<<g, Packed(s, g)>> : g \in Groups(s)}
           Plan(k) == [group |-> k[1], domains |-> k[2].selected, total |-> TotalCost(s, k[2].selected)]
           plans == {Plan(k) : k \in {k \in packed : k[2].ok}}
           Wins(a) == \A b \in plans : a.total < b.total \/ (a.total = b.total /\ a.group <= b.group)
<1>1. SelectDomains(s) = UNION {a.domains : a \in {a \in plans : Wins(a)}}
  BY DEF SelectDomains, Groups, Packed, GroupIds, Candidates
<1>2. ASSUME NEW g \in Groups(s) PROVE g \in Nat /\ Packed(s, g).selected \subseteq DOMAIN s
  <2>1. g \in Nat
    BY DEF Groups, Candidates, IsSnapshot
  <2>2. GroupIds(s, g) \subseteq DOMAIN s /\ Packed(s, g) \in Packings(GroupIds(s, g))
    BY PackedType
  <2> QED BY <2>1, <2>2 DEF Packings
<1>3. ASSUME NEW D \in SUBSET DOMAIN s PROVE TotalCost(s, D) \in Nat
  <2>1. UNION {GroupVictims(s[id]) : id \in D} \in SUBSET Workload
    BY DEF GroupVictims, TypeOK
  <2> QED BY <2>1, CostOfType DEF TotalCost
<1>4. \A a \in plans : \E g \in Groups(s) :
        /\ Packed(s, g).ok /\ a.group = g /\ a.domains = Packed(s, g).selected
        /\ a.total = TotalCost(s, Packed(s, g).selected) /\ a.total \in Nat /\ g \in Nat
  <2> SUFFICES ASSUME NEW g \in Groups(s), Packed(s, g).ok
               PROVE  LET a == Plan(<<g, Packed(s, g)>>)
                      IN  /\ a.group = g /\ a.domains = Packed(s, g).selected
                          /\ a.total = TotalCost(s, Packed(s, g).selected) /\ a.total \in Nat /\ g \in Nat
    OBVIOUS
  <2> QED BY <1>2, <1>3
<1>5. \A g \in Groups(s) : Packed(s, g).ok =>
        \E a \in plans : a.group = g /\ a.total = TotalCost(s, Packed(s, g).selected)
  <2> SUFFICES ASSUME NEW g \in Groups(s), Packed(s, g).ok
               PROVE  \E a \in plans : a.group = g /\ a.total = TotalCost(s, Packed(s, g).selected)
    OBVIOUS
  <2>1. Plan(<<g, Packed(s, g)>>) \in plans
    OBVIOUS
  <2> QED BY <2>1
<1> HIDE DEF plans
<1>6. PICK a \in plans : Wins(a)
  BY <1>1
<1>7. PICK g \in Groups(s) : /\ Packed(s, g).ok /\ a.group = g /\ a.domains = Packed(s, g).selected
                             /\ a.total = TotalCost(s, Packed(s, g).selected) /\ a.total \in Nat /\ g \in Nat
  BY <1>4, <1>6
<1>8. ASSUME NEW b \in plans, Wins(b) PROVE b.domains = a.domains
  <2>1. PICK h \in Groups(s) : /\ b.group = h /\ b.domains = Packed(s, h).selected
                               /\ b.total \in Nat /\ h \in Nat
    BY <1>4
  <2>2. a.group <= b.group /\ b.group <= a.group
    BY <1>6, <1>7, <1>8, <2>1
  <2>3. h = g
    BY <1>7, <2>1, <2>2
  <2> QED BY <1>7, <2>1, <2>3
<1>9. SelectDomains(s) = a.domains
  BY <1>1, <1>6, <1>8
<1>10. ASSUME NEW h \in Groups(s), Packed(s, h).ok
       PROVE  \/ TotalCost(s, SelectDomains(s)) < TotalCost(s, Packed(s, h).selected)
              \/ TotalCost(s, SelectDomains(s)) = TotalCost(s, Packed(s, h).selected) /\ g <= h
  <2>1. PICK b \in plans : b.group = h /\ b.total = TotalCost(s, Packed(s, h).selected)
    BY <1>5, <1>10
  <2>2. a.total < b.total \/ (a.total = b.total /\ a.group <= b.group)
    BY <1>6, <2>1
  <2> QED BY <1>7, <1>9, <2>1, <2>2
<1> QED BY <1>7, <1>9, <1>10

\* A demand that counts anything has units.
LEMMA UnitsExist ==
  ASSUME TypeOK, DOMAIN Demand(spec) # {}
  PROVE  DOMAIN Units # {}
<1> DEFINE dem == Demand(spec)
           asking == {i \in SlicePodSets(spec) : ChunkSize(spec[i]) > 0 /\ ChunkCount(spec[i]) > 0}
           sizes == {ChunkSize(spec[i]) : i \in asking}
           Sized(s) == {i \in asking : ChunkSize(spec[i]) = s}
           f(s) == [i \in Sized(s) |-> ChunkCount(spec[i])]
<1>1. dem = [s \in sizes |-> MapThenSumSet(LAMBDA i : ChunkCount(spec[i]), Sized(s))]
  BY DEF Demand
<1>2. PICK s \in sizes : TRUE
  <2> HIDE DEF sizes, Sized
  <2> QED BY <1>1
<1>3. dem[s] = SumOver(f(s), Sized(s))
  <2>1. MapThenSumSet(LAMBDA i : ChunkCount(spec[i]), Sized(s)) = SumOver(f(s), Sized(s))
    BY ChunkSum
  <2> HIDE DEF sizes, Sized, f, dem
  <2> QED BY <1>1, <2>1
<1>4. PICK j \in Sized(s) : TRUE
  OBVIOUS
<1>5. spec \in HeroSpecs
  BY DEF TypeOK
<1>6. IsFiniteSet(Sized(s))
  <2>1. Sized(s) \subseteq DOMAIN spec
    BY DEF SlicePodSets
  <2> HIDE DEF Sized
  <2> QED BY <1>5, <2>1, PodTotalType, FS_Subset
<1>7. ASSUME NEW i \in Sized(s) PROVE ChunkCount(spec[i]) \in Int /\ ChunkCount(spec[i]) > 0
  <2>1. spec[i].size \in Nat \ {0} /\ spec[i].count \in Nat
    BY <1>5, PlanAssumption DEF SlicePodSets, RequiresSliceTopology
  <2> QED BY <2>1 DEF ChunkCount
<1>8. \A i \in Sized(s) : f(s)[i] \in Int /\ f(s)[i] > 0
  <2> HIDE DEF Sized
  <2> QED BY <1>7
<1> HIDE DEF f, Sized
<1>9. dem[s] > 0
  <2>1. \A i \in Sized(s) : SumOver(f(s), Sized(s)) = f(s)[i] + SumOver(f(s), Sized(s) \ {i})
    BY <1>6, <1>8, SumOverStep
  <2>2. IsFiniteSet(Sized(s) \ {j})
    BY <1>6, FS_RemoveElement
  <2>3. \A i \in Sized(s) \ {j} : f(s)[i] \in Int /\ f(s)[i] >= 0
    BY <1>8
  <2>4. SumOver(f(s), Sized(s) \ {j}) \in Nat
    BY <2>2, <2>3, SumOverType
  <2>5. f(s)[j] \in Int /\ f(s)[j] > 0 /\ dem[s] = f(s)[j] + SumOver(f(s), Sized(s) \ {j})
    BY <1>3, <1>4, <1>8, <2>1
  <2> QED BY <2>4, <2>5
<1>10. IsDemand(dem) /\ s \in DOMAIN dem
  <2>1. IsDemand(dem)
    BY <1>5, DemandType
  <2> HIDE DEF sizes
  <2> QED BY <1>1, <2>1
<1> HIDE DEF dem
<1>11. AtLeast(dem, 0) \in Nat /\ AtLeast(dem, 0) > 0
  <2> DEFINE T == {t \in DOMAIN dem : t >= 0}
  <2>1. s \in T /\ T \subseteq DOMAIN dem
    BY <1>10 DEF IsDemand
  <2>2. AtLeast(dem, 0) = SumOver(dem, T)
    BY DEF AtLeast, SumOver
  <2> HIDE DEF T
  <2>3. IsFiniteSet(T) /\ IsFiniteSet(T \ {s}) /\ \A t \in T : dem[t] \in Int /\ dem[t] >= 0
    BY <1>10, <2>1, FS_Subset, FS_RemoveElement DEF IsDemand
  <2>4. \A t \in T : SumOver(dem, T) = dem[t] + SumOver(dem, T \ {t})
    BY <2>3, SumOverStep
  <2>5. \A t \in T \ {s} : dem[t] \in Int /\ dem[t] >= 0
    BY <2>3
  <2>6. SumOver(dem, T \ {s}) \in Nat
    BY <2>3, <2>5, SumOverType
  <2>7. SumOver(dem, T) = dem[s] + SumOver(dem, T \ {s}) /\ dem[s] \in Int
    BY <2>1, <2>3, <2>4
  <2> QED BY <1>9, <2>2, <2>6, <2>7
<1>12. DOMAIN Units = 1..AtLeast(dem, 0)
  BY DEF Units, UnitsOf, dem
<1> QED BY <1>11, <1>12

\* The slices of a hero whose slices are all alike.
LEMMA AlikeUnits ==
  ASSUME TypeOK, Uniform
  PROVE  /\ Units \in Seq(Nat) /\ DOMAIN Units # {} /\ 1 \in DOMAIN Units /\ Units[1] \in Nat \ {0}
         /\ \A i \in DOMAIN Units : Units[i] = Units[1]
<1>1. IsDemand(Demand(spec))
  BY DemandType DEF TypeOK
<1>2. PICK u : DOMAIN Demand(spec) = {u}
  BY <1>1, FS_Singleton DEF Uniform, IsDemand
<1>3. Units \in Seq({u}) /\ u \in Nat \ {0}
  BY <1>1, <1>2, UnitsType DEF Units, IsDemand
<1>4. DOMAIN Units # {}
  BY <1>2, UnitsExist
<1> QED BY <1>3, <1>4

\* Some group that packs is enough for a plan.
LEMMA PackedMeansPlan ==
  ASSUME TypeOK, NEW s, IsSnapshot(s), NEW h \in Groups(s), Packed(s, h).ok, DOMAIN Units # {}
  PROVE  SelectDomains(s) # {}
<1> DEFINE packed == {<<g, Packed(s, g)>> : g \in Groups(s)}
           Plan(k) == [group |-> k[1], domains |-> k[2].selected, total |-> TotalCost(s, k[2].selected)]
           plans == {Plan(k) : k \in {k \in packed : k[2].ok}}
           Wins(a) == \A b \in plans : a.total < b.total \/ (a.total = b.total /\ a.group <= b.group)
           H == {g \in Groups(s) : Packed(s, g).ok}
           cost(g) == TotalCost(s, Packed(s, g).selected)
           R == {p \in H \X H : cost(p[1]) < cost(p[2]) \/ (cost(p[1]) = cost(p[2]) /\ p[1] < p[2])}
<1>1. SelectDomains(s) = UNION {a.domains : a \in {a \in plans : Wins(a)}}
  BY DEF SelectDomains, Groups, Packed, GroupIds, Candidates
<1>2. ASSUME NEW g \in Groups(s) PROVE g \in Nat /\ cost(g) \in Nat
  <2>1. g \in Nat
    BY DEF Groups, Candidates, IsSnapshot
  <2>2. UNION {GroupVictims(s[id]) : id \in Packed(s, g).selected} \in SUBSET Workload
    BY DEF GroupVictims, TypeOK
  <2> QED BY <2>1, <2>2, CostOfType DEF TotalCost
<1>3. IsFiniteSet(H)
  <2> DEFINE gr == [id \in Candidates(s) |-> s[id].group]
  <2>1. Candidates(s) \subseteq DOMAIN s
    BY DEF Candidates
  <2>2. IsFiniteSet(Candidates(s))
    BY <2>1, FS_Subset DEF IsSnapshot
  <2>3. Groups(s) = {gr[id] : id \in Candidates(s)}
    BY DEF Groups
  <2>4. IsFiniteSet({gr[id] : id \in Candidates(s)})
    <3> HIDE DEF gr
    <3> QED BY <2>2, FiniteImage
  <2>5. H \subseteq Groups(s)
    OBVIOUS
  <2> HIDE DEF H, gr
  <2> QED BY <2>3, <2>4, <2>5, FS_Subset
<1>4. \A a, b \in H : <<a, b>> \in R <=> cost(a) < cost(b) \/ (cost(a) = cost(b) /\ a < b)
  <2> HIDE DEF H, cost
  <2> QED OBVIOUS
<1>5. h \in H /\ \A a \in H : a \in Nat /\ cost(a) \in Nat /\ a \in Groups(s) /\ Packed(s, a).ok
  <2> HIDE DEF cost
  <2> QED BY <1>2
<1>6. PICK a \in H : \A b \in H \ {a} : <<a, b>> \in R
  <2> HIDE DEF R, H, cost
  <2>1. \A x, y \in H : x # y => <<x, y>> \in R \/ <<y, x>> \in R
    BY <1>4, <1>5
  <2>2. \A x, y, z \in H : <<x, y>> \in R /\ <<y, z>> \in R => <<x, z>> \in R
    BY <1>4, <1>5
  <2> QED BY <1>3, <1>5, <2>1, <2>2, FiniteLeast
<1> DEFINE p == Plan(<<a, Packed(s, a)>>)
<1>7. p \in plans /\ p.domains = Packed(s, a).selected /\ p.total = cost(a) /\ p.group = a
  BY <1>5
<1>8. Wins(p)
  <2> SUFFICES ASSUME NEW g \in H
               PROVE  cost(a) < cost(g) \/ (cost(a) = cost(g) /\ a <= g)
    BY <1>7
  <2>1. g # a => <<a, g>> \in R
    BY <1>6
  <2> HIDE DEF R, H, cost
  <2> QED BY <1>4, <1>5, <1>6, <2>1
<1>9. Packed(s, a).selected # {}
  <2> DEFINE C == GroupIds(s, a)
             b == Unpacked(Restrict(s, C))
  <2>1. /\ C \in SUBSET Nat /\ IsFiniteSet(C) /\ b \in Packings(C) /\ b.selected = {} /\ b.ok
        /\ Packed(s, a) = PackAll(b, Units)
    BY PackedType
  <2> HIDE DEF C, b, H
  <2>2. PackAll(b, Units).ok /\ Units \in Seq(Nat)
    BY <1>5, <1>6, <2>1, HeroUnits
  <2>3. PICK f : Assigns(f, DOMAIN Units, b, PackAll(b, Units), Units)
    BY <2>1, <2>2, PackingOutcome
  <2>4. f \in [DOMAIN Units -> Packed(s, a).selected]
    BY <2>1, <2>3 DEF Assigns
  <2> QED BY <2>4
<1>10. PICK id \in Packed(s, a).selected : TRUE
  BY <1>9
<1> HIDE DEF plans, p, Wins
<1> QED BY <1>1, <1>7, <1>8, <1>10
============================================================================
