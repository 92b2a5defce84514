----------------------------- MODULE PlanProofs -----------------------------
(***************************************************************************)
(* What every plan of a drain has in common, in every state of the         *)
(* cluster: theorems about DrainPlan, from the facts of SelectionProofs.   *)
(***************************************************************************)
EXTENDS SelectionProofs

\* The domains of a plan are candidates of one group.
LEMMA PlanDomains ==
  ASSUME TypeOK, NEW s, IsSnapshot(s)
  PROVE  /\ SelectDomains(s) \subseteq Candidates(s) /\ PlanNodes(s, SelectDomains(s)) \subseteq Node
         /\ \A a, b \in SelectDomains(s) : s[a].group = s[b].group
<1>1. CASE SelectDomains(s) = {}
  BY <1>1 DEF PlanNodes
<1>2. CASE SelectDomains(s) # {}
  <2>1. PICK g \in Groups(s) : SelectDomains(s) = Packed(s, g).selected
    BY <1>2, SelectsCheapestGroup
  <2>2. SelectDomains(s) \subseteq GroupIds(s, g)
    <3>1. Packed(s, g) \in Packings(GroupIds(s, g))
      BY PackedType
    <3> QED BY <2>1, <3>1 DEF Packings
  <2>3. \A id \in SelectDomains(s) : id \in Candidates(s) /\ s[id].group = g
    BY <2>2 DEF GroupIds
  <2>4. PlanNodes(s, SelectDomains(s)) \subseteq Node
    BY <2>3 DEF PlanNodes, Candidates, IsSnapshot
  <2> QED BY <2>3, <2>4
<1> QED BY <1>1, <1>2

\* Every variable of DrainPlan stays in its domain.  The step that needs work is
\* Reconcile: what SelectDomains returns are domains of the snapshot, so that only
\* nodes are tainted.
THEOREM PlanTypeCorrect == Spec => []TypeOK
<1>1. Init => TypeOK
  BY PlanAssumption DEF Init, TypeOK
<1>2. TypeOK /\ [Next]_planVars => TypeOK'
  <2> SUFFICES ASSUME TypeOK, [Next]_planVars PROVE TypeOK'
    OBVIOUS
  <2>1. ASSUME Reconcile PROVE TypeOK'
    <3> DEFINE s == Build
               N == PlanNodes(s, SelectDomains(s))
    <3>1. N \subseteq Node
      <4>1. IsSnapshot(s)
        BY <2>1, BuildType DEF Reconcile, Selects
      <4> HIDE DEF s
      <4> QED BY <4>1, PlanDomains
    <3>2. Occupants(N) \subseteq Workload
      BY DEF Occupants, TypeOK
    <3>3. /\ tainted' = tainted \cup N \/ tainted' = {}
          /\ suspended' = suspended \cup Occupants(N) \/ suspended' = {}
          /\ steady' \in BOOLEAN
      <4> HIDE DEF N
      <4>1. Reconcile => /\ tainted' = tainted \cup N \/ tainted' = {}
                         /\ suspended' = suspended \cup Occupants(N) \/ suspended' = {}
                         /\ steady' \in BOOLEAN
        BY DEF Reconcile, N, TypeOK
      <4> QED BY <2>1, <4>1
    <3>4. UNCHANGED <<clusterVars, pod, moves>>
      BY <2>1 DEF Reconcile
    <3> HIDE DEF N
    <3> QED BY <3>1, <3>2, <3>3, <3>4 DEF TypeOK, clusterVars
  <2>2. ASSUME NEW w \in Workload, Evict(w) PROVE TypeOK'
    BY <2>2 DEF TypeOK, Evict, clusterVars
  <2>3. ASSUME NEW w \in Workload, Readmit(w) PROVE TypeOK'
    <3>1. PICK f \in [PodsOf(w) -> {n \in up \ tainted : Unused[n] > 0}] :
            at' = [p \in Pod |-> IF p \in PodsOf(w) THEN f[p] ELSE at[p]]
      BY <2>3 DEF Readmit
    <3>2. at' \in [Pod -> Node \cup {None}]
      BY <3>1 DEF TypeOK
    <3>3. pod' \in [Pod -> {"running", "ending", "gone"}]
      BY <2>3 DEF Readmit, TypeOK
    <3>4. since' \in [Workload -> Int] /\ moves' \in 0..MaxMoves
      BY <2>3, PlanAssumption DEF Readmit, Move, TypeOK
    <3>5. UNCHANGED <<spec, up, rival, known, now, tainted, suspended, steady>>
      BY <2>3 DEF Readmit
    <3> QED BY <3>2, <3>3, <3>4, <3>5 DEF TypeOK
  <2>4. ASSUME Change PROVE /\ UNCHANGED <<spec, at, since, tainted, pod, suspended>>
                            /\ steady' \in BOOLEAN /\ moves' \in 0..MaxMoves
    <3>1. UNCHANGED <<spec, at, since, tainted, pod, suspended>> /\ steady' = FALSE
      BY <2>4 DEF Change
    <3>2. moves' \in 0..MaxMoves
      BY <2>4, PlanAssumption DEF Change, Move, TypeOK
    <3> QED BY <3>1, <3>2
  <2>5. ASSUME NEW w \in Workload, WorkloadDeleted(w) PROVE TypeOK'
    BY <2>4, <2>5 DEF TypeOK, WorkloadDeleted
  <2>6. ASSUME NEW p \in Pod, PodGone(p) PROVE TypeOK'
    BY <2>6 DEF TypeOK, PodGone, clusterVars
  <2>7. ASSUME NEW N \in Downs, NodesChange(N) PROVE TypeOK'
    BY <2>4, <2>7 DEF TypeOK, NodesChange
  <2>8. ASSUME NEW N \in Rivals, RivalChanges(N) PROVE TypeOK'
    BY <2>4, <2>8, PlanAssumption DEF TypeOK, RivalChanges
  <2>9. ASSUME Tick PROVE TypeOK'
    BY <2>4, <2>9 DEF TypeOK, Tick
  <2>10. CASE UNCHANGED planVars
    BY <2>10 DEF TypeOK, planVars, clusterVars
  <2> QED BY <2>1, <2>2, <2>3, <2>5, <2>6, <2>7, <2>8, <2>9, <2>10 DEF Next
<1> QED BY <1>1, <1>2, PTL DEF Spec

\* No plan of SelectDomains ever takes a node of another admitted hero, or one on
\* which a workload runs that is not below the hero, and all of its domains have
\* one group: whatever cluster, hero and weights.
THEOREM PlansKeepOff == Spec => []PlanKeepsOff
<1>1. TypeOK => PlanKeepsOff
  <2> DEFINE s == Build
             D == SelectDomains(s)
             N == PlanNodes(s, D)
             At(id) == {n \in Node : Label[n][Level] = id}
  <2> SUFFICES ASSUME TypeOK, Selects
               PROVE  /\ N \cap rival = {}
                      /\ \A p \in Pod : pod[p] = "running" /\ at[p] \in N /\ WorkloadOf[p] \in known
                                          => Priority[WorkloadOf[p]] < HeroPriority
                      /\ \A a, b \in D : s[a].group = s[b].group
    BY DEF PlanKeepsOff
  <2>1. IsSnapshot(s)
    BY BuildType DEF Selects
  <2>2. D \subseteq Candidates(s) /\ \A a, b \in D : s[a].group = s[b].group
    <3> HIDE DEF s
    <3> QED BY <2>1, PlanDomains
  <2>3. ASSUME NEW id \in DOMAIN s
        PROVE  /\ s[id].nodes = At(id) /\ s[id].hasOtherHero = HasOtherHero(At(id))
               /\ s[id].victims = Counted(At(id), "victim")
    <3>1. s[id] = Domain(At(id), GroupLevel)
      BY DEF Build
    <3>2. At(id) \in SUBSET Node /\ GroupLevel \in Range(Levels) \cup {NoLevel}
      BY LevelsType DEF Selects
    <3> HIDE DEF At, s
    <3> QED BY <3>1, <3>2, DomainType
  <2> HIDE DEF s, At
  <2>4. ASSUME NEW n \in N PROVE \E id \in D : n \in At(id) /\ id \in DOMAIN s /\ Feasible(s[id])
    BY <2>2, <2>3 DEF PlanNodes, Candidates
  <2> HIDE DEF D, N
  <2>5. N \cap rival = {}
    <3> SUFFICES ASSUME NEW n \in N, n \in rival PROVE FALSE
      OBVIOUS
    <3>1. PICK id \in D : n \in At(id) /\ id \in DOMAIN s /\ Feasible(s[id])
      BY <2>4
    <3> QED BY <2>3, <3>1 DEF Feasible, HasOtherHero
  <2>6. ASSUME NEW p \in Pod, pod[p] = "running", at[p] \in N, WorkloadOf[p] \in known
        PROVE  Priority[WorkloadOf[p]] < HeroPriority
    <3>1. PICK id \in D : at[p] \in At(id) /\ id \in DOMAIN s /\ Feasible(s[id])
      BY <2>4, <2>6
    <3>2. Classify(p) = "victim"
      BY <2>6, ClusterAssumption DEF Classify, ClusterAssumptions, TypeOK
    <3>3. p \in s[id].victims
      BY <2>3, <2>6, <3>1, <3>2 DEF Counted
    <3>4. WorkloadOf[p] \in GroupVictims(s[id])
      BY <2>6, <3>3 DEF GroupVictims
    <3> QED BY <3>1, <3>4 DEF Feasible, VictimsBelowHero
  <2> QED BY <2>2, <2>5, <2>6
<1> QED BY <1>1, PlanTypeCorrect, PTL

\* packWithinGroup never promises what a domain does not have: every unit of a plan
\* has a domain to go to, no domain is given more GPUs than draining it frees, and
\* no domain is drained that is given none.
THEOREM PlansHaveRoom == Spec => []PlanHasRoom
<1>1. TypeOK => PlanHasRoom
  <2> DEFINE s == Build
             D == SelectDomains(s)
             units == Units
             Given(f, id) == {i \in DOMAIN units : f[i] = id}
  <2> SUFFICES ASSUME TypeOK, Selects, D # {}
               PROVE  \E f \in [DOMAIN units -> D] : \A id \in D :
                        /\ Given(f, id) # {}
                        /\ MapThenSumSet(LAMBDA i : units[i], Given(f, id)) <= Reclaimable(s[id])
    BY DEF PlanHasRoom
  <2>1. IsSnapshot(s)
    BY BuildType DEF Selects
  <2> HIDE DEF s
  <2>2. PICK g \in Groups(s) : Packed(s, g).ok /\ D = Packed(s, g).selected
    BY <2>1, SelectsCheapestGroup
  <2> DEFINE C == GroupIds(s, g)
             b == Unpacked(Restrict(s, C))
             k == PackAll(b, units)
  <2>3. /\ C \in SUBSET Nat /\ IsFiniteSet(C)
        /\ b \in Packings(C) /\ b.selected = {} /\ b.ok
        /\ \A id \in C : b.remaining[id] = Reclaimable(s[id])
        /\ Packed(s, g) = k /\ k \in Packings(C)
    BY <2>1, PackedType
  <2>4. units \in Seq(Nat)
    BY HeroUnits
  <2> HIDE DEF units, C, b
  <2>5. PICK f : Assigns(f, DOMAIN units, b, k, units)
    BY <2>2, <2>3, <2>4, PackingOutcome
  <2> HIDE DEF k
  <2>6. f \in [DOMAIN units -> D]
    BY <2>2, <2>3, <2>5 DEF Assigns
  <2>7. ASSUME NEW id \in D PROVE Given(f, id) # {} /\ SumOver(units, Given(f, id)) <= Reclaimable(s[id])
    <3>1. id \in k.selected /\ id \in C /\ DOMAIN b.remaining = C
      BY <2>2, <2>3 DEF Packings
    <3>2. \E i \in DOMAIN units : f[i] = id
      BY <2>5, <3>1 DEF Assigns
    <3>3. SumOver(units, Given(f, id)) + k.remaining[id] = b.remaining[id]
      BY <2>5, <3>1 DEF Assigns
    <3>4. k.remaining[id] \in Nat
      BY <2>3, <3>1 DEF Packings
    <3>5. SumOver(units, Given(f, id)) \in Int
      <4>1. IsFiniteSet(DOMAIN units)
        BY <2>4, SeqFinite
      <4>2. Given(f, id) \subseteq DOMAIN units /\ \A i \in Given(f, id) : units[i] \in Int
        BY <2>4
      <4> HIDE DEF Given
      <4>3. IsFiniteSet(Given(f, id))
        BY <4>1, <4>2, FS_Subset
      <4> QED BY <4>2, <4>3, SumOverType
    <3>6. SumOver(units, Given(f, id)) <= Reclaimable(s[id])
      <4> HIDE DEF Given
      <4> QED BY <2>3, <3>1, <3>3, <3>4, <3>5
    <3> QED BY <3>2, <3>6
  <2>8. ASSUME NEW id \in D
        PROVE  MapThenSumSet(LAMBDA i : units[i], Given(f, id)) = SumOver(units, Given(f, id))
    BY DEF SumOver
  <2> HIDE DEF Given, D
  <2> QED BY <2>6, <2>7, <2>8
<1> QED BY <1>1, PlanTypeCorrect, PTL

\* For a hero of one slice greedy packing is optimal: SelectDomains drains a
\* feasible domain with room for the slice whose victims are cheapest.
THEOREM OneSliceIsCheapest == Spec => []CheapestForOneSlice
<1>1. TypeOK => CheapestForOneSlice
  <2> DEFINE s == Build
             D == SelectDomains(s)
  <2> SUFFICES ASSUME TypeOK, Selects, Len(Units) = 1, D # {},
                      NEW id \in DOMAIN s, Feasible(s[id]), Reclaimable(s[id]) >= Units[1]
               PROVE  TotalCost(s, D) <= TotalCost(s, {id})
    BY DEF CheapestForOneSlice
  <2>1. IsSnapshot(s)
    BY BuildType DEF Selects
  <2> HIDE DEF s
  <2>2. \A g \in Groups(s) : Packed(s, g).ok =>
          TotalCost(s, D) < TotalCost(s, Packed(s, g).selected) \/ TotalCost(s, D) = TotalCost(s, Packed(s, g).selected)
    BY <2>1, SelectsCheapestGroup
  <2> HIDE DEF D
  <2> DEFINE h == s[id].group
             C == GroupIds(s, h)
             b == Unpacked(Restrict(s, C))
  <2>3. h \in Groups(s) /\ id \in C
    BY DEF Groups, GroupIds, Candidates
  <2> HIDE DEF h
  <2>4. /\ C \in SUBSET Nat /\ IsFiniteSet(C) /\ C \subseteq DOMAIN s
        /\ b \in Packings(C) /\ b.selected = {} /\ b.ok
        /\ \A i \in C : b.remaining[i] = Reclaimable(s[i]) /\ b.cost[i] = CostOf(GroupVictims(s[i]))
        /\ Packed(s, h) = PackAll(b, Units)
    BY <2>1, PackedType
  <2> HIDE DEF C, b
  <2>5. /\ PackAll(b, Units).ok
        /\ \E a \in C : PackAll(b, Units).selected = {a} /\ b.cost[a] <= b.cost[id]
    <3>1. b.remaining[id] >= Units[1]
      BY <2>3, <2>4
    <3>2. Units \in Seq(Nat)
      BY HeroUnits
    <3> QED BY <2>3, <2>4, <3>1, <3>2, OneUnit
  <2>6. PICK a \in C : PackAll(b, Units).selected = {a} /\ b.cost[a] <= b.cost[id]
    BY <2>5
  <2>7. ASSUME NEW i \in C PROVE TotalCost(s, {i}) = b.cost[i] /\ b.cost[i] \in Nat
    <3>1. UNION {GroupVictims(s[j]) : j \in {i}} = GroupVictims(s[i])
      OBVIOUS
    <3>2. b.cost[i] \in Nat
      BY <2>4 DEF Packings
    <3> QED BY <2>4, <3>1, <3>2 DEF TotalCost
  <2>8. TotalCost(s, D) < TotalCost(s, {a}) \/ TotalCost(s, D) = TotalCost(s, {a})
    <3>1. Packed(s, h).ok /\ Packed(s, h).selected = {a}
      BY <2>4, <2>5, <2>6
    <3>2. TotalCost(s, Packed(s, h).selected) = TotalCost(s, {a})
      BY <3>1, Zenon
    <3> QED BY <2>2, <2>3, <3>1, <3>2
  <2>9. TotalCost(s, D) \in Nat
    <3>1. UNION {GroupVictims(s[j]) : j \in D} \in SUBSET Workload
      BY DEF GroupVictims, TypeOK
    <3> QED BY <3>1, CostOfType DEF TotalCost
  <2>10. b.cost[a] <= b.cost[id]
    BY <2>6
  <2> QED BY <2>3, <2>7, <2>8, <2>9, <2>10
<1> QED BY <1>1, PlanTypeCorrect, PTL

\* The units of the hero could be spread over the candidates of one group.
Spreadable(s, g) ==
  \E f \in [DOMAIN Units -> GroupIds(s, g)] : \A id \in GroupIds(s, g) :
     SumOver(Units, {i \in DOMAIN Units : f[i] = id}) <= Reclaimable(s[id])

\* NoFeasibleDomains, "no domain set can cover the demand even after eviction", is
\* true of a hero whose slices are all alike: greedy packing finds a plan whenever
\* the slices can be spread over the feasible domains of one group at all.
THEOREM NoPlanMeansNoRoom ==
  Spec => [](Selects /\ Uniform /\ SelectDomains(Build) = {} => \A g \in Groups(Build) : ~Spreadable(Build, g))
<1> DEFINE s == Build
<1>1. TypeOK => (Selects /\ Uniform /\ SelectDomains(s) = {} => \A g \in Groups(s) : ~Spreadable(s, g))
  <2> SUFFICES ASSUME TypeOK, Selects, Uniform, NEW g \in Groups(s), Spreadable(s, g)
               PROVE  SelectDomains(s) # {}
    OBVIOUS
  <2>1. IsSnapshot(s)
    BY BuildType DEF Selects
  <2> HIDE DEF s
  <2> DEFINE u == Units[1]
  <2>2. /\ Units \in Seq(Nat) /\ DOMAIN Units # {} /\ u \in Nat \ {0}
        /\ \A i \in DOMAIN Units : Units[i] = u
    BY AlikeUnits
  <2> DEFINE C == GroupIds(s, g)
             b == Unpacked(Restrict(s, C))
  <2>3. /\ C \in SUBSET Nat /\ IsFiniteSet(C) /\ b \in Packings(C) /\ b.selected = {} /\ b.ok
        /\ \A id \in C : b.remaining[id] = Reclaimable(s[id])
        /\ Packed(s, g) = PackAll(b, Units)
    BY <2>1, PackedType
  <2> HIDE DEF b
  <2>4. PICK f : Spreads(f, C, b, Units)
    BY <2>3 DEF Spreadable, Spreads
  <2> HIDE DEF C
  <2>5. PackAll(b, Units).ok
    <3> HIDE DEF u
    <3> QED BY <2>2, <2>3, <2>4, UniformPacking
  <2> QED BY <2>1, <2>2, <2>3, <2>5, PackedMeansPlan
<1> QED BY <1>1, PlanTypeCorrect, PTL
=============================================================================
