---------------------------- MODULE ReplanProofs ----------------------------
(***************************************************************************)
(* A drain does not run away.  Every pass selects afresh, from a cluster   *)
(* that the drain is changing.  The proof follows the order in which the   *)
(* domains are preferred: those of the first plan are ahead of all others  *)
(* that have room for a slice, and no step of the drain changes that.      *)
(***************************************************************************)
EXTENDS PlanProofs

----------------------------------------------------------------------------
(* What the domains of the snapshot are to a drain.                        *)

\* The domains, the workloads that draining one evicts and what that costs, what
\* it frees, and the ancestor it is in.
Ids == DOMAIN Build

Vic(id) == GroupVictims(Build[id])

Pay(id) == CostOf(Vic(id))

Free(id) == Reclaimable(Build[id])

Grp(id) == Build[id].group

\* The nodes of a domain.
At(id) == {n \in Node : Label[n][Level] = id}

\* What Build makes of the cluster, field by field.
LEMMA BuildIs ==
  Selects =>
    /\ IsSnapshot(Build) /\ Ids = {Label[n][Level] : n \in Node} \ {0}
    /\ \A id \in Ids :
         /\ Build[id].nodes = At(id) /\ Build[id].hasOtherHero = HasOtherHero(At(id))
         /\ Grp(id) = Group(At(id), GroupLevel) /\ Grp(id) \in Nat
         /\ Build[id].victims = Counted(At(id), "victim")
         /\ Build[id].allocatable = SumOver(GPU, At(id) \cap up)
         /\ Build[id].nonReclaimable = SumOver(PodGPU, Counted(At(id) \cap up, "nonReclaimable"))
         /\ Free(id) \in Nat
<1> SUFFICES ASSUME Selects
             PROVE  /\ IsSnapshot(Build) /\ Ids = {Label[n][Level] : n \in Node} \ {0}
                    /\ \A id \in Ids :
                         /\ Build[id].nodes = At(id) /\ Build[id].hasOtherHero = HasOtherHero(At(id))
                         /\ Grp(id) = Group(At(id), GroupLevel) /\ Grp(id) \in Nat
                         /\ Build[id].victims = Counted(At(id), "victim")
                         /\ Build[id].allocatable = SumOver(GPU, At(id) \cap up)
                         /\ Build[id].nonReclaimable = SumOver(PodGPU, Counted(At(id) \cap up, "nonReclaimable"))
                         /\ Free(id) \in Nat
  OBVIOUS
<1>1. IsSnapshot(Build)
  BY BuildType DEF Selects
<1>2. Ids = {Label[n][Level] : n \in Node} \ {0}
  BY DEF Build, Ids
<1>3. ASSUME NEW id \in Ids
      PROVE  /\ Build[id].nodes = At(id) /\ Build[id].hasOtherHero = HasOtherHero(At(id))
             /\ Grp(id) = Group(At(id), GroupLevel) /\ Grp(id) \in Nat
             /\ Build[id].victims = Counted(At(id), "victim")
             /\ Build[id].allocatable = SumOver(GPU, At(id) \cap up)
             /\ Build[id].nonReclaimable = SumOver(PodGPU, Counted(At(id) \cap up, "nonReclaimable"))
             /\ Free(id) \in Nat
  <2>1. Build[id] = Domain(At(id), GroupLevel)
    BY DEF Build, At, Ids
  <2>2. At(id) \in SUBSET Node /\ GroupLevel \in Range(Levels) \cup {NoLevel}
    BY LevelsType DEF Selects, At
  <2>3. {n \in At(id) : NodeUsable(n)} = At(id) \cap up
    BY DEF NodeUsable
  <2>4. Domain(At(id), GroupLevel) =
          [nodes |-> At(id), group |-> Group(At(id), GroupLevel), allocatable |-> SumOver(GPU, At(id) \cap up),
           nonReclaimable |-> SumOver(PodGPU, Counted(At(id) \cap up, "nonReclaimable")),
           victims |-> Counted(At(id), "victim"), hasOtherHero |-> HasOtherHero(At(id))]
    BY <2>3 DEF Domain, SumOver
  <2>5. Free(id) \in Nat /\ Grp(id) \in Nat
    BY <1>1, ReclaimableType DEF IsSnapshot, Free, Grp, Ids
  <2> QED BY <2>1, <2>4, <2>5 DEF Grp
<1> QED BY <1>1, <1>2, <1>3

\* The same after a step.
LEMMA BuildIsNext ==
  (Selects =>
    /\ IsSnapshot(Build) /\ Ids = {Label[n][Level] : n \in Node} \ {0}
    /\ \A id \in Ids :
         /\ Build[id].nodes = At(id) /\ Build[id].hasOtherHero = HasOtherHero(At(id))
         /\ Grp(id) = Group(At(id), GroupLevel) /\ Grp(id) \in Nat
         /\ Build[id].victims = Counted(At(id), "victim")
         /\ Build[id].allocatable = SumOver(GPU, At(id) \cap up)
         /\ Build[id].nonReclaimable = SumOver(PodGPU, Counted(At(id) \cap up, "nonReclaimable"))
         /\ Free(id) \in Nat)'
BY BuildIs, PTL

\* A step that does not touch the hero, the nodes or a pod that no drain can move
\* leaves all of a snapshot but the victims.
Steady == /\ UNCHANGED <<spec, up, rival, known, now>>
          /\ \A p \in Pod : WorkloadOf[p] = None =>
               (pod'[p] = "running" <=> pod[p] = "running") /\ at'[p] = at[p]

\* So the domains are the same, with what they free and where they are.
LEMMA SameDomains ==
  ASSUME Selects, Steady
  PROVE  /\ Selects' /\ Ids' = Ids /\ Units' = Units /\ GroupLevel' = GroupLevel
         /\ \A id \in Ids : /\ Build'[id].nodes = Build[id].nodes /\ Grp(id)' = Grp(id) /\ Free(id)' = Free(id)
                            /\ Build'[id].hasOtherHero = Build[id].hasOtherHero
<1>1. Level' = Level /\ GroupLevel' = GroupLevel /\ Units' = Units /\ Selects' = Selects
  BY DEF Level, GroupLevel, Units, Selects, LevelsResolve, Steady
<1>2. Ids' = Ids
  BY <1>1, BuildIs, BuildIsNext
<1>3. ASSUME NEW id \in Ids
      PROVE  /\ Build'[id].nodes = Build[id].nodes /\ Grp(id)' = Grp(id) /\ Free(id)' = Free(id)
             /\ Build'[id].hasOtherHero = Build[id].hasOtherHero
  <2>1. At(id)' = At(id)
    BY <1>1 DEF At
  <2>2. Counted(At(id) \cap up, "nonReclaimable")' = Counted(At(id) \cap up, "nonReclaimable")
    BY <2>1 DEF Counted, Classify, Steady
  <2>3. Group(At(id), GroupLevel)' = Group(At(id), GroupLevel)
    BY <1>1, <2>1 DEF Group
  <2>4. HasOtherHero(At(id))' = HasOtherHero(At(id))
    BY <2>1 DEF HasOtherHero, Steady
  <2>5. (At(id) \cap up)' = At(id) \cap up
    BY <2>1 DEF Steady
  <2>6. Build'[id].allocatable = Build[id].allocatable
    BY <1>1, <1>2, <2>5, BuildIs, BuildIsNext
  <2>7. Build'[id].nonReclaimable = Build[id].nonReclaimable
    BY <1>1, <1>2, <2>2, BuildIs, BuildIsNext
  <2>8. Free(id)' = Free(id)
    BY <2>6, <2>7 DEF Free, Reclaimable
  <2> QED BY <1>1, <1>2, <2>1, <2>3, <2>4, <2>8, BuildIs, BuildIsNext
<1> QED BY <1>1, <1>2, <1>3

\* A workload is a victim of a domain if it is known and a pod of it runs there.
LEMMA VicIs ==
  TypeOK /\ Selects =>
    \A id \in Ids : /\ Vic(id) \subseteq Workload
                    /\ \A w : w \in Vic(id) <=> /\ w \in known
                                                /\ \E p \in Pod : WorkloadOf[p] = w /\ pod[p] = "running" /\ at[p] \in At(id)
<1> SUFFICES ASSUME TypeOK, Selects, NEW id \in Ids
             PROVE  /\ Vic(id) \subseteq Workload
                    /\ \A w : w \in Vic(id) <=> /\ w \in known
                                                /\ \E p \in Pod : WorkloadOf[p] = w /\ pod[p] = "running" /\ at[p] \in At(id)
  OBVIOUS
<1>1. Vic(id) = {WorkloadOf[p] : p \in Counted(At(id), "victim")} \cap known
  BY BuildIs DEF Vic, GroupVictims
<1>2. None \notin known /\ known \subseteq Workload
  BY ClusterAssumption DEF TypeOK, ClusterAssumptions
<1> QED BY <1>1, <1>2 DEF Counted, Classify

\* The same after a step.
LEMMA VicIsNext ==
  (TypeOK /\ Selects =>
    \A id \in Ids : /\ Vic(id) \subseteq Workload
                    /\ \A w : w \in Vic(id) <=> /\ w \in known
                                                /\ \E p \in Pod : WorkloadOf[p] = w /\ pod[p] = "running" /\ at[p] \in At(id))'
BY VicIs, PTL

\* What evicting some workloads costs, one at a time.
LEMMA CostSplits ==
  TypeOK => \A W \in SUBSET Workload :
    /\ CostOf(W) \in Nat
    /\ \A w \in W : Cost(w) \in Nat /\ CostOf(W) = Cost(w) + CostOf(W \ {w})
<1> SUFFICES ASSUME TypeOK, NEW W \in SUBSET Workload
             PROVE  /\ CostOf(W) \in Nat
                    /\ \A w \in W : Cost(w) \in Nat /\ CostOf(W) = Cost(w) + CostOf(W \ {w})
  OBVIOUS
<1> DEFINE f == [w \in Workload |-> Cost(w)]
<1>1. ASSUME NEW V \in SUBSET Workload PROVE CostOf(V) = SumOver(f, V) /\ IsFiniteSet(V)
  <2>1. CostOf(V) = SumOver([w \in V |-> Cost(w)], V)
    BY DEF SumOver, MapThenSumSet, MapThenFoldSet, CostOf
  <2>2. SumOver(f, V) = SumOver([w \in V |-> Cost(w)], V)
    BY DEF SumOver, MapThenSumSet, MapThenFoldSet
  <2>3. IsFiniteSet(V)
    BY ClusterAssumption, FS_Subset DEF ClusterAssumptions
  <2> QED BY <2>1, <2>2, <2>3
<1>2. ASSUME NEW w \in Workload PROVE Cost(w) \in Nat
  <2>1. PodTotal(spec) \in Nat /\ since[w] \in Int /\ now \in Int
    BY PodTotalType DEF TypeOK
  <2>2. Cost(w) \in 0..((IF ClusterQueue[w] = HeroCQ THEN 1 ELSE CrossCQMultiplier) * Scale * Scale)
    BY <2>1, CostIsBounded
  <2> QED BY <2>2
<1>3. \A w \in W : f[w] = Cost(w) /\ f[w] \in Int
  BY <1>2
<1> HIDE DEF f
<1>4. \A w \in W : SumOver(f, W) = f[w] + SumOver(f, W \ {w})
  BY <1>1, <1>3, SumOverStep
<1>5. CostOf(W) \in Nat
  BY CostOfType
<1> QED BY <1>1, <1>2, <1>3, <1>4, <1>5

\* The same after a step.
LEMMA CostSplitsNext ==
  (TypeOK => \A W \in SUBSET Workload :
    /\ CostOf(W) \in Nat
    /\ \A w \in W : Cost(w) \in Nat /\ CostOf(W) = Cost(w) + CostOf(W \ {w}))'
BY CostSplits, PTL

\* The cost is a sum of costs.
LEMMA CostIsSum == \A W : CostOf(W) = SumOver([w \in W |-> Cost(w)], W)
BY DEF SumOver, MapThenSumSet, MapThenFoldSet, CostOf

\* The same after a step.
LEMMA CostIsSumNext == (\A W : CostOf(W) = SumOver([w \in W |-> Cost(w)], W))'
BY CostIsSum, PTL

\* Workloads that cost what they did.
LEMMA CostsSame ==
  ASSUME NEW W, \A w \in W : Cost(w)' = Cost(w)
  PROVE  CostOf(W)' = CostOf(W)
<1>1. [w \in W |-> Cost(w)]' = [w \in W |-> Cost(w)]
  OBVIOUS
<1> QED BY <1>1, CostIsSum, CostIsSumNext

\* Costs depend on the hero, the clock and when the workload was admitted.
LEMMA CostSame ==
  ASSUME NEW w, spec' = spec, now' = now, since'[w] = since[w]
  PROVE  Cost(w)' = Cost(w)
BY DEF Cost, PHat, NHat, RHat, RunningFor

----------------------------------------------------------------------------
(* Why a drain stays: its domains come before all others.                  *)

\* Domain a is drained before b: by cost, then by group, then as PackBetter has it.
Ahead(a, b) ==
  \/ Pay(a) < Pay(b)
  \/ /\ Pay(a) = Pay(b)
     /\ \/ Grp(a) < Grp(b)
        \/ /\ Grp(a) = Grp(b)
           /\ Free(a) > Free(b) \/ (Free(a) = Free(b) /\ a < b)

\* The slices of the hero can be spread over the domains T.
Spread(T) == \E f \in [DOMAIN Units -> T] : \A id \in T :
               SumOver(Units, {i \in DOMAIN Units : f[i] = id}) <= Free(id)

\* The domains T have room for the hero and are ahead of every other candidate with
\* room for a slice.  Of several domains, none shares a victim with another domain.
Leads(T) ==
  /\ T # {} /\ T \subseteq Candidates(Build) /\ Spread(T)
  /\ Len(Units) = 1 => \A a, b \in T : a = b
  /\ \A a \in T, b \in Candidates(Build) \ T : Free(b) >= Units[1] => Ahead(a, b)
  /\ Len(Units) = 1 \/ \A a \in T : \A b \in Ids \ {a} : Vic(a) \cap Vic(b) = {}

\* The candidates of a selection.
LEMMA CandidatesAre ==
  Candidates(Build) = {id \in Ids : ~Build[id].hasOtherHero /\ Free(id) > 0 /\ VictimsBelowHero(Vic(id))}
BY DEF Candidates, Ids, Feasible, Free, Vic

\* The same after a step.
LEMMA CandidatesAreNext ==
  (Candidates(Build) = {id \in Ids : ~Build[id].hasOtherHero /\ Free(id) > 0 /\ VictimsBelowHero(Vic(id))})'
BY CandidatesAre, PTL

\* It stays so in a step in which no domain of T gains a victim, no other one is
\* disburdened more than they are, and none becomes feasible.
LEMMA LeadsKept ==
  ASSUME TypeOK, TypeOK', Selects, Steady, NEW T \in SUBSET Ids, Leads(T),
         \A a \in T : Vic(a)' \subseteq Vic(a),
         \A b \in Ids : VictimsBelowHero(Vic(b)') => VictimsBelowHero(Vic(b)),
         \A a \in T, b \in Ids \ T : Pay(a)' + Pay(b) <= Pay(a) + Pay(b)',
         Len(Units) = 1 \/ \A a \in T : \A b \in Ids \ {a} : Vic(a)' \cap Vic(b)' = {}
  PROVE  Leads(T)' /\ PlanNodes(Build, T)' = PlanNodes(Build, T)
<1>1. /\ Selects' /\ Ids' = Ids /\ Units' = Units
      /\ \A id \in Ids : /\ Build'[id].nodes = Build[id].nodes /\ Grp(id)' = Grp(id) /\ Free(id)' = Free(id)
                         /\ Build'[id].hasOtherHero = Build[id].hasOtherHero
  BY SameDomains
<1>2. T \subseteq Candidates(Build)'
  BY <1>1, CandidatesAre, CandidatesAreNext DEF Leads, VictimsBelowHero
<1>3. Candidates(Build)' \subseteq Candidates(Build)
  BY <1>1, CandidatesAre, CandidatesAreNext
<1>4. Spread(T)'
  BY <1>1 DEF Spread, Leads
<1>5. ASSUME NEW a \in T, NEW b \in Candidates(Build)' \ T, Free(b)' >= Units'[1] PROVE Ahead(a, b)'
  <2>1. b \in Candidates(Build) \ T /\ b \in Ids /\ a \in Ids
    BY <1>3, CandidatesAre
  <2>2. Ahead(a, b)
    BY <1>1, <1>5, <2>1 DEF Leads
  <2>3. Pay(a)' + Pay(b) <= Pay(a) + Pay(b)'
    BY <2>1
  <2>4. Pay(a) \in Nat /\ Pay(b) \in Nat
    BY <2>1, VicIs, CostSplits DEF Pay
  <2>5. Pay(a)' \in Nat /\ Pay(b)' \in Nat
    BY <1>1, <2>1, VicIsNext, CostSplitsNext DEF Pay
  <2>6. Grp(a)' = Grp(a) /\ Grp(b)' = Grp(b) /\ Free(a)' = Free(a) /\ Free(b)' = Free(b)
    BY <1>1, <2>1
  <2> QED BY <2>2, <2>3, <2>4, <2>5, <2>6 DEF Ahead
<1>6. PlanNodes(Build, T)' = PlanNodes(Build, T)
  BY <1>1 DEF PlanNodes
<1> QED BY <1>1, <1>2, <1>4, <1>5, <1>6 DEF Leads

\* And in a step after which every pod is where it was, running or not.
LEMMA LeadsIdle ==
  ASSUME TypeOK, TypeOK', Selects, UNCHANGED <<spec, up, rival, at, known, since, now>>,
         \A p \in Pod : pod'[p] = "running" <=> pod[p] = "running", NEW T \in SUBSET Ids, Leads(T)
  PROVE  Leads(T)' /\ PlanNodes(Build, T)' = PlanNodes(Build, T) /\ Ids' = Ids
<1>1. Steady
  BY DEF Steady
<1>2. Ids' = Ids /\ Selects' /\ Level' = Level
  BY <1>1, SameDomains DEF Level
<1>3. \A id \in Ids : Vic(id)' = Vic(id)
  <2> SUFFICES ASSUME NEW id \in Ids PROVE Vic(id)' = Vic(id)
    OBVIOUS
  <2>1. At(id)' = At(id)
    BY <1>2 DEF At
  <2>2. \A v : v \in Vic(id)' <=> v \in Vic(id)
    BY <1>2, <2>1, VicIs, VicIsNext
  <2> QED BY <2>2
<1>4. \A id \in Ids : Pay(id)' = Pay(id) /\ Pay(id) \in Nat
  <2> SUFFICES ASSUME NEW id \in Ids, NEW V \in SUBSET Workload, V = Vic(id)
               PROVE  Pay(id)' = Pay(id) /\ Pay(id) \in Nat
    BY VicIs
  <2>1. CostOf(V)' = CostOf(V)
    BY CostSame, CostsSame
  <2>2. V = Vic(id)' /\ CostOf(V) \in Nat
    BY <1>3, CostSplits
  <2> QED BY <2>1, <2>2 DEF Pay
<1>5. Len(Units) = 1 \/ \A a \in T : \A b \in Ids \ {a} : Vic(a)' \cap Vic(b)' = {}
  BY <1>3 DEF Leads
<1> QED BY <1>1, <1>2, <1>3, <1>4, <1>5, LeadsKept

----------------------------------------------------------------------------
(* The inductive invariant.                                                *)

\* Workloads run whole or not at all.
Whole == \A p, q \in Pod : WorkloadOf[p] # None /\ WorkloadOf[p] = WorkloadOf[q] /\ pod[p] = "running"
                             => pod[q] = "running"

\* The drain is the drain of the domains T.
Drains(T) == Leads(T) /\ tainted = PlanNodes(Build, T)

\* Whoever is suspended and still runs, runs on a node of the drain.
Cleared ==
  /\ suspended \subseteq known
  /\ \A p \in Pod : WorkloadOf[p] \in suspended /\ pod[p] = "running" =>
       \E q \in Pod : WorkloadOf[q] = WorkloadOf[p] /\ pod[q] = "running" /\ at[q] \in tainted

ReplanInv ==
  /\ Whole /\ (tainted = {} => suspended = {})
  /\ Selects /\ Uniform /\ OneChoice /\ steady /\ tainted # {} => Cleared /\ \E T \in SUBSET Ids : Drains(T)

\* A node of the drain is a node of one of its domains.
LEMMA InsideDrain ==
  ASSUME TypeOK, Selects, NEW T \in SUBSET Ids, Drains(T)
  PROVE  \A p \in Pod : pod[p] = "running" /\ at[p] \in tainted /\ WorkloadOf[p] \in known
           => \E a \in T : WorkloadOf[p] \in Vic(a)
<1>1. \A n \in tainted : \E a \in T : n \in At(a)
  <2>1. tainted = UNION {Build[a].nodes : a \in T}
    BY DEF Drains, PlanNodes
  <2>2. \A a \in T : Build[a].nodes = At(a)
    BY BuildIs
  <2> QED BY <2>1, <2>2
<1>2. T \subseteq Ids
  OBVIOUS
<1> QED BY <1>1, <1>2, VicIs

\* An evicted workload leaves all of its domains at once.
LEMMA EvictKeeps ==
  ASSUME TypeOK, TypeOK', ReplanInv, NEW w \in Workload, Evict(w)
  PROVE  ReplanInv'
<1>1. /\ w \in suspended /\ suspended' = suspended \ {w}
      /\ pod' = [p \in Pod |-> IF WorkloadOf[p] = w /\ pod[p] = "running" THEN "ending" ELSE pod[p]]
      /\ UNCHANGED <<spec, up, at, rival, known, since, now, tainted, steady>>
  BY DEF Evict, PodsOf, clusterVars
<1>2. \A p \in Pod : pod'[p] = "running" <=> pod[p] = "running" /\ WorkloadOf[p] # w
  BY <1>1
<1>3. Whole'
  BY <1>2 DEF ReplanInv, Whole
<1>4. tainted' = {} => suspended' = {}
  BY <1>1 DEF ReplanInv
<1>5. ASSUME Selects', Uniform', OneChoice', steady', tainted' # {}
      PROVE  Cleared' /\ \E T \in SUBSET Ids' : Drains(T)'
  <2>1. Selects /\ Uniform /\ OneChoice /\ steady /\ tainted # {}
    BY <1>1, <1>5 DEF Selects, LevelsResolve, Level, GroupLevel, Units, Uniform, OneChoice
  <2>2. Cleared
    BY <2>1 DEF ReplanInv
  <2>3. PICK T \in SUBSET Ids : Drains(T)
    BY <2>1 DEF ReplanInv
  <2>4. Steady
    BY <1>1, ClusterAssumption DEF Steady, ClusterAssumptions, TypeOK
  <2>5. /\ Selects' /\ Ids' = Ids /\ Units' = Units /\ Level' = Level
    BY <1>1, <2>1, <2>4, SameDomains DEF Level
  <2>6. ASSUME NEW id \in Ids PROVE Vic(id)' = Vic(id) \ {w}
    <3>1. At(id)' = At(id)
      BY <2>5 DEF At
    <3>2. \A v : v \in Vic(id)' <=> v \in Vic(id) /\ v # w
      BY <1>1, <1>2, <2>1, <2>5, <3>1, VicIs, VicIsNext
    <3> QED BY <3>2
  <2>7. ASSUME NEW W \in SUBSET Workload PROVE CostOf(W)' = CostOf(W)
    BY <1>1, CostSame, CostsSame
  <2>8. ASSUME NEW id \in Ids
        PROVE  /\ Pay(id) \in Nat /\ Pay(id)' \in Nat /\ Cost(w) \in Nat
               /\ w \in Vic(id) => Pay(id)' = Pay(id) - Cost(w)
               /\ w \notin Vic(id) => Pay(id)' = Pay(id)
    <3>1. Vic(id) \in SUBSET Workload /\ Vic(id) \ {w} \in SUBSET Workload /\ {w} \in SUBSET Workload
      BY <2>1, VicIs
    <3>2. Pay(id)' = CostOf(Vic(id) \ {w})
      BY <2>6, <2>7, <3>1 DEF Pay
    <3>3. Pay(id) = CostOf(Vic(id)) /\ Pay(id) \in Nat /\ CostOf(Vic(id) \ {w}) \in Nat /\ Cost(w) \in Nat
      BY <3>1, CostSplits DEF Pay
    <3>4. w \in Vic(id) => Pay(id) = Cost(w) + Pay(id)'
      BY <3>1, <3>2, CostSplits DEF Pay
    <3>5. w \notin Vic(id) => Pay(id)' = Pay(id)
      <4>1. w \notin Vic(id) => Vic(id) \ {w} = Vic(id)
        OBVIOUS
      <4> QED BY <3>2, <3>3, <4>1
    <3> QED BY <3>2, <3>3, <3>4, <3>5
  <2>9. Cleared'
    BY <1>1, <1>2, <2>2 DEF Cleared
  <2>10. CASE \A id \in Ids : w \notin Vic(id)
    <3>1. \A id \in Ids : Vic(id)' = Vic(id) /\ Pay(id)' = Pay(id) /\ Pay(id) \in Nat
      BY <2>6, <2>8, <2>10
    <3>2. Len(Units) = 1 \/ \A a \in T : \A b \in Ids \ {a} : Vic(a)' \cap Vic(b)' = {}
      BY <2>3, <3>1 DEF Drains, Leads
    <3>3. Drains(T)'
      BY <1>1, <2>1, <2>3, <2>4, <3>1, <3>2, LeadsKept DEF Drains
    <3> QED BY <2>5, <2>9, <3>3
  <2>11. CASE \E id \in Ids : w \in Vic(id)
    <3>1. PICK a \in T : w \in Vic(a)
      <4>1. PICK p \in Pod : WorkloadOf[p] = w /\ pod[p] = "running" /\ w \in known
        BY <2>1, <2>11, VicIs
      <4>2. PICK q \in Pod : WorkloadOf[q] = w /\ pod[q] = "running" /\ at[q] \in tainted
        BY <1>1, <2>2, <4>1 DEF Cleared
      <4> QED BY <2>1, <2>3, <4>1, <4>2, InsideDrain
    <3>2. Priority[w] < HeroPriority
      BY <2>3, <3>1, CandidatesAre DEF Drains, Leads, VictimsBelowHero
    <3>3. \A b \in Ids : VictimsBelowHero(Vic(b)') => VictimsBelowHero(Vic(b))
      BY <2>6, <3>2 DEF VictimsBelowHero
    <3>4. ASSUME NEW c \in T, NEW b \in Ids \ T PROVE Pay(c)' + Pay(b) <= Pay(c) + Pay(b)'
      <4>1. w \in Vic(b) => w \in Vic(c)
        <5>1. CASE Len(Units) = 1
          BY <2>3, <3>1, <5>1 DEF Drains, Leads
        <5>2. CASE Len(Units) # 1
          BY <2>3, <3>1, <5>2 DEF Drains, Leads
        <5> QED BY <5>1, <5>2
      <4> QED BY <2>8, <4>1
    <3>5. Len(Units) = 1 \/ \A c \in T : \A b \in Ids \ {c} : Vic(c)' \cap Vic(b)' = {}
      BY <2>3, <2>6 DEF Drains, Leads
    <3>6. \A c \in T : Vic(c)' \subseteq Vic(c)
      BY <2>6
    <3>7. Drains(T)'
      BY <1>1, <2>1, <2>3, <2>4, <3>3, <3>4, <3>5, <3>6, LeadsKept DEF Drains
    <3> QED BY <2>5, <2>9, <3>7
  <2> QED BY <2>10, <2>11
<1> QED BY <1>3, <1>4, <1>5 DEF ReplanInv

\* A workload comes back outside the drain, and only adds to what others cost.
LEMMA ReadmitKeeps ==
  ASSUME TypeOK, TypeOK', ReplanInv, NEW w \in Workload, Readmit(w)
  PROVE  ReplanInv'
<1>1. /\ w \notin suspended /\ \A p \in Pod : WorkloadOf[p] = w => pod[p] = "gone"
      /\ pod' = [p \in Pod |-> IF WorkloadOf[p] = w THEN "running" ELSE pod[p]]
      /\ \A p \in Pod : IF WorkloadOf[p] = w THEN at'[p] \notin tainted ELSE at'[p] = at[p]
      /\ since' = [since EXCEPT ![w] = now]
      /\ UNCHANGED <<spec, up, rival, known, now, tainted, suspended, steady>>
  <2>1. PICK f \in [PodsOf(w) -> {n \in up \ tainted : Unused[n] > 0}] :
          at' = [p \in Pod |-> IF p \in PodsOf(w) THEN f[p] ELSE at[p]]
    BY DEF Readmit
  <2>2. \A p \in PodsOf(w) : f[p] \notin tainted
    BY <2>1
  <2> QED BY <2>1, <2>2 DEF Readmit, PodsOf
<1>2. \A p \in Pod : pod'[p] = "running" <=> pod[p] = "running" \/ WorkloadOf[p] = w
  BY <1>1 DEF TypeOK
<1>3. Whole'
  BY <1>2 DEF ReplanInv, Whole
<1>4. tainted' = {} => suspended' = {}
  BY <1>1 DEF ReplanInv
<1>5. ASSUME Selects', Uniform', OneChoice', steady', tainted' # {}
      PROVE  Cleared' /\ \E T \in SUBSET Ids' : Drains(T)'
  <2>1. Selects /\ Uniform /\ OneChoice /\ steady /\ tainted # {}
    BY <1>1, <1>5 DEF Selects, LevelsResolve, Level, GroupLevel, Units, Uniform, OneChoice
  <2>2. Cleared
    BY <2>1 DEF ReplanInv
  <2>3. PICK T \in SUBSET Ids : Drains(T)
    BY <2>1 DEF ReplanInv
  <2>4. Steady
    BY <1>1, ClusterAssumption DEF Steady, ClusterAssumptions, TypeOK
  <2>5. /\ Selects' /\ Ids' = Ids /\ Units' = Units /\ Level' = Level
    BY <1>1, <2>1, <2>4, SameDomains DEF Level
  <2>6. ASSUME NEW id \in Ids
        PROVE  /\ Vic(id) \subseteq Vic(id)' /\ Vic(id)' \subseteq Vic(id) \cup {w} /\ w \notin Vic(id)
               /\ Vic(id) \in SUBSET Workload /\ Vic(id)' \in SUBSET Workload
    <3>1. At(id)' = At(id)
      BY <2>5 DEF At
    <3>2. w \notin Vic(id)
      BY <1>1, <2>1, VicIs
    <3>3. \A v : v \in Vic(id) => v \in Vic(id)'
      BY <1>1, <1>2, <2>1, <2>5, <3>1, <3>2, VicIs, VicIsNext
    <3>4. \A v : v \in Vic(id)' => v \in Vic(id) \/ v = w
      BY <1>1, <1>2, <2>1, <2>5, <3>1, VicIs, VicIsNext
    <3>5. Vic(id) \in SUBSET Workload /\ Vic(id)' \in SUBSET Workload
      BY <2>1, <2>5, VicIs, VicIsNext
    <3> QED BY <3>2, <3>3, <3>4, <3>5
  <2>7. ASSUME NEW a \in T PROVE Vic(a)' = Vic(a)
    <3>1. At(a)' = At(a) /\ At(a) \subseteq tainted
      <4>1. tainted = UNION {Build[c].nodes : c \in T}
        BY <2>3 DEF Drains, PlanNodes
      <4>2. Build[a].nodes = At(a)
        BY <2>1, BuildIs
      <4> QED BY <2>5, <4>1, <4>2 DEF At
    <3>2. w \notin Vic(a)'
      BY <1>1, <2>5, <3>1, VicIsNext
    <3> QED BY <2>6, <3>2
  <2>8. ASSUME NEW W \in SUBSET (Workload \ {w}) PROVE CostOf(W)' = CostOf(W)
    <3>1. \A v \in W : Cost(v)' = Cost(v)
      <4> SUFFICES ASSUME NEW v \in W PROVE Cost(v)' = Cost(v)
        OBVIOUS
      <4>1. since'[v] = since[v]
        BY <1>1 DEF TypeOK
      <4> QED BY <1>1, <4>1, CostSame
    <3> QED BY <3>1, CostsSame
  <2>9. ASSUME NEW id \in Ids PROVE Pay(id) \in Nat /\ Pay(id)' \in Nat /\ Pay(id)' >= Pay(id)
    <3> SUFFICES ASSUME NEW V \in SUBSET Workload, NEW W \in SUBSET Workload, V = Vic(id), W = Vic(id)'
                 PROVE  Pay(id) \in Nat /\ Pay(id)' \in Nat /\ Pay(id)' >= Pay(id)
      BY <2>6
    <3>1. V \subseteq W /\ W \subseteq V \cup {w} /\ V \in SUBSET (Workload \ {w})
      BY <2>6
    <3>2. Pay(id) = CostOf(V) /\ Pay(id)' = CostOf(W)' /\ CostOf(V)' = CostOf(V)
      BY <2>8, <3>1 DEF Pay
    <3>3. CostOf(V) \in Nat /\ CostOf(W)' \in Nat
      BY CostSplits, CostSplitsNext
    <3>4. CASE W = V
      BY <3>2, <3>3, <3>4
    <3>5. CASE W # V
      <4>1. w \in W /\ W \ {w} = V
        BY <3>1, <3>5
      <4>2. Cost(w)' \in Nat /\ CostOf(W)' = Cost(w)' + CostOf(W \ {w})'
        BY <4>1, CostSplitsNext
      <4>3. CostOf(W \ {w})' = CostOf(V)'
        BY <4>1
      <4> QED BY <3>2, <3>3, <4>2, <4>3
    <3> QED BY <3>4, <3>5
  <2>10. Cleared'
    BY <1>1, <1>2, <2>2 DEF Cleared
  <2>11. \A a \in T : Pay(a)' = Pay(a)
    <3> SUFFICES ASSUME NEW a \in T, NEW V \in SUBSET Workload, V = Vic(a) PROVE Pay(a)' = Pay(a)
      BY <2>6
    <3>1. V = Vic(a)' /\ V \in SUBSET (Workload \ {w})
      BY <2>6, <2>7
    <3> QED BY <2>8, <3>1 DEF Pay
  <2>12. \A a \in T, b \in Ids \ T : Pay(a)' + Pay(b) <= Pay(a) + Pay(b)'
    BY <2>9, <2>11
  <2>13. \A b \in Ids : VictimsBelowHero(Vic(b)') => VictimsBelowHero(Vic(b))
    BY <2>6 DEF VictimsBelowHero
  <2>14. Len(Units) = 1 \/ \A a \in T : \A b \in Ids \ {a} : Vic(a)' \cap Vic(b)' = {}
    <3> SUFFICES ASSUME Len(Units) # 1, NEW a \in T, NEW b \in Ids \ {a} PROVE Vic(a)' \cap Vic(b)' = {}
      OBVIOUS
    <3>1. Vic(a) \cap Vic(b) = {}
      BY <2>3 DEF Drains, Leads
    <3>2. Vic(a)' = Vic(a) /\ w \notin Vic(a) /\ Vic(b)' \subseteq Vic(b) \cup {w}
      BY <2>6, <2>7
    <3> QED BY <3>1, <3>2
  <2>15. Drains(T)'
    BY <1>1, <2>1, <2>3, <2>4, <2>7, <2>12, <2>13, <2>14, LeadsKept DEF Drains
  <2> QED BY <2>5, <2>10, <2>15
<1> QED BY <1>3, <1>4, <1>5 DEF ReplanInv

\* A pod that ends has left the snapshot before.
LEMMA IdleKeeps ==
  ASSUME TypeOK, TypeOK', ReplanInv, \A p \in Pod : pod'[p] = "running" <=> pod[p] = "running",
         UNCHANGED <<spec, up, rival, at, known, since, now>>, UNCHANGED <<tainted, suspended, steady>>
  PROVE  ReplanInv'
<1>1. Whole' /\ (tainted' = {} => suspended' = {})
  BY DEF ReplanInv, Whole
<1>2. ASSUME Selects', Uniform', OneChoice', steady', tainted' # {}
      PROVE  Cleared' /\ \E T \in SUBSET Ids' : Drains(T)'
  <2>1. Selects /\ Uniform /\ OneChoice /\ steady /\ tainted # {}
    BY <1>2 DEF Selects, LevelsResolve, Level, GroupLevel, Units, Uniform, OneChoice
  <2>2. Cleared
    BY <2>1 DEF ReplanInv
  <2>3. PICK T \in SUBSET Ids : Drains(T)
    BY <2>1 DEF ReplanInv
  <2>4. Cleared'
    BY <2>2 DEF Cleared
  <2>5. Drains(T)' /\ Ids' = Ids
    BY <2>1, <2>3, LeadsIdle DEF Drains
  <2> QED BY <2>4, <2>5
<1> QED BY <1>1, <1>2 DEF ReplanInv

----------------------------------------------------------------------------
(* The passes of the reconcile.                                            *)

\* Inside a group the order of a packing that has not begun is Ahead.
LEMMA GroupOrder ==
  ASSUME TypeOK, Selects, NEW g
  PROVE  LET C == GroupIds(Build, g)
             b == Unpacked(Restrict(Build, C))
         IN  /\ C \in SUBSET Nat /\ IsFiniteSet(C) /\ C \subseteq Candidates(Build) /\ C \subseteq Ids
             /\ b \in Packings(C) /\ b.selected = {} /\ b.ok /\ Packed(Build, g) = PackAll(b, Units)
             /\ \A id \in C : Grp(id) = g /\ b.remaining[id] = Free(id) /\ b.cost[id] = Pay(id)
             /\ \A x, y \in C : PackBetter(b, x, y) <=> Ahead(x, y)
<1> DEFINE C == GroupIds(Build, g)
           b == Unpacked(Restrict(Build, C))
<1>1. IsSnapshot(Build)
  BY BuildIs
<1>2. /\ C \in SUBSET Nat /\ IsFiniteSet(C) /\ C \subseteq DOMAIN Build
      /\ b \in Packings(C) /\ b.selected = {} /\ b.ok /\ Packed(Build, g) = PackAll(b, Units)
      /\ \A id \in C : b.remaining[id] = Reclaimable(Build[id]) /\ b.cost[id] = CostOf(GroupVictims(Build[id]))
  BY <1>1, PackedType
<1>3. C \subseteq Candidates(Build) /\ \A id \in C : Grp(id) = g
  BY DEF GroupIds, Grp
<1> HIDE DEF C, b
<1>4. \A id \in C : b.remaining[id] = Free(id) /\ b.cost[id] = Pay(id)
  BY <1>2 DEF Free, Pay, Vic
<1>5. \A x, y \in C : PackBetter(b, x, y) <=> Ahead(x, y)
  <2> SUFFICES ASSUME NEW x \in C, NEW y \in C PROVE PackBetter(b, x, y) <=> Ahead(x, y)
    OBVIOUS
  <2>1. g \in Nat
    BY <1>2, <1>3, BuildIs DEF Ids
  <2>2. /\ b.remaining[x] = Free(x) /\ b.cost[x] = Pay(x) /\ Grp(x) = g
        /\ b.remaining[y] = Free(y) /\ b.cost[y] = Pay(y) /\ Grp(y) = g
    BY <1>3, <1>4
  <2> QED BY <1>2, <2>1, <2>2 DEF PackBetter, MarginalCost, Ahead
<1> QED BY <1>2, <1>3, <1>4, <1>5 DEF C, b, Ids

\* Without a required level there is one group.
LEMMA OneGroup ==
  ASSUME TypeOK, Selects, GroupLevel = NoLevel
  PROVE  \A id \in Ids : Grp(id) = 0
BY BuildIs DEF Group

\* A domain on its own costs what its victims cost.
LEMMA AloneCosts == \A id : TotalCost(Build, {id}) = Pay(id)
<1> SUFFICES ASSUME NEW id PROVE TotalCost(Build, {id}) = Pay(id)
  OBVIOUS
<1>1. UNION {GroupVictims(Build[j]) : j \in {id}} = GroupVictims(Build[id])
  OBVIOUS
<1> QED BY <1>1 DEF TotalCost, Pay, Vic

\* Domains that are ahead of all others are all that another pass selects.
LEMMA SelectsAgain ==
  ASSUME TypeOK, Selects, Uniform, OneChoice, NEW T \in SUBSET Ids, Leads(T)
  PROVE  SelectDomains(Build) # {} /\ SelectDomains(Build) \subseteq T
<1> DEFINE u == Units[1]
<1>1. /\ Units \in Seq(Nat) /\ DOMAIN Units # {} /\ u \in Nat \ {0}
      /\ \A i \in DOMAIN Units : Units[i] = u
  BY AlikeUnits
<1>2. PICK t \in T : TRUE
  BY DEF Leads
<1> DEFINE h == Grp(t)
           C == GroupIds(Build, h)
           b == Unpacked(Restrict(Build, C))
<1>3. T \subseteq C
  <2>1. \A a \in T : Grp(a) = h
    <3>1. CASE Len(Units) = 1
      BY <1>2, <3>1 DEF Leads
    <3>2. CASE GroupLevel = NoLevel
      BY <1>2, <3>2, OneGroup
    <3> QED BY <3>1, <3>2 DEF OneChoice
  <2> QED BY <2>1 DEF GroupIds, Leads, Grp
<1>4. /\ C \in SUBSET Nat /\ IsFiniteSet(C) /\ C \subseteq Candidates(Build) /\ C \subseteq Ids
      /\ b \in Packings(C) /\ b.selected = {} /\ b.ok /\ Packed(Build, h) = PackAll(b, Units)
      /\ \A id \in C : b.remaining[id] = Free(id)
      /\ \A x, y \in C : PackBetter(b, x, y) <=> Ahead(x, y)
  BY GroupOrder
<1>5. h \in Groups(Build) /\ IsSnapshot(Build)
  <2>1. t \in Candidates(Build)
    BY <1>2 DEF Leads
  <2> QED BY <2>1, BuildIs DEF Groups, Grp
<1> HIDE DEF b, C, h
<1>6. PICK f \in [DOMAIN Units -> T] : \A id \in T :
        SumOver(Units, {i \in DOMAIN Units : f[i] = id}) <= Free(id)
  BY DEF Leads, Spread
<1>7. Packed(Build, h).ok /\ Packed(Build, h).selected \subseteq T
  <2>1. \A id \in T : SumOver(Units, {i \in DOMAIN Units : f[i] = id}) <= b.remaining[id]
    BY <1>3, <1>4, <1>6
  <2>2. \A a \in T, x \in C \ T : b.remaining[x] >= u => PackBetter(b, a, x)
    BY <1>3, <1>4 DEF Leads
  <2> HIDE DEF u
  <2>3. PackAll(b, Units).ok /\ PackAll(b, Units).selected \subseteq T
    <3>1. T \in SUBSET C /\ Spreads(f, T, b, Units)
      BY <1>3, <1>6, <2>1 DEF Spreads
    <3>2. Begun(b, C) /\ Alike(Units, u) /\ Preferred(T, C, b, u)
      BY <1>1, <1>4, <2>2 DEF Begun, Alike, Preferred
    <3> QED BY <3>1, <3>2, PackInside
  <2> QED BY <1>4, <2>3
<1>8. SelectDomains(Build) # {}
  BY <1>1, <1>5, <1>7, PackedMeansPlan
<1>9. PICK g \in Groups(Build) :
        /\ Packed(Build, g).ok /\ SelectDomains(Build) = Packed(Build, g).selected
        /\ \A x \in Groups(Build) : Packed(Build, x).ok
             => \/ TotalCost(Build, SelectDomains(Build)) < TotalCost(Build, Packed(Build, x).selected)
                \/ TotalCost(Build, SelectDomains(Build)) = TotalCost(Build, Packed(Build, x).selected) /\ g <= x
  BY <1>5, <1>8, SelectsCheapestGroup
<1>10. CASE g = h
  BY <1>7, <1>8, <1>9, <1>10
<1>11. CASE GroupLevel = NoLevel
  <2>1. \A x \in Groups(Build) : x = 0
    BY <1>11, OneGroup DEF Groups, Candidates, Ids, Grp
  <2> QED BY <1>5, <1>10, <2>1
<1>12. CASE Len(Units) = 1 /\ g # h
  <2>1. PICK a \in GroupIds(Build, g) : Packed(Build, g).selected = {a} /\ Free(a) >= u
    <3> DEFINE E == GroupIds(Build, g)
               e == Unpacked(Restrict(Build, E))
    <3>1. /\ E \in SUBSET Nat /\ IsFiniteSet(E)
          /\ e \in Packings(E) /\ e.selected = {} /\ e.ok /\ Packed(Build, g) = PackAll(e, Units)
          /\ \A id \in E : e.remaining[id] = Free(id)
      BY GroupOrder
    <3> HIDE DEF E, e, u
    <3>2. InOrder(Packed(Build, g), e, E, u)
      BY <1>1, <3>1, PackingOrder
    <3>3. PICK a \in Packed(Build, g).selected : TRUE
      BY <1>8, <1>9
    <3>4. Packed(Build, g).selected \subseteq E
      <4>1. Packed(Build, g) \in Packings(E)
        BY <1>5, PackedType DEF E
      <4> QED BY <4>1 DEF Packings
    <3>5. e.remaining[a] >= u /\ a \in E
      BY <3>2, <3>3, <3>4 DEF InOrder
    <3>6. \E c \in E : Packed(Build, g).selected = {c}
      BY <1>1, <1>12, <3>1, <3>5, OneUnit DEF u
    <3>7. Packed(Build, g).selected = {a}
      BY <3>3, <3>6
    <3> QED BY <3>1, <3>5, <3>7 DEF E
  <2>2. Packed(Build, h).selected = {t}
    <3>1. T = {t}
      BY <1>2, <1>12 DEF Leads
    <3>2. Packed(Build, h).selected # {}
      <4>1. PICK e : Assigns(e, DOMAIN Units, b, PackAll(b, Units), Units)
        BY <1>1, <1>4, <1>7, PackingOutcome
      <4>2. e \in [DOMAIN Units -> Packed(Build, h).selected]
        BY <1>4, <4>1 DEF Assigns
      <4> QED BY <1>1, <4>2
    <3> QED BY <1>7, <3>1, <3>2
  <2>3. /\ a \in Candidates(Build) /\ a \in Ids /\ Grp(a) = g /\ a # t
    BY <1>12, <2>1, CandidatesAre DEF GroupIds, Grp, h
  <2>4. Ahead(t, a)
    BY <1>2, <1>12, <2>1, <2>3 DEF Leads
  <2>5. \/ Pay(a) < Pay(t)
        \/ Pay(a) = Pay(t) /\ g <= h
    <3>1. TotalCost(Build, SelectDomains(Build)) = Pay(a) /\ TotalCost(Build, Packed(Build, h).selected) = Pay(t)
      BY <1>9, <2>1, <2>2, AloneCosts, Zenon
    <3> QED BY <1>5, <1>7, <1>9, <3>1
  <2>6. Pay(a) \in Nat /\ Pay(t) \in Nat /\ g \in Nat /\ Grp(t) = h /\ h \in Nat
    BY <1>2, <2>3, BuildIs, VicIs, CostSplits DEF Pay, h
  <2>7. FALSE
    BY <1>12, <2>3, <2>4, <2>5, <2>6 DEF Ahead
  <2> QED BY <2>7
<1> QED BY <1>8, <1>10, <1>11, <1>12 DEF OneChoice

\* Who occupies nodes.
LEMMA OccupantsAre ==
  \A N, w : w \in Occupants(N) <=>
    w \in known /\ \E p \in Pod : WorkloadOf[p] = w /\ pod[p] # "gone" /\ at[p] \in N
BY DEF Occupants, PodsOn

\* A victim of two domains spans them.
LEMMA NoSpan ==
  ASSUME Selects, NEW a \in Ids, NEW b \in Ids, a # b, NEW w \in Vic(a) \cap Vic(b)
  PROVE  Spans(Build, w)
<1> DEFINE S == {id \in DOMAIN Build : w \in GroupVictims(Build[id])}
<1>1. a \in S /\ b \in S /\ S \subseteq DOMAIN Build
  BY DEF Vic, Ids
<1> HIDE DEF S
<1>2. IsFiniteSet(S)
  BY <1>1, BuildIs, FS_Subset DEF IsSnapshot
<1>3. /\ Cardinality(S) \in Nat /\ IsFiniteSet(S \ {a}) /\ Cardinality(S \ {a}) = Cardinality(S) - 1
      /\ Cardinality(S \ {a}) \in Nat
  BY <1>1, <1>2, FS_RemoveElement, FS_CardinalityType
<1>4. Cardinality(S \ {a}) # 0
  BY <1>1, <1>3, FS_EmptySet
<1> QED BY <1>3, <1>4 DEF Spans, S

\* What the first pass selects is ahead of all others.
LEMMA FirstSelects ==
  ASSUME TypeOK, Selects, Uniform, OneChoice, SelectDomains(Build) # {},
         Len(Units) = 1 \/ ~\E w \in Occupants(PlanNodes(Build, SelectDomains(Build))) : Spans(Build, w)
  PROVE  SelectDomains(Build) \in SUBSET Ids /\ Leads(SelectDomains(Build))
<1> DEFINE u == Units[1]
           D == SelectDomains(Build)
<1>1. /\ Units \in Seq(Nat) /\ DOMAIN Units # {} /\ u \in Nat \ {0}
      /\ \A i \in DOMAIN Units : Units[i] = u
  BY AlikeUnits
<1>2. IsSnapshot(Build)
  BY BuildIs
<1>3. PICK g \in Groups(Build) :
        /\ Packed(Build, g).ok /\ D = Packed(Build, g).selected
        /\ \A x \in Groups(Build) : Packed(Build, x).ok
             => \/ TotalCost(Build, D) < TotalCost(Build, Packed(Build, x).selected)
                \/ TotalCost(Build, D) = TotalCost(Build, Packed(Build, x).selected) /\ g <= x
  BY <1>2, SelectsCheapestGroup
<1> DEFINE C == GroupIds(Build, g)
           b == Unpacked(Restrict(Build, C))
           k == PackAll(b, Units)
<1>4. /\ C \in SUBSET Nat /\ IsFiniteSet(C) /\ C \subseteq Candidates(Build) /\ C \subseteq Ids
      /\ b \in Packings(C) /\ b.selected = {} /\ b.ok /\ Packed(Build, g) = k
      /\ \A id \in C : Grp(id) = g /\ b.remaining[id] = Free(id) /\ b.cost[id] = Pay(id)
      /\ \A x, y \in C : PackBetter(b, x, y) <=> Ahead(x, y)
  BY GroupOrder
<1>5. k \in Packings(C)
  BY <1>2, PackedType
<1>6. D \subseteq C
  BY <1>3, <1>4, <1>5 DEF Packings
<1> HIDE DEF C, b, D
<1>7. PICK f : Assigns(f, DOMAIN Units, b, k, Units)
  BY <1>1, <1>3, <1>4, PackingOutcome
<1>8. InOrder(k, b, C, u)
  <2> HIDE DEF u
  <2> QED BY <1>1, <1>4, PackingOrder
<1> HIDE DEF k
<1>9. Spread(D)
  <2>1. f \in [DOMAIN Units -> D]
    BY <1>3, <1>4, <1>7 DEF Assigns
  <2>2. ASSUME NEW id \in D PROVE SumOver(Units, {i \in DOMAIN Units : f[i] = id}) <= Free(id)
    <3> DEFINE S == {i \in DOMAIN Units : f[i] = id}
    <3>1. id \in C /\ DOMAIN b.remaining = C
      BY <1>4, <1>6 DEF Packings
    <3>2. SumOver(Units, S) + k.remaining[id] = b.remaining[id]
      BY <1>7, <3>1 DEF Assigns
    <3>3. SumOver(Units, S) \in Int
      <4>1. S \subseteq DOMAIN Units /\ \A i \in S : Units[i] \in Int
        BY <1>1
      <4> HIDE DEF S
      <4>2. IsFiniteSet(S)
        BY <1>1, <4>1, SeqFinite, FS_Subset
      <4> QED BY <4>1, <4>2, SumOverType
    <3>4. k.remaining[id] \in Nat /\ b.remaining[id] = Free(id)
      BY <1>4, <1>5, <3>1 DEF Packings
    <3> HIDE DEF S
    <3>5. SumOver(Units, S) <= Free(id)
      BY <3>2, <3>3, <3>4
    <3> QED BY <3>5 DEF S
  <2> QED BY <2>1, <2>2 DEF Spread
<1>10. Len(Units) = 1 => \A x, y \in D : x = y
  <2> SUFFICES ASSUME Len(Units) = 1, NEW x \in D, NEW y \in D PROVE x = y
    OBVIOUS
  <2>1. PICK i \in DOMAIN Units : f[i] = x
    BY <1>3, <1>4, <1>7 DEF Assigns
  <2>2. PICK j \in DOMAIN Units : f[j] = y
    BY <1>3, <1>4, <1>7 DEF Assigns
  <2>3. i = j
    BY <1>1
  <2> QED BY <2>1, <2>2, <2>3
<1>11. ASSUME NEW a \in D, NEW x \in Candidates(Build) \ D, Free(x) >= u PROVE Ahead(a, x)
  <2>1. CASE x \in C
    <3>1. x \in C \ k.selected /\ b.remaining[x] >= u /\ a \in k.selected /\ a \in C
      BY <1>3, <1>4, <1>6, <1>11, <2>1
    <3> QED BY <1>4, <1>8, <3>1 DEF InOrder
  <2>2. CASE x \notin C
    <3> DEFINE h == Grp(x)
               E == GroupIds(Build, h)
               e == Unpacked(Restrict(Build, E))
    <3>1. h # g /\ x \in E /\ h \in Groups(Build) /\ x \in Ids /\ a \in Ids /\ Grp(a) = g
      BY <1>4, <1>6, <2>2, CandidatesAre DEF GroupIds, Grp, Groups, C
    <3>2. Len(Units) = 1
      BY <3>1, OneGroup DEF OneChoice
    <3>3. /\ E \in SUBSET Nat /\ IsFiniteSet(E)
          /\ e \in Packings(E) /\ e.selected = {} /\ e.ok /\ Packed(Build, h) = PackAll(e, Units)
          /\ \A id \in E : e.remaining[id] = Free(id) /\ e.cost[id] = Pay(id)
      BY GroupOrder
    <3> HIDE DEF E, e, h
    <3>4. Packed(Build, h).ok /\ \E c \in E : Packed(Build, h).selected = {c} /\ Pay(c) <= Pay(x)
      <4>1. e.remaining[x] >= Units[1]
        BY <1>11, <3>1, <3>3
      <4>2. /\ PackAll(e, Units).ok
            /\ \E c \in E : PackAll(e, Units).selected = {c} /\ e.cost[c] <= e.cost[x]
        BY <1>1, <3>1, <3>2, <3>3, <4>1, OneUnit
      <4> QED BY <3>1, <3>3, <4>2
    <3>5. PICK c \in E : Packed(Build, h).selected = {c} /\ Pay(c) <= Pay(x)
      BY <3>4
    <3>6. TotalCost(Build, D) = Pay(a) /\ TotalCost(Build, Packed(Build, h).selected) = Pay(c)
      <4>1. D = {a}
        BY <1>10, <3>2
      <4> QED BY <3>5, <4>1, AloneCosts, Zenon
    <3>7. \/ Pay(a) < Pay(c)
          \/ Pay(a) = Pay(c) /\ g <= h
      BY <1>3, <3>1, <3>4, <3>6
    <3>8. Pay(a) \in Nat /\ Pay(x) \in Nat /\ g \in Nat /\ Grp(x) = h /\ h \in Nat /\ c \in Ids
      BY <3>1, BuildIs, VicIs, CostSplits DEF Pay, h, E, GroupIds, Candidates, Ids
    <3>9. Pay(c) \in Nat
      BY <3>8, VicIs, CostSplits DEF Pay
    <3> QED BY <3>1, <3>5, <3>7, <3>8, <3>9 DEF Ahead
  <2> QED BY <2>1, <2>2
<1>12. ASSUME Len(Units) # 1, NEW a \in D, NEW x \in Ids \ {a}, NEW w \in Vic(a) \cap Vic(x) PROVE FALSE
  <2>1. Spans(Build, w)
    BY <1>4, <1>6, <1>12, NoSpan
  <2>2. At(a) \subseteq PlanNodes(Build, D)
    <3>1. Build[a].nodes = At(a)
      BY <1>4, <1>6, BuildIs
    <3> QED BY <3>1 DEF PlanNodes
  <2>3. w \in Occupants(PlanNodes(Build, D))
    <3>1. w \in known /\ \E p \in Pod : WorkloadOf[p] = w /\ pod[p] = "running" /\ at[p] \in At(a)
      BY <1>4, <1>6, <1>12, VicIs
    <3> QED BY <2>2, <3>1, OccupantsAre
  <2> QED BY <1>12, <2>1, <2>3 DEF D
<1>13. D # {} /\ D \subseteq Candidates(Build) /\ D \in SUBSET Ids
  BY <1>4, <1>6 DEF D
<1>14. Leads(D)
  BY <1>9, <1>10, <1>11, <1>12, <1>13 DEF Leads
<1> QED BY <1>13, <1>14 DEF D

\* The first pass begins a drain of what it selects, and a later one adds nothing.
LEMMA ReconcileKeeps ==
  ASSUME TypeOK, TypeOK', ReplanInv, Reconcile
  PROVE  ReplanInv'
<1> DEFINE D == SelectDomains(Build)
           N == PlanNodes(Build, D)
<1>1. /\ Selects /\ UNCHANGED <<spec, up, at, rival, known, since, now, pod>>
      /\ \/ /\ D # {} /\ tainted' = tainted \cup N /\ suspended' = suspended \cup Occupants(N)
            /\ steady' = IF tainted # {} THEN steady
                         ELSE Len(Units) = 1 \/ ~\E w \in Occupants(N) : Spans(Build, w)
         \/ D = {} /\ tainted' = {} /\ suspended' = {}
  BY DEF Reconcile, clusterVars
<1>2. Whole'
  BY <1>1 DEF ReplanInv, Whole
<1>3. tainted' = {} => suspended' = {}
  <2> SUFFICES ASSUME D # {}, tainted \cup N = {} PROVE suspended \cup Occupants(N) = {}
    <3> HIDE DEF D, N
    <3> QED BY <1>1
  <2>1. Occupants(N) = {}
    <3> HIDE DEF D, N
    <3> QED BY OccupantsAre
  <2> HIDE DEF D, N
  <2> QED BY <2>1 DEF ReplanInv
<1>4. ASSUME Selects', Uniform', OneChoice', steady', tainted' # {}
      PROVE  Cleared' /\ \E T \in SUBSET Ids' : Drains(T)'
  <2>1. Uniform /\ OneChoice
    BY <1>1, <1>4 DEF Level, GroupLevel, Units, Uniform, OneChoice
  <2>2. \E T \in SUBSET Ids : Leads(T) /\ tainted' = PlanNodes(Build, T)
    <3>1. CASE tainted = {}
      <4>1. D # {} /\ tainted' = N /\ (Len(Units) = 1 \/ ~\E w \in Occupants(N) : Spans(Build, w))
        <5> HIDE DEF D, N
        <5> QED BY <1>1, <1>4, <3>1
      <4>2. D \in SUBSET Ids /\ Leads(D)
        BY <1>1, <2>1, <4>1, FirstSelects
      <4> HIDE DEF D
      <4> QED BY <4>1, <4>2
    <3>2. CASE tainted # {}
      <4>1. steady
        <5> HIDE DEF D, N
        <5> QED BY <1>1, <1>4, <3>2
      <4>2. PICK T \in SUBSET Ids : Leads(T) /\ tainted = PlanNodes(Build, T)
        BY <1>1, <2>1, <3>2, <4>1 DEF ReplanInv, Drains
      <4>3. D # {} /\ D \subseteq T
        BY <1>1, <2>1, <4>2, SelectsAgain
      <4> HIDE DEF D
      <4>4. N \subseteq PlanNodes(Build, T)
        BY <4>3 DEF PlanNodes
      <4> HIDE DEF N
      <4> QED BY <1>1, <4>2, <4>3, <4>4
    <3> QED BY <3>1, <3>2
  <2>3. PICK T \in SUBSET Ids : Leads(T) /\ tainted' = PlanNodes(Build, T)
    BY <2>2
  <2>4. Drains(T)' /\ Ids' = Ids
    BY <1>1, <2>3, LeadsIdle DEF Drains
  <2>5. Cleared'
    <3> HIDE DEF D, N
    <3>1. tainted' = tainted \cup N /\ suspended' = suspended \cup Occupants(N)
      BY <1>1, <1>4
    <3>2. CASE tainted = {}
      <4>1. suspended = {}
        BY <3>2 DEF ReplanInv
      <4> QED BY <1>1, <3>1, <4>1, OccupantsAre, ClusterAssumption DEF Cleared, ReplanInv, Whole, TypeOK, ClusterAssumptions
    <3>3. CASE tainted # {}
      <4>1. Cleared
        BY <1>1, <1>4, <2>1, <3>3 DEF ReplanInv
      <4>2. suspended' \subseteq known'
        BY <1>1, <3>1, <4>1, OccupantsAre DEF Cleared
      <4>3. ASSUME NEW p \in Pod, WorkloadOf[p] \in suspended', pod'[p] = "running"
            PROVE  \E q \in Pod : WorkloadOf[q] = WorkloadOf[p] /\ pod'[q] = "running" /\ at'[q] \in tainted'
        <5>1. CASE WorkloadOf[p] \in suspended
          BY <1>1, <3>1, <4>1, <4>3, <5>1 DEF Cleared
        <5>2. CASE WorkloadOf[p] \in Occupants(N)
          <6>1. PICK q \in Pod : WorkloadOf[q] = WorkloadOf[p] /\ at[q] \in N /\ WorkloadOf[p] \in known
            BY <5>2, OccupantsAre
          <6>2. pod[q] = "running"
            BY <1>1, <4>3, <6>1, ClusterAssumption DEF ReplanInv, Whole, TypeOK, ClusterAssumptions
          <6> QED BY <1>1, <3>1, <6>1, <6>2
        <5> QED BY <3>1, <4>3, <5>1, <5>2
      <4> QED BY <4>2, <4>3 DEF Cleared
    <3> QED BY <3>2, <3>3
  <2> QED BY <2>4, <2>5
<1> QED BY <1>2, <1>3, <1>4 DEF ReplanInv

\* The other changes of the cluster end what DrainStaysInside speaks of.
LEMMA ChangeKeeps ==
  ASSUME ReplanInv, Change
  PROVE  ReplanInv'
BY DEF Change, ReplanInv, Whole

\* No runaway drain, for every cluster, hero and configuration: while nothing but the
\* drain itself changes the cluster, every further pass of the reconcile finds a plan,
\* and finds it within the nodes that are tainted already.  The domains of the first
\* plan are ahead of all others with room, and stay so: an eviction disburdens no
\* other domain more than them, and who comes back burdens only the others.
THEOREM DrainsStayInside == Spec => []DrainStaysInside
<1>1. Init => ReplanInv
  <2> SUFFICES ASSUME Init PROVE ReplanInv
    OBVIOUS
  <2>1. tainted = {} /\ suspended = {}
    BY DEF Init
  <2>2. Whole
    <3> SUFFICES ASSUME NEW p \in Pod, NEW q \in Pod, WorkloadOf[p] # None, WorkloadOf[p] = WorkloadOf[q],
                        pod[p] = "running"
                 PROVE  pod[q] = "running"
      BY DEF Whole
    <3>1. at[p] # None /\ WorkloadOf[p] \in Workload
      BY ClusterAssumption DEF Init, ClusterAssumptions
    <3>2. WorkloadOf[p] \in known
      BY <3>1 DEF Init
    <3>3. at[q] # None
      BY <3>2 DEF Init, PodsOf
    <3> QED BY <3>3 DEF Init
  <2> QED BY <2>1, <2>2 DEF ReplanInv
<1>2. TypeOK /\ TypeOK' /\ ReplanInv /\ [Next]_planVars => ReplanInv'
  <2> SUFFICES ASSUME TypeOK, TypeOK', ReplanInv, [Next]_planVars PROVE ReplanInv'
    OBVIOUS
  <2>1. CASE Reconcile
    BY <2>1, ReconcileKeeps
  <2>2. ASSUME NEW w \in Workload, Evict(w) PROVE ReplanInv'
    BY <2>2, EvictKeeps
  <2>3. ASSUME NEW w \in Workload, Readmit(w) PROVE ReplanInv'
    BY <2>3, ReadmitKeeps
  <2>4. ASSUME NEW p \in Pod, PodGone(p) PROVE ReplanInv'
    <3>1. \A q \in Pod : pod'[q] = "running" <=> pod[q] = "running"
      BY <2>4 DEF PodGone, TypeOK
    <3>2. /\ UNCHANGED <<spec, up, rival, at, known, since, now>>
          /\ UNCHANGED <<tainted, suspended, steady>>
      BY <2>4 DEF PodGone, clusterVars
    <3> QED BY <3>1, <3>2, IdleKeeps
  <2>5. CASE Tick \/ \E w \in Workload : WorkloadDeleted(w)
    BY <2>5, ChangeKeeps DEF Tick, WorkloadDeleted
  <2>6. CASE (\E N \in Downs : NodesChange(N)) \/ \E N \in Rivals : RivalChanges(N)
    BY <2>6, ChangeKeeps DEF NodesChange, RivalChanges
  <2>7. CASE UNCHANGED planVars
    <3>1. /\ UNCHANGED <<spec, up, rival, at, known, since, now>>
          /\ UNCHANGED <<pod, tainted, suspended, steady>>
      BY <2>7 DEF planVars, clusterVars
    <3> QED BY <3>1, IdleKeeps
  <2> QED BY <2>1, <2>2, <2>3, <2>4, <2>5, <2>6, <2>7 DEF Next
<1>3. TypeOK /\ ReplanInv => DrainStaysInside
  <2> SUFFICES ASSUME TypeOK, ReplanInv, Selects, Uniform, OneChoice, steady, tainted # {}
               PROVE  SelectDomains(Build) # {} /\ PlanNodes(Build, SelectDomains(Build)) \subseteq tainted
    BY DEF DrainStaysInside
  <2>1. PICK T \in SUBSET Ids : Leads(T) /\ tainted = PlanNodes(Build, T)
    BY DEF ReplanInv, Drains
  <2>2. SelectDomains(Build) # {} /\ SelectDomains(Build) \subseteq T
    BY <2>1, SelectsAgain
  <2> QED BY <2>1, <2>2 DEF PlanNodes
<1> QED BY <1>1, <1>2, <1>3, PlanTypeCorrect, PTL DEF Spec
=============================================================================
