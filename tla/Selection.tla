----------------------------- MODULE Selection -----------------------------
(***************************************************************************)
(* pkg/selection: which domains to drain.  Costs are fixed-point numbers:  *)
(* Scale stands for 1.0, and the three weights add up to it.               *)
(***************************************************************************)
EXTENDS Snapshot, SequencesExt

CONSTANTS
  Priority,            \* spec.priority of each workload
  PodCount,            \* admitted pods of each workload, wherever they run
  ClusterQueue,        \* the ClusterQueue that admitted it
  HeroPriority,        \* the hero's priority
  WeightPriority, WeightPodCount, WeightRuntime,  \* cfg.Weights
  RuntimeHalfLife, CrossCQMultiplier,             \* cfg
  Scale                \* 1.0

\* config.Validate, as far as selection depends on it.
ValidConfig ==
  /\ WeightPriority \in Nat /\ WeightPodCount \in Nat /\ WeightRuntime \in Nat
  /\ WeightPriority + WeightPodCount + WeightRuntime = Scale
  /\ RuntimeHalfLife \in Nat \ {0} /\ CrossCQMultiplier \in Nat \ {0}

ASSUME ConfigAssumption == ValidConfig
ASSUME WorkloadAssumption == /\ Priority \in [Workload -> Int] /\ HeroPriority \in Int
                             /\ PodCount \in [Workload -> Nat]

VARIABLES
  known,   \* workloads whose object still exists
  since,   \* when each workload was admitted
  now      \* the clock

----------------------------------------------------------------------------
(* Victims and their cost.                                                 *)

\* Pods whose workload object is gone are dropped: they are vacating anyway.
GroupVictims(dom) == {WorkloadOf[p] : p \in dom.victims} \cap known

RunningFor(w) == now - since[w]

\* num / den of Scale, 0 when there is nothing to divide.
Ratio(num, den) == IF num <= 0 \/ den <= 0 THEN 0 ELSE (Scale * num) \div den

PHat(w) == IF Ratio(Priority[w], HeroPriority) > Scale THEN Scale
           ELSE Ratio(Priority[w], HeroPriority)

NHat(w) == Ratio(PodCount[w], PodCount[w] + PodTotal(spec))

RHat(w) == Ratio(RunningFor(w), RunningFor(w) + RuntimeHalfLife)

Cost(w) ==
  (IF ClusterQueue[w] = HeroCQ THEN 1 ELSE CrossCQMultiplier)
    * (WeightPriority * PHat(w) + WeightPodCount * NHat(w) + WeightRuntime * RHat(w))

\* A workload that spans domains is evicted, and costed, once.
CostOf(W) == MapThenSumSet(Cost, W)

----------------------------------------------------------------------------
(* Feasibility.                                                            *)

Reclaimable(dom) == Max({0, dom.allocatable - dom.nonReclaimable})

\* A faulty variant: a victim may be the hero's equal.
VictimsUpToHero(W) == \A w \in W : Priority[w] <= HeroPriority

VictimsBelowHero(W) == \A w \in W : Priority[w] < HeroPriority

Feasible(dom) == /\ ~dom.hasOtherHero
                 /\ Reclaimable(dom) > 0
                 /\ VictimsBelowHero(GroupVictims(dom))

----------------------------------------------------------------------------
(* Packing.                                                                *)

\* How many units of the demand have size s or more.
AtLeast(dem, s) == MapThenSumSet(LAMBDA t : dem[t], {t \in DOMAIN dem : t >= s})

\* The demand unit by unit, the largest first.
UnitsOf(dem) ==
  [k \in 1..AtLeast(dem, 0) |->
     CHOOSE s \in DOMAIN dem : k <= AtLeast(dem, s) /\ k > AtLeast(dem, s) - dem[s]]

Units == UnitsOf(Demand(spec))

\* A packing: how far it is, what each candidate has left, what each one
\* costs as long as it is not selected.
MarginalCost(k, id) == IF id \in k.selected THEN 0 ELSE k.cost[id]

\* A faulty variant: room decides before cost.
PackRoomier(k, a, b) ==
  \/ k.remaining[a] > k.remaining[b]
  \/ k.remaining[a] = k.remaining[b] /\ a < b

\* Lowest marginal cost, then already in the plan, then roomier, then ID.
PackBetter(k, a, b) ==
  LET am == MarginalCost(k, a)
      bm == MarginalCost(k, b)
      ain == a \in k.selected
      bin == b \in k.selected
  IN  \/ am < bm
      \/ am = bm /\ ain /\ ~bin
      \/ am = bm /\ ain = bin /\ k.remaining[a] > k.remaining[b]
      \/ am = bm /\ ain = bin /\ k.remaining[a] = k.remaining[b] /\ a < b

\* The candidates that a unit still fits, and the best of a set of them.
Fits(k, unit) == {id \in DOMAIN k.remaining : k.remaining[id] >= unit}

Best(k, C) == CHOOSE a \in C : \A b \in C \ {a} : PackBetter(k, a, b)

\* A faulty variant: the unit is not taken off what the candidate has left.
PlaceUncharged(k, unit) ==
  LET fits == Fits(k, unit)
  IN  IF ~k.ok \/ fits = {} THEN [k EXCEPT !.ok = FALSE]
      ELSE [k EXCEPT !.selected = @ \cup {Best(k, fits)}]

Place(k, unit) ==
  LET fits == Fits(k, unit)
      best == Best(k, fits)
  IN  IF ~k.ok \/ fits = {} THEN [k EXCEPT !.ok = FALSE]
      ELSE [k EXCEPT !.remaining[best] = @ - unit, !.selected = @ \cup {best}]

\* Nothing is packed yet; cand are the candidates of one group.
Unpacked(cand) ==
  [ok |-> TRUE, selected |-> {},
   remaining |-> [id \in DOMAIN cand |-> Reclaimable(cand[id])],
   cost |-> [id \in DOMAIN cand |-> CostOf(GroupVictims(cand[id]))]]

\* Every unit goes to the best candidate it still fits.
PackWithinGroup(cand, units) == FoldLeft(Place, Unpacked(cand), units)

\* What draining the domains D of snapshot s costs.
TotalCost(s, D) == CostOf(UNION {GroupVictims(s[id]) : id \in D})

\* The groups are packed one by one, and the first of the cheapest ones wins.
\* The answer is the set of domains to drain, empty when there is no plan.
SelectDomains(s) ==
  LET cand  == {id \in DOMAIN s : Feasible(s[id])}
      packed == {<<g, PackWithinGroup(Restrict(s, {id \in cand : s[id].group = g}), Units)>> :
                   g \in {s[id].group : id \in cand}}
      plans == {[group |-> k[1], domains |-> k[2].selected, total |-> TotalCost(s, k[2].selected)] :
                  k \in {k \in packed : k[2].ok}}
      Wins(a) == \A b \in plans : a.total < b.total \/ (a.total = b.total /\ a.group <= b.group)
  IN  UNION {a.domains : a \in {a \in plans : Wins(a)}}

PlanNodes(s, D) == UNION {s[id].nodes : id \in D}
============================================================================
