# A model of the hero workload controller

`kueue-hero-workload-controller` makes room for very large ("hero") kueue
Workloads. A hero that kueue cannot place is given a topology domain: its nodes
are tainted, the workloads on them are suspended one by one, evicted by kueue and
handed back outside the domain, kueue is nudged to try the hero again, and a
janitor takes the taints away when they no longer serve anybody. Two reconcile
loops do this. They share no memory: what a drain is, whose it is and whom it
suspended is written on Nodes and Workloads, and both loops read these objects
through informer caches that may lag.

The project models this twice. `HeroDrain` is the drain protocol: the two
controllers, the caches and watches they see the cluster through, and the cluster
around them, write by write. `DrainPlan` is planning: which domains a hero's podsets
ask for, what a snapshot of the cluster shows, which domains greedy packing selects,
and what becomes of that choice while the drain changes the cluster, pass by pass.

## Inventory

| Component | State | Operations | What makes it correct |
|---|---|---|---|
| drain controller (`pkg/controller/drain`) | none between passes | `Reconcile` for a hero or a victim, `cycleVictims`, `nudgeWhilePending`, `abortDrain` | one drain at a time; a stuck hero is not forgotten; a hero that can be helped gets its nodes; only occupants are suspended |
| janitor (`pkg/controller/janitor`) | none between passes | `Reconcile` for a tainted node, `teardown`, `restartClock` | no taint is forgotten or outlives its use; every drain's end is counted |
| taint operations (`pkg/taint`) | taint, owner, started-at and nudge annotations of Nodes | `EnsureTaint`, `RemoveOwnedTaint`, `FindDrains`, `NudgeKueue` | a taint is never handed from hero to hero |
| victim marker (`pkg/victims`) | `spec.active` and the deactivated-for annotation of Workloads | `Reactivate`, `SweepFor` | suspended exactly while marked; every victim comes back |
| order (`pkg/drain`) | none | `NextHero`, `BlockingDrain` | the same winner for everyone; the line moves |
| snapshot, selection (`pkg/snapshot`, `pkg/selection`) | none | `Build`, `NodeUsable`, `SelectDomains`, `Cost` | a plan that kueue can place the hero on, never touches another hero, and stays the plan while it is carried out; a hero that can be helped has one |
| hero predicates (`pkg/hero`) | none | `IsHero`, `IsStuckTASNoFit`, `Demand`, topology levels | the plan is cut at the right level, in the right amounts |
| indexes, caches (`pkg/index`, `pkg/cache`) | informer caches | listing by field | an index answers what the full list would |
| metrics, config, main, chart | counters; flags | - | the completion counter misses no drain (it does: `Uncounted`) |

The controllers interact through the objects alone, with one exception: the
janitor sends a "nudge" over a bounded Go channel that wakes the stuck heroes.
Hard to test: a pass decides on cached objects and writes several objects one
after the other, while the other controller, kueue, users and operators write the
same objects; Updates carry a version and fail on conflict, patches do not;
teardown goes node by node; a crash, an error or a dropped nudge can come between
any two writes; and whatever happens, some queue must still hold the key.
`PROJECT.json` lists these hazards at their lines.

## Modules

| Module | Models |
|---|---|
| `HeroCluster` | Nodes, hero and victim Workloads at the API server; the caches; the writes of `pkg/taint` and `pkg/victims`; the watch mappings; the two work queues; the workers' local variables |
| `DrainController` | `pkg/controller/drain`, with `pkg/drain` and what a plan needs of `pkg/snapshot` and `pkg/selection` |
| `JanitorController` | `pkg/controller/janitor` |
| `KueueEnv` | kueue, kubelet, users, administrators, the clock, informers, restart (external) |
| `HeroDrain` | their composition: `Next`, fairness, properties, refinement mapping |
| `DrainLock` | the abstract specification: a drain is a lock on the cluster |
| `HeroPredicates` | `pkg/hero`: slice podsets, drain and grouping level, demand, tolerations |
| `Snapshot` | `pkg/snapshot`: the cluster cut into domains (extends `HeroPredicates`) |
| `Selection` | `pkg/selection`: victims, cost, feasibility, greedy packing (extends `Snapshot`) |
| `DrainPlan` | passes of a hero's `Reconcile` over a changing cluster (extends `Selection`) |
| `HeroDrainProofs`, `LockProofs`, `WakeProofs` | theorems about `HeroDrain`: types and caches; ownership, serialisation and clocks; taints, victims and stuck heroes |
| `FoldProofs` | induction, recursion and sums over finite sets, in a form the provers can use |
| `SelectionProofs`, `PlanProofs`, `ReplanProofs`, `PlacementProofs` | theorems about `Selection`; about every plan of `DrainPlan`; about the plans of one drain; about plans and kueue's placements |
| `MCHeroDrain`, `MCDrainPlan` | instances for TLC; one `.cfg` for each run |

### State and actions of `HeroDrain`

`node`, `hero`, `vic` are the objects at the API server, `cnode`, `chero`, `cvic`
what the caches show. A Node has `owner` (drain taint plus owner annotation, which
one Update writes and one Update removes), `started` and `nudge` (annotations, as
ages in ticks; -1 for none) and `ready`. A victim has `active`, `marker`,
`evicted` (Evicted=True with the Deactivated reason) and the node it is admitted
on; `term` are nodes where pods of a past admission still terminate. A hero's `st`
condenses its conditions.

Every write ends with `Publish`: with no lag the cache shows it at once and the
watch events enter the queues; with `NodeLag` or `WlLag` the object becomes dirty
and `SyncNodes` or `SyncWorkloads` delivers it later, together with every other
pending write of that type. `UpdateAccepted` is the version check: an Update from
a cached copy is refused while the object is dirty. `retry.RetryOnConflict` is the
controller simply taking the step later, after the cache caught up, or giving up.
A merge patch is applied to the object as it is, but holds only the difference to
the copy it was computed from: `Reactivated(x, was)` removes the marker and sets
`spec.active` only if it was not set in the copy (`was`), `Deactivated` writes the
marker only if the copy has another. `d.live` and `j.live` are the victims a worker
listed as active: that is what a stale copy can do, see `Stranded`.

`HeroBefore` is `heroBefore`: priority, then queue order timestamp, then name. The
timestamp is a constant of a hero, in the model as long as kueue does not evict it.

A pass of either worker starts with one step that takes a key from the queue and
runs the decision ladder on the caches; each write after it is its own step. The
drain controller's `d.pc` is `taint` (Phase 2a), `cycle` and `react` (the two loops
of `cycleVictims`) or `abort`; the janitor's `j.pc` is `remove`, `list` and `sweep`.
`RequeueAfter` leaves the key in the queue, since the model does not time
requeues; `Result{}` takes it out: for a hero with nothing to do (`DrainIgnore`), one
whose topology does not resolve (`DrainUnresolved`), and in dry-run mode
(`DrainReport`). An error return (a conflict, a foreign
owner, a failing call) puts it back. A restart empties the workers and refills the
queues from the fresh lists. `owed` is the one history variable: heroes whose
drain has started and has not been counted as completed.

### State and actions of `DrainPlan`

`spec` are the hero's podsets: slice level, slice size, required level, number of
pods, GPUs of a pod, tolerations. `up` are the nodes that are healthy, schedulable
and free of foreign taints, `tainted` those of the drain, `at` and `pod` where each
GPU pod is and whether it runs, terminates or is gone, `rival` the hosts of other
admitted heroes, `known`, `since` and `now` what the cost of a victim depends on.
`Build` and `SelectDomains` are functions of this state. `Reconcile` is one pass,
the first one for a hero kueue has no place for (`Stuck`): with a plan it taints its nodes and suspends every occupant, without one it aborts
a drain that is up. The rest is what the drain sets in motion (`Evict`, `PodGone`,
`Readmit`) and what others do meanwhile (`NodesChange`, `RivalChanges`,
`WorkloadDeleted`, `Tick`).

The reference is `KueueFits`: kueue's own question, pod by pod. Is there a placement
of the hero's pods on the given nodes in which the pods of a slice share a domain of
the slice level, those of a podset one of its required level, and no node takes
more than it has? Selection never asks it; it sums GPUs over domains. `Room` is what a
node has once every evictable pod is gone.

Costs are fixed-point numbers, in the run fortieths of the weights' sum. They are
rounded down (a third is 13), which may make two costs equal that are not; what the
run says of costs, it says of the rounded ones. `steady` is a history
variable: since the drain began only the drain itself has changed the cluster.

### What is abstracted in `HeroDrain`

* Time is ages in ticks; `DrainTimeout` and `NudgeInterval` are one tick in every
  run. The clock ticks in `Stale` and `Expired` only, where "not yet", "just now" and
  "past" all occur. The other runs show nothing of timeouts; in `Admit` a node is
  nudged once.
* A hero has one slice in one domain and needs `Need` usable nodes there. Which
  feasible domain is the cheapest is a free choice (`DrainPlan` has the rest). Victims
  are below the hero's priority and nothing on a node is non-reclaimable; `"nofit"` in
  `Faults` lets kueue refuse a hero for capacity the model does not show.
* The deciding reads of one pass happen in one step. `abortDrain`'s list of marked
  victims belongs to it, and so does the second read in `restartClock`. Pods
  (`term`, `running`) are read without lag.
* `label`, `quota` and `topo` are the heroes whose ClusterQueue has the hero label, whose
  quota suffices, and whose levels `drainLevel` finds in a Topology. Administrators
  change them; they are read without lag. A read of a Topology that fails for once,
  which `topologyLevels` swallows, is a topology that goes and comes back.
* Nobody watches ClusterQueues, ResourceFlavors or Topologies, in the code as in the
  model: a hero that is refused for one of them is not looked at again when it changes,
  until some other event brings its key back. `NoHeroIsDropped` excepts this step of the
  administrator, and nothing else.
* `dry` is the process's dry-run mode, which a restart may switch on or off. The code
  returns before the first taint, but a hero that owns taints from before the restart
  is still cycled and aborted: `config.go:122` ("without tainting nodes or touching
  victim workloads") is true only of a controller that finds no drain up.

## Runs

Passing runs, all but the last with `MCHeroDrain`:

| Run | Instance | Checks |
|---|---|---|
| `Serial` | 2 heroes, 2 domains of one node; Workload cache lags; errors, deletion, restart, a change of quota or topology | `TypeOK`, `AtMostOneDrain`, `OneLock` (refinement), `NoHeroIsDropped` |
| `Stale` | 2 heroes, 1 node; both caches lag; errors, restart, deletion, clock | `DeadlineArmed`, `OwnerNeverStolen`, `FreshClock` |
| `Victims` | 1 hero, a domain of 2 nodes, 1 victim; Workload cache lags; eleven kinds of disturbance, and dry-run mode | `SuspendedIsMarked`, `SuspensionWillEnd` |
| `Abandon` | 2 heroes in line for 1 node; Node cache lags; deletion, stop switch, restart | `AbandonedIsCollected`, `LineMovesOn` |
| `Admit` | 1 hero, domain of 2 nodes, 1 victim; Workload cache lags; deletion, restart, or an operator's hand on the victim | `HeroIsAdmitted`, `VictimComesBack` |
| `Plan` | `MCDrainPlan`: 5 nodes of one GPU in 3 racks of 2 blocks; 3 tenants with 4 pods and a daemon, wherever they may be; 5 shapes of hero; a node down, another hero | `TypeOK`, `PlanServesHero`, `PlanHasRoom`, `PlanKeepsOff`, `NoPlanMeansNoFit`, `CheapestForOneSlice`, `DrainStaysInside` |

* `OneLock`: the taints implement `DrainLock`, with `Held` the tainted nodes and
  `Holder` their owner. It says more than `AtMostOneDrain`: also between two
  states a second hero gets its first node only after the last one of the first.
* `OwnerNeverStolen` is about stale Updates; `DeadlineArmed`, `SuspensionWillEnd`
  and `NoHeroIsDropped` say that for each thing left to do a queue holds a key
  or an event is on its way, at every moment, through errors and restarts.
  `NoHeroIsDropped` is about steps: a hero to drain for (stuck, active, labelled, within
  quota, with a topology that resolves) was forgotten before the step, or is not
  forgotten after it.
* `FreshClock`: `EnsureTaint` keeps a started-at annotation it finds, so a drain has
  its whole deadline only because nothing leaves one behind.
* `AbandonedIsCollected` and `VictimComesBack` say that what is queued is done: taints are
  collected for good although a pass that began before may taint again, and a victim
  is handed back even when it is suspended after the sweep. A victim without a marker is
  the operator's own, so `VictimComesBack` ends there.
* `LineMovesOn`: while no drain is up, a hero that could be drained for does not wait for
  ever. In `Abandon` the hero before it in the line may be stopped.
* `HeroIsAdmitted` depends on the nudge: kueue parks a hero it cannot fit, and
  nothing else tells it that the last pod of a victim is gone.
* `PlanServesHero`: a plan's nodes, once empty, hold the hero as kueue places it. It
  speaks of heroes whose slice podsets name one slice level (`OneLevel`): a plan for
  several is cut at the coarsest, where a sum over a block can hide that no rack has
  room. Pods of one GPU on nodes of one GPU: with larger pods the sum over a domain
  also hides fragmentation inside nodes, which the code accepts.
* `PlanHasRoom`: every slice has a domain of the plan to go to, no domain is given more
  than draining it frees, and none is drained that is given nothing. Packing never says
  where it puts a slice: the property asks for some assignment that explains the plan.
* `PlanKeepsOff`: a plan has no host of another admitted hero, no node with a running
  workload that is not below the hero, and domains of one group only.
* `NoPlanMeansNoFit`: without a plan no drain of drainable domains would help. Greedy
  packing is complete when all slices are equal (`Uniform`); with slices of 3, 2 and 2
  GPUs and racks of 4 and 3 it finds nothing although 2 + 2 and 3 fit. It also leaves out
  heroes several podsets of which have required levels: selection keeps all of them
  in one group, kueue each in its own. For both the comment of `NoFeasibleDomains`
  ("no domain set can cover the demand even after eviction", `select.go:44-47`) says
  too much. Partial slices are demanded in full, hence `WholeSlices`.
* `CheapestForOneSlice`: for one slice greedy is optimal; for several it is not and
  does not claim to be.
* `DrainStaysInside`: no runaway drain. While only the drain itself changes the cluster
  every further pass finds its plan within the tainted nodes. Heroes of several
  slices with a victim that spans domains are left out: its eviction empties both
  domains, costs change, and the next pass may prefer an untouched one. So are heroes of
  several slices with a required level (`OneChoice`): take two slices to be put in one
  block, a block A of one rack with victims of cost 2 and 36, and a block B of a rack b1
  with room for one slice and a victim of cost 19 and a rack b2 with room for two and a
  victim of cost 20. Greedy packing fills b1 and then needs b2, 39 in all, and A wins with 38. The
  victim of cost 2 leaves and is admitted on b1, which now costs 21: packing puts both slices
  on b2, B costs 20, and the second pass moves there. So are
  changes of the clock, since costs of victims grow at different rates. `reconciler.go:219`
  expects such a changed decision; `docs/alerting.md:64` does not mention it.

Violation runs, each a sentence of a comment or a document that the code does not
keep (`PROJECT.json`, `findings`):

| Run | Property | The behaviour |
|---|---|---|
| `TwoDrains` | `AtMostOneDrain` | the gate reads a Node cache that does not show the first hero's taint yet |
| `Expired` | `ExpiredDrainEnds` | between the teardowns of two expired nodes the drain controller taints the first again, with a new clock |
| `Moved` | `OnlyOccupantsSuspended` | a victim that kueue has placed outside the drain is suspended there, for a pod that still terminates on a drained node |
| `Uncounted` | `EndIsCounted` | the Node cache lags, and neither of two teardowns in a row takes itself for the last one |
| `Blocked` | `LineMovesOn` | a hero over quota stands at the front of the line and is never drained for |
| `Stranded` | `HandedBackActive` | an operator starts a suspended victim, the drain suspends it again, and a sweep that listed it in between clears the marker but not the suspension |

`TwoDrains` is what `Serial` does not cover: it sets `NodeLag`. `Blocked` is the line of
`Abandon` with a change of quota in place of the stop switch; a hero that finds no
feasible domain, or whose topology does not resolve, blocks the line in the same way. In
`Moved` a first pass suspends the victim and hands it back once it is evicted; the second
lists it as an occupant for the pod that still terminates, and suspends it although
kueue has placed it on a third node by then. In `Stranded` nothing brings the victim back: without a marker no sweep
lists it, and its own events are ignored.

`teardown` counts before it removes, for the sake of the comment at
`janitor/reconciler.go:293-295`: "The trade is at-least-once". The completion counter
misses a drain all the same, in three ways:

* the Node cache lags: of two teardowns in a row the second still sees the first node's
  taint, so neither is "the last". This is the run `Uncounted`; it takes no failure,
  restart or abort;
* a domain of two nodes, a change of quota and an error: the janitor decides to take down
  one node, not the last; the abort of the same drain frees the other and fails before it
  counts; the teardown then removes the last taint;
* a change of quota and back: the janitor has counted a drain and is about to remove its
  last taint, an abort removes it first, the hero is drained for again on the same node,
  and the teardown removes the taint of the second drain, which nobody counts.

No passing run has `EndIsCounted`, and nothing is proved about the counter.

Patches without a version also reach nodes whose drain has ended. A nudge decided before
a teardown lands after it and stays, although `nudge.go:53-54` says that it "never
outlives its drain"; a later drain of the node within `NudgeInterval` waits that much
longer for its first nudge. A clock restarted after somebody stripped it can do the same,
and then `FreshClock` fails: the next drain of the node starts with an old clock. And a
pass that listed its occupants before a teardown can suspend one after the teardown's
sweep; the victim does come back (`VictimComesBack`, run `Admit`).

**Bounds.** `MaxFaults` bounds the disturbances of one behaviour (one in passing
runs, at any moment). Two heroes are what serialisation is about, and no rule of the
code depends on a third; in `Serial` each could have a domain of its own, in `Stale` and
`Abandon` they want the same node. Two nodes make a domain that is tainted and torn
down in steps, with a last node and one before it; one victim is what the cycle of
suspension is about, since victims do not interact except by the capacity they take.
Cluster size and the number of disturbances are unbounded in the theorems.
In `Plan`, three racks of two nodes, one and two, in blocks of two racks and one, give
a choice within a block, a choice between blocks, and racks too small for a slice; a
tenant of two pods can span racks and blocks, one tenant is of another ClusterQueue and
older, one is not below the hero, and the daemon cannot be moved. `MaxMoves = 1`: while
a drain is up one victim returns, or one other change happens, at any moment of it.
The two pods of one workload are alike, and so are the two nodes of a rack (`SYMMETRY`;
the run has no liveness property).
Runs in which the cluster may come to rest say `CHECK_DEADLOCK FALSE`; with a clock
that ticks there is always a step.

**Fairness.** `ControllerFairness`: a work queue hands out keys in order, so a key
that is queued again and again is reconciled (strong fairness for each key, since
the one worker is busy in between); a pass that has started runs on (weak); an
informer catches up and time passes (weak). `KueueFairness` is what the design
relies on kueue for: a deactivated workload is evicted, its pods end, a hero that
is not parked is tried. `Admit` assumes both (`LiveSpec`). `Abandon` assumes of kueue
eviction only (`ControlledSpec`): it may never place anybody. No fairness is assumed of
disturbances.

## Proofs

For all finite sets of nodes (named by numbers, for `slices.Min`), all heroes,
victims and domains, any lag unless stated, and any number of disturbances:

| Theorem | States |
|---|---|
| `TypeCorrect` | `TypeOK` |
| `CachesSound` | a cached object is the real one unless it is dirty |
| `OwnersNeverStolen` | `OwnerNeverStolen` |
| `OneDrain` | `AtMostOneDrain`, if the Node cache does not lag |
| `TaintsAreOneLock` | `OneLock`, if the Node cache does not lag |
| `LineIsTotal` | `HeroBefore` is a strict total order |
| `ClocksAreFresh` | `FreshClock`, if nobody strips a clock |
| `NoTaintIsForgotten` | `DeadlineArmed` |
| `MarkerTravelsWithSuspension` | `SuspendedIsMarked`, if only the controllers set a victim's `spec.active` |
| `NoVictimIsForgotten` | `SuspensionWillEnd` |
| `NoHeroIsForgotten` | `NoHeroIsDropped` |
| `PackingIsDecided` | `PackBetter` is a strict total order of the candidates |
| `SlicesHoldThePods` | `ChunkCount` rounds up, and no further |
| `CostIsBounded` | with a valid configuration a victim costs at most 1, times the multiplier |
| `ChunksStayTogether` | a unit that fits a domain of the plan adds no domain to it |
| `PlanTypeCorrect` | `TypeOK` of `DrainPlan` |
| `PlansKeepOff` | `PlanKeepsOff` |
| `PlansHaveRoom` | `PlanHasRoom` |
| `OneSliceIsCheapest` | `CheapestForOneSlice` |
| `NoPlanMeansNoRoom` | with equal slices and no plan, no group's feasible domains hold the slices |
| `DrainsStayInside` | `DrainStaysInside` |
| `PlansServe` | `PlanServesHero`, if levels are nested, the hero's pods all ask for g GPUs and nodes, less the pods that stay, have multiples of g (`OnePodSize`), and no podset requires a level below its slices (`SlicesInside`) |
| `RefusalsAreRight` | `NoPlanMeansNoFit`, if the topology's levels are nested (`Nested` in `Snapshot`; the instance's are) |

They rest on the assumptions named in `HeroCluster` or, for planning, in `Snapshot`
(finite sets of nodes, pods and workloads; the labels that name domains are numbers),
`Selection` (a valid configuration) and `DrainPlan` (podsets are records of naturals).

*Types.* `TypeOK` is inductive by itself; it has one step for each action. The
only arithmetic is that the least node exists (`LeastNat`, from well-foundedness).

*Ownership.* `CacheSound` is what a controller may conclude from a cached object.
With it `OwnerSteps` shows that a step leaves all owners alone, frees one node or
claims one free node for the hero of the running pass: an accepted Update started
from the current object.

*Serialisation.* `AtMostOneDrain` is not inductive: a pass that passed the gate
taints node after node without asking again. `SlotTaken` adds that while a plan is
being tainted nobody but its hero owns a taint. It is established by the gate,
where `~NodeLag` is needed, and kept because there is one worker. `TwoDrains` shows
that the hypothesis cannot be dropped. The refinement adds that the `CHOOSE` in
`Holder` has one candidate.

*Clocks.* `FreshClock` follows from `ClockWithTaint`: a node, and every cached copy of
one, has a started-at annotation exactly while it has an owner. Then `EnsureTaint`, which
decides on a copy without an owner, has no annotation to keep, and `restartClock` never
runs. Stripping breaks the first half, hence the hypothesis.

*Nothing is forgotten.* `WritesWake`: a written object is in a queue or dirty, and
a dirty one reaches a queue. `VictimKeyTaken` and `NodeKeyTaken`: which steps take
a key away. The invariants then follow from what these few steps decide on a cached
object which, not being dirty, is the real one.

*Stuck heroes.* `NoHeroIsDropped` needs two invariants. A pass that read the hero as
admitted ends without putting its key back; `AdmittedPass` says that if the hero is stuck
again by then, its event is queued or on its way. And `nudgeWhilePending` returns
silently over a drain without nodes: `PassHasNodes` says that no pass has one, since a
hero needs at least one node of the domain it is given. `StuckPass` goes through the ways
a pass can begin: one over a hero to drain for keeps the key or starts to work, and only a
hero that lacks its label, quota or topology, or a controller in dry-run mode, is left with a
`Result{}`. `PassBegins`, `PassKeeps` and `PassEnds` say what a worker may rely on from its
first step to its last.

*Markers.* `SuspendedIsMarked` is not inductive: a patch computed from an old copy could
leave half of its change out. `CopiesMarked` adds that the cached copies, old as they may
be, are suspended exactly while marked, and `NobodyLive` that no worker has listed a
marked victim as active; then every reactivation is a whole one. `Stranded` shows that
the hypothesis cannot be dropped.

*Folds.* Demand, units, room, cost and packing are folds of the community modules, which are
recursive functions on the subsets of a finite set. The induction theorems of the library
take an operator, which the provers cannot instantiate; `FoldProofs` states induction with
sets instead (`NatsInside`, `SubsetsInside`: a set that contains the start and is closed
under the step contains everything), derives from it that a recursion over the subsets of
a finite set has a solution with values where the step keeps them (`SetRecursion`), and
that sums do not depend on the order of their terms (`SumOverStep`).

*Packing.* `PlaceType` and `PackAllPacks` say that packing goes from packing to packing;
`AssignsNext` carries along an assignment of the units placed so far: a domain has its room
less what it was given, and is selected exactly if it was given something. `PackingOutcome`
is its end, and gives `PlansHaveRoom`. `BestIsBest` (a finite strict order has a first
element) with `OneUnit` and `SelectsCheapestGroup` gives `OneSliceIsCheapest`. For
`NoPlanMeansNoRoom`, `UniformPacking` counts: when a unit finds no home each domain has less
than one unit left, so it was given as many as it can hold, and the units placed, fewer than
all of them, are as many as any assignment can place (`CountByClass`). `CountedPacking` is
the same for an "assignment" of which only the numbers are known.

*Keeping off.* `Feasible` reads a domain of the snapshot; `DomainType` and `BuildType` relate
it to nodes and pods of the cluster, `PackedType` and `PlanDomains` the plan to feasible
domains of one group.

*Replanning.* `DrainStaysInside` compares the plans of two passes. `ReplanInv` says what is
left of the first one: workloads run whole; a suspended one that still runs has a pod on a
tainted node; and the tainted nodes are those of a set of domains that `Leads`: it has room
for the slices, every domain of it comes before every other candidate with room, by
cost, room and ID, and if there are several none shares a victim with another domain. Eviction can only make a tainted domain cheaper, a victim that comes back
can only make another one dearer, and no pod that stays moves: `Leads` is kept. `PackInside`
says that packing, which looks at marginal costs, does not leave such a set, and a pass that
taints no new domain keeps the rest of the invariant.

*Refusals.* `RefusalsAreRight` starts from a placement that kueue would accept. `RoomInv`: what
cannot be moved never overflows a node. Because levels are nested, all the pods of a slice
are in one domain of the drain level (`SliceInOneDomain`), a domain that `Feasible` accepts
(`DrainableDomain`), and all of them in one group (`PlacedInOneGroup`). `SlicesCounted` says that
there are as many slices as units, `SlicesHold` that a domain with k of them has room for k
units; the sums over nodes, pods and slices are exchanged by `SumByClass`. `CountedPacking` then
says that packing this group would have succeeded, so there was a plan. Without nesting a slice
need not lie in one domain of a coarser level, and selection and kueue do not speak of
the same domains.

*Service.* `PlansServe` builds the placement from the assignment of `PlanHasRoom`. There are as
many slices of a size as units (`SlicesOfSize`, `UnitsOfSize`), so each slice gets a unit of its
own, and with it a domain (`SlicesGetUnits`). `PodsCounted`: the pods of a domain ask for no more than
its units. `FreeIsRoom`: what its drain frees is what its usable nodes have; here it is needed that
pods without a workload are not evicted (`FixedRun`), since the snapshot counts running pods
and kueue all that are not gone. With pods of one size both sides count in pods, and
`MatchByClass` puts them on nodes domain by domain. A required level is kept because the
domains share the finest one (`RequiredShared`). Without `OnePodSize` the sum over a domain
hides fragmentation inside nodes; a required level below the drain level is dropped
(`topology.go:85`), hence `SlicesInside`; with two slice levels (`OneLevel`) the property
would be false.

Only model-checked:

* the liveness properties `AbandonedIsCollected`, `VictimComesBack`, `HeroIsAdmitted` and
  `LineMovesOn`: fairness and `ENABLED` are out of the prover's reach.

## Not modelled

* In `HeroDrain`, GPU quantities, and eviction timestamps that move a hero back in the
  line.
* The matching of messages and reasons in `IsStuckTASNoFit`, and which of the two reasons
  `SelectDomains` gives without a plan (both end in a wait).
* Foreign taints under the drain key, an owner annotation stripped from a tainted node,
  deleted nodes, victims that are deleted or finish in the middle of a pass, pod caches
  that lag, two replicas without leader election. So the comment at `order.go:60-64`, that
  taints without an owner hold up every new drain, is covered by no property.
* Domain IDs are label values: two racks of the same name in different blocks are one
  domain, in the code as in the model, and the instance has none.
* Cache transforms, loading of the configuration, probes and manifests have no behaviour
  of their own.

## Plan

1. Taint shapes: the taint taken apart into key, effect, value and annotations; foreign
   taints; what `FindDrains`, the index and the janitor's predicate each count; a
   stripped owner.
2. In `KueueEnv`: victims that end or are deleted, deleted nodes, a pod cache that lags,
   a second replica.
3. `IsStuckTASNoFit` by condition, reason and message fragments in each detection mode.
