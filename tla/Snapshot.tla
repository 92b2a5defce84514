------------------------------ MODULE Snapshot ------------------------------
(***************************************************************************)
(* pkg/snapshot: the cluster as one hero's selection sees it, cut into the *)
(* domains of the drain level.  Build is a set of operators over the state *)
(* of nodes and pods; a domain is the value of the level's node label.     *)
(***************************************************************************)
EXTENDS HeroPredicates

CONSTANTS
  Node,         \* nodes
  Label,        \* Label[n][l]: the node's label for level l, 0 when it has none;
                \* numbers, because selection breaks ties by the order of IDs
  GPU,          \* allocatable GPUs of each node
  Workload,     \* other tenants' workloads
  Pod,          \* pods that request GPUs
  WorkloadOf,   \* the workload annotation of a pod, or None
  PodGPU,       \* GPUs a pod requests
  NonBlocking,  \* pods with one of cfg.NonBlockingPodLabels
  None          \* no workload, no node, no plan

VARIABLES
  spec,     \* the hero's podsets
  up,       \* nodes Ready, schedulable and free of taints other than a drain's
  tainted,  \* nodes with the hero's own drain taint
  at,       \* the node each pod is bound to
  pod,      \* each pod's life: "running", "ending" (deletionTimestamp), "gone"
  rival     \* the hosts in the topology assignments of other admitted heroes

ClusterAssumptions ==
  /\ IsFiniteSet(Node) /\ IsFiniteSet(Pod) /\ IsFiniteSet(Workload)
  /\ Label \in [Node -> [Range(Levels) -> Nat]]
  /\ GPU \in [Node -> Nat] /\ PodGPU \in [Pod -> Nat \ {0}]
  /\ WorkloadOf \in [Pod -> Workload \cup {None}] /\ None \notin Workload
  /\ NonBlocking \subseteq Pod

ASSUME ClusterAssumption == ClusterAssumptions

\* A topology as kueue has it: every node is labelled for every level, and nodes
\* that share a domain share all of its ancestors.
Nested ==
  /\ \A n \in Node, l \in Range(Levels) : Label[n][l] # 0
  /\ \A m, n \in Node : \A i, j \in DOMAIN Levels :
       i <= j /\ Label[m][Levels[j]] = Label[n][Levels[j]] => Label[m][Levels[i]] = Label[n][Levels[i]]

----------------------------------------------------------------------------
(* Levels the snapshot is cut at: Reconcile's drainLevel.                  *)

Level == CoarsestLevel(RequiredTopologyLevels(spec))

GroupLevel == GroupingLevel(spec, Level)

\* Every level the hero names is in the hierarchy; otherwise nothing happens.
LevelsResolve == Level # NoLevel /\ InHierarchy(GroupingLevels(spec))

----------------------------------------------------------------------------
(* Nodes and pods.                                                         *)

\* A faulty variant: the hero's own drain taint disqualifies the node too.
NodeUsableUntainted(n) == n \in up /\ n \notin tainted

NodeUsable(n) == n \in up

Classify(p) == IF WorkloadOf[p] # None THEN "victim"
               ELSE IF p \in NonBlocking THEN "nonBlocking" ELSE "nonReclaimable"

\* The pods of a class on the nodes N.  A terminating pod counts for nothing.
Counted(N, class) == {p \in Pod : pod[p] = "running" /\ at[p] \in N /\ Classify(p) = class}

----------------------------------------------------------------------------
(* Build: one record per value of the level's label.                       *)

HasOtherHero(N) == rival \cap N # {}

\* A faulty variant: the required level is not looked at.
NoGroup(N, g) == 0

\* The ancestor at level g: 0 when there is no such level, or no label.
Group(N, g) ==
  LET seen == {Label[n][g] : n \in N} \ {0}
  IN  IF g = NoLevel \/ seen = {} THEN 0 ELSE CHOOSE x \in seen : TRUE

\* The domain of the nodes N: usable or not, all of them are part of it, and
\* their victims count; only usable ones count for capacity.
Domain(N, g) ==
  LET usable == {n \in N : NodeUsable(n)}
  IN  [nodes |-> N,
       group |-> Group(N, g),
       allocatable |-> MapThenSumSet(LAMBDA n : GPU[n], usable),
       nonReclaimable |-> MapThenSumSet(LAMBDA p : PodGPU[p], Counted(usable, "nonReclaimable")),
       victims |-> Counted(N, "victim"),
       hasOtherHero |-> HasOtherHero(N)]

Build ==
  LET level == Level
      g     == GroupLevel
  IN  [id \in {Label[n][level] : n \in Node} \ {0} |->
         Domain({n \in Node : Label[n][level] = id}, g)]
============================================================================
