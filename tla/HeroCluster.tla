---------------------------- MODULE HeroCluster ----------------------------
(***************************************************************************)
(* The cluster objects that the drain controller and the janitor share,    *)
(* the informer caches through which both read them, and the watch events  *)
(* that fill their work queues.  The two reconcile loops keep no memory of *)
(* their own between passes: everything they know is on the Nodes (drain   *)
(* taint, owner, started-at and nudge annotations) and on the victim       *)
(* Workloads (spec.active and the deactivated-for marker).                 *)
(***************************************************************************)
EXTENDS Integers, FiniteSets

CONSTANTS
  Node,          \* nodes, named by numbers: slices.Min picks the least name
  Domain,        \* topology domains at the drain level
  DomainOf,      \* the domain each node is labelled into
  Hero,          \* hero Workloads
  Victim,        \* other tenants' Workloads, each running on one node
  CQ,            \* the ClusterQueue each hero is submitted through
  Priority,      \* the priority of each hero
  QueuedAt,      \* its queue order timestamp
  Name,          \* its place in the order of namespaces and names
  Need,          \* how many nodes of one domain a hero's slice needs
  DrainTimeout,  \* cfg.DrainTimeout, in ticks of the clock
  NudgeInterval, \* cfg.NudgeInterval, in ticks of the clock
  NodeLag,       \* may the Node cache lag the API server?
  WlLag,         \* may the Workload cache lag the API server?
  Faults,        \* which disturbances of the environment may happen
  MaxFaults,     \* bound: how many disturbances happen in one behaviour
  None           \* no hero, no node

ASSUME NodeAssumption    == Node \subseteq Nat /\ IsFiniteSet(Node)
ASSUME DomainAssumption  == DomainOf \in [Node -> Domain]
ASSUME HeroAssumption    == Need \in [Hero -> Nat \ {0}]
ASSUME OrderAssumption   == /\ Priority \in [Hero -> Int] /\ QueuedAt \in [Hero -> Nat]
                            /\ Name \in [Hero -> Nat]
                            /\ \A g, h \in Hero : Name[g] = Name[h] => g = h
ASSUME KeyAssumption     == Hero \cap Victim = {} /\ None \notin Hero \cup Victim \cup Node
ASSUME TimeAssumption    == DrainTimeout \in Nat \ {0} /\ NudgeInterval \in Nat \ {0}
ASSUME LagAssumption     == NodeLag \in BOOLEAN /\ WlLag \in BOOLEAN
ASSUME FaultAssumption   == MaxFaults \in Nat

VARIABLES
  node,     \* the Nodes at the API server
  hero,     \* the hero Workloads at the API server
  vic,      \* the victim Workloads at the API server
  cnode, chero, cvic,  \* the same objects as the informer caches show them
  ndirty,   \* nodes written since the Node cache last caught up
  wdirty,   \* workloads written since the Workload cache last caught up
  dq,       \* workloads waiting in the drain controller's work queue
  jq,       \* nodes waiting in the janitor's work queue
  d,        \* the drain controller's single worker
  j,        \* the janitor's single worker
  owed,     \* heroes with a drain that the completion metric has not counted yet
  term,     \* nodes where pods of a victim's past admission still terminate
  running,  \* heroes all of whose pods are Running
  parked,   \* heroes in kueue's no-fit memory: not tried again until a node changes
  label,    \* heroes whose ClusterQueue carries the hero label
  quota,    \* heroes within their ClusterQueue's nominal quota
  topo,     \* heroes whose levels are in the Topology of their ClusterQueue's flavors
  dry,      \* is the running process in dry-run mode?
  faults    \* how many disturbances have happened

apiVars   == <<node, hero, vic>>
cacheVars == <<cnode, chero, cvic, ndirty, wdirty>>
queueVars == <<dq, jq>>
kueueVars == <<term, running, parked>>
adminVars == <<label, quota, topo, dry, faults>>
vars == <<apiVars, cacheVars, queueVars, d, j, owed, kueueVars, adminVars>>

----------------------------------------------------------------------------
(* Objects.  An RFC3339 annotation is kept as its age in ticks, up to the  *)
(* age at which the code stops telling values apart.                       *)

NoStamp == -1

\* Taint and owner annotation are written and removed by one Update, so one
\* field stands for both; the taint's value is CQ[owner].
NodeRec == [owner : Hero \cup {None}, started : NoStamp..DrainTimeout,
            nudge : NoStamp..NudgeInterval, ready : BOOLEAN]

CleanNode == [owner |-> None, started |-> NoStamp, nudge |-> NoStamp, ready |-> TRUE]

\* "new" is not submitted yet, "stuck" has the QuotaReserved=False no-fit
\* condition, "finished" keeps its admission although its pods are gone.
HeroState == {"new", "pending", "stuck", "admitted", "finished", "gone"}

HeroRec == [st : HeroState, active : BOOLEAN, adm : SUBSET Node]

\* evicted is the Evicted=True condition with the Deactivated reason.
VictimRec == [active : BOOLEAN, marker : Hero \cup {None},
              evicted : BOOLEAN, adm : Node \cup {None}]

Exists(x) == x.st \notin {"new", "gone"}

IsStuckTASNoFit(x) == x.st = "stuck"

----------------------------------------------------------------------------
(* Writes of pkg/taint and pkg/victims to one object.                      *)

\* A faulty variant: a patch in place of the Update, without a version.
UpdateAlwaysAccepted(n) == TRUE

\* A Node Update carries the resourceVersion of the cached copy it started
\* from: the API server accepts it only if nobody wrote the node since.
UpdateAccepted(n) == n \notin ndirty

\* taint.EnsureTaint, the branch that writes.
Tainted(x, h) == [x EXCEPT !.owner = h,
                           !.started = IF x.started = NoStamp THEN 0 ELSE x.started]

\* A faulty variant: the drain annotations stay on the node.
UntaintedStillAnnotated(x) == [x EXCEPT !.owner = None]

\* taint.RemoveOwnedTaint, the branch that writes.
Untainted(x) == [x EXCEPT !.owner = None, !.started = NoStamp, !.nudge = NoStamp]

\* deactivateVictim and victims.Reactivate: merge patches, which the API
\* server applies whatever version of the workload they started from.  A patch
\* holds only what it changes in the copy it is computed from: the marker, unless
\* the copy (of an active victim) has it already, ...
Deactivated(x, copy, h) ==
  [x EXCEPT !.active = FALSE, !.marker = IF copy.marker = h THEN @ ELSE h]

\* A faulty variant: the marker is left for a later patch.
ReactivatedStillMarked(x, was) == [x EXCEPT !.active = TRUE]

\* ... and spec.active, unless it was set in the copy (of a marked victim).
Reactivated(x, was) == [x EXCEPT !.active = was => @, !.marker = None]

----------------------------------------------------------------------------
(* What the caches show.                                                   *)

\* taint.FindDrains over the NodeDrainTainted index.
OwnNodes(h) == {n \in Node : cnode[n].owner = h}

OwnersSeen == {cnode[n].owner : n \in Node} \ {None}

\* The WorkloadDeactivatedFor index.
MarkedFor(h) == {v \in Victim : cvic[v].marker = h}

Live(W) == {v \in W : cvic[v].active}

----------------------------------------------------------------------------
(* Watch events.  N and W are the nodes and workloads whose new version    *)
(* reaches the caches in this step.                                        *)

StuckRequests(ch) == {h \in Hero : IsStuckTASNoFit(ch[h])}

\* A faulty variant: the second result of taint.Owner is not looked at.
MapNodeToEmptyKey(x, ch) == {x.owner}

MapNodeToOwner(x, ch) == IF x.owner # None THEN {x.owner} ELSE StuckRequests(ch)

\* Drain controller: every workload event enqueues the workload itself, a
\* hero's event also every stuck one; a node update that changes what the
\* pipeline reads is mapped through its old and its new version.
DrainEvents(N, W) ==
  W \cup (IF W \cap Hero # {} THEN StuckRequests(chero') ELSE {})
    \cup UNION {MapNodeToOwner(cnode[n], chero') \cup MapNodeToOwner(cnode'[n], chero') :
                  n \in {m \in N : cnode'[m] # cnode[m]}}

\* Janitor: any event of a node that carries the drain taint, and the
\* tainted nodes of a hero that was updated or deleted.
JanitorEvents(N, W) ==
  {n \in N : cnode'[n].owner # None} \cup {n \in Node : cnode'[n].owner \in W}

\* Every step that writes objects ends with Publish: the caches take the
\* write over at once, or stay behind until they catch up (SyncNodes,
\* SyncWorkloads).  D and J are what the step itself leaves in the queues.
Publish(D, J) ==
  LET N == {n \in Node : node'[n] # node[n]}
      W == {h \in Hero : hero'[h] # hero[h]} \cup {v \in Victim : vic'[v] # vic[v]}
      NSeen == IF NodeLag THEN {} ELSE N
      WSeen == IF WlLag THEN {} ELSE W
  IN  /\ cnode' = IF NodeLag THEN cnode ELSE node'
      /\ chero' = IF WlLag THEN chero ELSE hero'
      /\ cvic'  = IF WlLag THEN cvic ELSE vic'
      /\ ndirty' = IF NodeLag THEN ndirty \cup N ELSE {}
      /\ wdirty' = IF WlLag THEN wdirty \cup W ELSE {}
      /\ dq' = D \cup DrainEvents(NSeen, WSeen)
      /\ jq' = J \cup JanitorEvents(NSeen, WSeen)

\* One merge patch of a victim by a controller.
PatchVictim(v, x, D) ==
  /\ vic' = [vic EXCEPT ![v] = x]
  /\ UNCHANGED <<node, hero, parked, faults>>
  /\ Publish(D, jq)

\* Kueue's TAS node watcher: any change of a node, an annotation included,
\* wipes the no-fit memory.
WakeKueue == parked' = IF node' = node THEN parked ELSE {}

----------------------------------------------------------------------------
(* The workers.  A worker's record is what its pass holds in local          *)
(* variables between two calls to the API server.                          *)

\* pc "taint" goes through the plan's nodes, "cycle" through the occupants,
\* "react" through the evicted victims, "abort" through abortDrain.
DrainRec == [pc : {"idle", "taint", "cycle", "react", "abort"},
             hero : Hero \cup {None},   \* the hero being reconciled
             nodes : SUBSET Node,       \* the nodes of its drain
             left : SUBSET Node,        \* those still to be tainted or untainted
             occ : SUBSET Victim,       \* the victims still to be patched
             live : SUBSET Victim,      \* those of them that were listed as active
             pending : BOOLEAN,         \* some occupant has still to leave
             admitted : BOOLEAN]        \* wl.Status.Admission, as read at the start

DrainIdle == [pc |-> "idle", hero |-> None, nodes |-> {}, left |-> {},
              occ |-> {}, live |-> {}, pending |-> FALSE, admitted |-> FALSE]

JanitorRec == [pc : {"idle", "remove", "list", "sweep"}, node : Node \cup {None},
               owner : Hero \cup {None}, occ : SUBSET Victim, live : SUBSET Victim]

JanitorIdle == [pc |-> "idle", node |-> None, owner |-> None, occ |-> {}, live |-> {}]

\* A disturbance, when this instance has it and the bound allows one more.
Fault(f) == f \in Faults /\ faults < MaxFaults /\ faults' = faults + 1

Init ==
  /\ node = [n \in Node |-> CleanNode]
  /\ hero = [h \in Hero |-> [st |-> "new", active |-> TRUE, adm |-> {}]]
  /\ vic \in [Victim -> {x \in VictimRec : x.active /\ x.marker = None /\ ~x.evicted}]
  /\ \A v, w \in Victim : v # w /\ vic[v].adm = vic[w].adm => vic[v].adm = None
  /\ cnode = node /\ chero = hero /\ cvic = vic
  /\ ndirty = {} /\ wdirty = {}
  /\ dq = {} /\ jq = {}
  /\ d = DrainIdle /\ j = JanitorIdle
  /\ owed = {}
  /\ term = [v \in Victim |-> {}]
  /\ running = {} /\ parked = {}
  /\ label = Hero /\ quota = Hero /\ topo = Hero /\ dry = FALSE
  /\ faults = 0
============================================================================
