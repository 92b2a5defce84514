----------------------------- MODULE DrainPlan -----------------------------
(***************************************************************************)
(* A drain from the side of its plan.  Every pass of the hero's reconcile  *)
(* selects its domains afresh, from a cluster that the drain itself is     *)
(* changing: victims are suspended, their pods end, kueue puts them        *)
(* elsewhere.  A pass is one step here; what interleaves with its writes   *)
(* is the subject of HeroDrain.                                            *)
(***************************************************************************)
EXTENDS Selection

CONSTANTS
  HeroSpecs,   \* the heroes of this instance, as sequences of podsets
  Downs,       \* sets of nodes that may be down
  Rivals,      \* sets of hosts that other admitted heroes may have
  AdmittedAt,  \* when each workload was admitted
  MaxMoves     \* bound: how often others act on the cluster while a drain is up

ASSUME PlanAssumption ==
  /\ \A wl \in HeroSpecs :
       /\ wl \in Seq(Range(wl))
       /\ \A i \in DOMAIN wl : wl[i].size \in Nat /\ wl[i].count \in Nat /\ wl[i].gpu \in Nat
  /\ Rivals \subseteq SUBSET Node /\ AdmittedAt \in [Workload -> Int] /\ MaxMoves \in Nat

VARIABLES
  suspended,  \* workloads suspended for this drain, not evicted yet
  steady,     \* history: only the drain itself changed the cluster since it began
  moves       \* how often others have acted

clusterVars == <<spec, up, at, rival, known, since, now>>
planVars == <<clusterVars, tainted, pod, suspended, steady, moves>>

PodsOf(w) == {p \in Pod : WorkloadOf[p] = w}

PodsOn(n) == {p \in Pod : at[p] = n /\ pod[p] # "gone"}

----------------------------------------------------------------------------
(* What kueue asks of a placement, pod by pod: the reference.              *)

HeroPods == UNION {{<<i, k>> : k \in 1..spec[i].count} : i \in SlicePodSets(spec)}

SameSlice(s, t) == (s[2] - 1) \div spec[s[1]].size = (t[2] - 1) \div spec[s[1]].size

\* What node n has for the hero now, and once every evictable pod is gone.
Unused == [n \in Node |-> GPU[n] - MapThenSumSet(LAMBDA p : PodGPU[p], PodsOn(n))]

Room == [n \in Node |-> GPU[n] - MapThenSumSet(LAMBDA p : PodGPU[p],
                      {p \in PodsOn(n) : WorkloadOf[p] = None /\ p \notin NonBlocking})]

\* The pods of a slice share a domain of the slice level, those of a podset
\* one of its required level, and no node takes more than it has room for.
KueueFits(N, has) ==
  LET pods == HeroPods
      able == {n \in N \cap up : \E s \in pods : has[n] >= spec[s[1]].gpu}
      Asks(S) == MapThenSumSet(LAMBDA s : spec[s[1]].gpu, S)
  IN  \E place \in [pods -> able] :
        /\ \A s, t \in pods : s[1] = t[1] =>
             LET ps == spec[s[1]] IN
             /\ SameSlice(s, t) => Label[place[s]][ps.slice] = Label[place[t]][ps.slice]
             /\ ps.required # NoLevel => Label[place[s]][ps.required] = Label[place[t]][ps.required]
        /\ \A n \in able : Asks({s \in pods : place[s] = n}) <= has[n]

----------------------------------------------------------------------------
\* The hero's reconcile gets as far as selection.
Selects == IsHero(spec) /\ LevelsResolve

\* The hero is stuck: as things are, kueue has no place for it.
Stuck == ~KueueFits(Node \ rival, Unused)

\* Other tenants are placed whole or not at all, and no pod is on another
\* hero's host.
Init ==
  /\ at \in [Pod -> Node \cup {None}]
  /\ pod = [p \in Pod |-> IF at[p] = None THEN "gone" ELSE "running"]
  /\ \A n \in Node : Unused[n] >= 0
  /\ known = {w \in Workload : None \notin {at[p] : p \in PodsOf(w)}}
  /\ \A p \in Pod : WorkloadOf[p] \in Workload \ known => at[p] = None
  /\ up \in {Node \ S : S \in Downs}
  /\ rival \in Rivals /\ \A n \in rival : PodsOn(n) = {}
  /\ spec \in HeroSpecs
  /\ since = AdmittedAt /\ now = 0
  /\ tainted = {} /\ suspended = {} /\ steady = TRUE /\ moves = 0

----------------------------------------------------------------------------
(* The hero's reconcile, once it is stuck and has its turn.                *)

\* A faulty variant: a pod without a workload is not left out.
OccupantsOfAnyPod(N) == {WorkloadOf[p] : p \in UNION {PodsOn(n) : n \in N}}

\* Workloads with a pod on the nodes, terminating or not.
Occupants(N) == {WorkloadOf[p] : p \in UNION {PodsOn(n) : n \in N}} \cap known

Spans(s, w) == Cardinality({id \in DOMAIN s : w \in GroupVictims(s[id])}) > 1

\* A drain begins for a stuck hero.  With a plan: taint every node of its
\* domains, then suspend every occupant.  Without one, while the hero's own
\* taints are up: abortDrain.
Reconcile ==
  LET s == Build
      D == SelectDomains(s)
      N == PlanNodes(s, D)
  IN  /\ Selects /\ (tainted = {} => Stuck)
      /\ \/ /\ D # {}
            /\ tainted' = tainted \cup N
            /\ suspended' = suspended \cup Occupants(N)
            /\ steady' = IF tainted # {} THEN steady
                         ELSE Len(Units) = 1 \/ ~\E w \in Occupants(N) : Spans(s, w)
         \/ /\ D = {} /\ tainted # {}
            /\ tainted' = {} /\ suspended' = {} /\ steady' = TRUE
      /\ UNCHANGED <<clusterVars, pod, moves>>

----------------------------------------------------------------------------
(* What the drain sets in motion.                                          *)

Move == moves < MaxMoves /\ moves' = moves + 1

\* Kueue evicts a suspended workload as a whole, and it is handed back.
Evict(w) ==
  /\ w \in suspended
  /\ suspended' = suspended \ {w}
  /\ pod' = [p \in Pod |-> IF p \in PodsOf(w) /\ pod[p] = "running" THEN "ending" ELSE pod[p]]
  /\ UNCHANGED <<clusterVars, tainted, steady, moves>>

PodGone(p) ==
  /\ pod[p] = "ending"
  /\ pod' = [pod EXCEPT ![p] = "gone"]
  /\ UNCHANGED <<clusterVars, tainted, suspended, steady, moves>>

\* An evicted workload is admitted again, outside the drain.
Readmit(w) ==
  /\ Move
  /\ w \in known \ suspended /\ \A p \in PodsOf(w) : pod[p] = "gone"
  /\ \E f \in [PodsOf(w) -> {n \in up \ tainted : Unused[n] > 0}] :
        at' = [p \in Pod |-> IF p \in PodsOf(w) THEN f[p] ELSE at[p]]
  /\ pod' = [p \in Pod |-> IF p \in PodsOf(w) THEN "running" ELSE pod[p]]
  /\ \A n \in Node : Unused'[n] >= 0
  /\ since' = [since EXCEPT ![w] = now]
  /\ UNCHANGED <<spec, up, rival, known, now, tainted, suspended, steady>>

----------------------------------------------------------------------------
(* Other changes of the cluster.                                           *)

\* They matter while a drain is up: before it, they are another beginning.
Change == /\ tainted # {} /\ Move
          /\ steady' = FALSE
          /\ UNCHANGED <<spec, at, since, tainted, pod, suspended>>

NodesChange(N) ==
  /\ Change /\ up # Node \ N /\ up' = Node \ N
  /\ UNCHANGED <<rival, known, now>>

RivalChanges(N) ==
  /\ Change /\ N # rival /\ rival' = N /\ \A n \in N : PodsOn(n) = {}
  /\ UNCHANGED <<up, known, now>>

WorkloadDeleted(w) ==
  /\ Change /\ w \in known /\ known' = known \ {w}
  /\ UNCHANGED <<up, rival, now>>

\* Costs grow with the victims' age, and not all at the same rate.
Tick ==
  /\ Change /\ now' = now + 1
  /\ UNCHANGED <<up, rival, known>>

Next ==
  \/ Reconcile
  \/ \E w \in Workload : Evict(w) \/ Readmit(w) \/ WorkloadDeleted(w)
  \/ \E p \in Pod : PodGone(p)
  \/ \E N \in Downs : NodesChange(N)
  \/ \E N \in Rivals : RivalChanges(N)
  \/ Tick

Spec == Init /\ [][Next]_planVars

----------------------------------------------------------------------------
(* Safety.                                                                 *)

\* Every variable stays in its domain: a pass taints nodes and suspends workloads,
\* and nothing else.
TypeOK ==
  /\ spec \in HeroSpecs /\ up \subseteq Node /\ tainted \subseteq Node /\ rival \subseteq Node
  /\ at \in [Pod -> Node \cup {None}] /\ pod \in [Pod -> {"running", "ending", "gone"}]
  /\ known \subseteq Workload /\ suspended \subseteq Workload
  /\ since \in [Workload -> Int] /\ now \in Nat /\ steady \in BOOLEAN /\ moves \in 0..MaxMoves

OneLevel == Cardinality(RequiredTopologyLevels(spec)) = 1

Uniform == Cardinality(DOMAIN Demand(spec)) = 1

WholeSlices == \A i \in SlicePodSets(spec) : spec[i].count % spec[i].size = 0

\* What PlanServesHero takes for granted when nodes have more than one GPU: all
\* slice pods ask for g of them, and what stays on a node leaves a multiple of g.
OnePodSize(g) ==
  /\ \A n \in Node : GPU[n] % g = 0
  /\ \A p \in Pod : WorkloadOf[p] = None /\ p \notin NonBlocking => PodGPU[p] % g = 0
  /\ \A wl \in HeroSpecs : \A i \in SlicePodSets(wl) : wl[i].gpu = g

\* And of required levels: a podset is not kept in less than a slice may spread over.
SlicesInside ==
  \A wl \in HeroSpecs : \A i \in SlicePodSets(wl) :
    {wl[i].slice, wl[i].required} \subseteq Range(Levels) => Index(wl[i].required) <= Index(wl[i].slice)

\* Nobody is evicted for nothing: once the domains of a plan are empty, kueue
\* can place the whole hero on their nodes, inside every level its podsets
\* require.
PlanServesHero ==
  LET s == Build
      N == PlanNodes(s, SelectDomains(s))
  IN  Selects /\ OneLevel /\ N # {} => KueueFits(N, Room)

\* Every slice has a domain of the plan to go to, no domain is given more than
\* its drain frees, and none is drained that is not given a slice.
PlanHasRoom ==
  LET s == Build
      D == SelectDomains(s)
      units == Units
      Given(f, id) == {i \in DOMAIN units : f[i] = id}
  IN  Selects /\ D # {} => \E f \in [DOMAIN units -> D] : \A id \in D :
        /\ Given(f, id) # {}
        /\ MapThenSumSet(LAMBDA i : units[i], Given(f, id)) <= Reclaimable(s[id])

\* A drain respects who is there: no node of a plan belongs to another hero,
\* no workload that runs on one has the hero's priority or a higher one, and
\* all of its domains share the ancestor that the hero requires.
PlanKeepsOff ==
  LET s == Build
      D == SelectDomains(s)
      N == PlanNodes(s, D)
  IN  Selects => /\ N \cap rival = {}
                 /\ \A p \in Pod : pod[p] = "running" /\ at[p] \in N /\ WorkloadOf[p] \in known
                                     => Priority[WorkloadOf[p]] < HeroPriority
                 /\ \A a, b \in D : s[a].group = s[b].group

\* The nodes that a drain may empty: in no domain of the hero's coarsest level
\* is there another hero, or a workload that is not below this one.
Drainable ==
  LET top == CHOOSE l \in RequiredTopologyLevels(spec) :
               \A m \in RequiredTopologyLevels(spec) : Index(l) <= Index(m)
      Fixed(p) == /\ pod[p] = "running" /\ WorkloadOf[p] \in known
                  /\ Priority[WorkloadOf[p]] >= HeroPriority
      Taken(n) == n \in rival \/ \E p \in PodsOn(n) : Fixed(p)
  IN  {n \in Node : ~\E m \in Node : Label[m][top] = Label[n][top] /\ Taken(m)}

\* pkg/selection: NoFeasibleDomains means that "no domain set can cover the
\* demand even after eviction", and the event says "draining cannot help".
\* Without a plan, kueue has no place for the hero however many drainable
\* domains are emptied.  Slices of several sizes, and podsets that require
\* levels of their own, break it.
DrainingCannotHelp ==
  Selects /\ WholeSlices /\ SelectDomains(Build) = {} => ~KueueFits(Drainable, Room)

\* The same for heroes whose slices are all alike, at most one podset of which
\* has a required level to keep: a hero is never refused a drain that helps.
NoPlanMeansNoFit ==
  Uniform /\ (Cardinality(SlicePodSets(spec)) = 1 \/ GroupingLevels(spec) = {}) => DrainingCannotHelp

\* A hero of one slice disturbs as little as possible: no other feasible
\* domain with room for the slice has cheaper victims.
CheapestForOneSlice ==
  LET s == Build
      D == SelectDomains(s)
      Other == {id \in DOMAIN s : Feasible(s[id]) /\ Reclaimable(s[id]) >= Units[1]}
  IN  Selects /\ Len(Units) = 1 /\ D # {} => \A id \in Other : TotalCost(s, D) <= TotalCost(s, {id})

\* What a drain may rely on: one slice, or slices that no required level keeps
\* together.  Between the domains of a required level greedy packing compares
\* plans by their total, and a victim that comes back can make another one the
\* cheaper plan.
OneChoice == Len(Units) = 1 \/ GroupLevel = NoLevel

\* No runaway drain: while only the drain itself changes the cluster, its
\* victims leaving and coming back elsewhere, every further pass finds a plan
\* again, and finds it within the nodes that are tainted already.
DrainStaysInside ==
  LET s == Build
      D == SelectDomains(s)
  IN  Selects /\ Uniform /\ OneChoice /\ steady /\ tainted # {} => D # {} /\ PlanNodes(s, D) \subseteq tainted
============================================================================
