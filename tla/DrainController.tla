-------------------------- MODULE DrainController --------------------------
(***************************************************************************)
(* pkg/controller/drain: one worker (MaxConcurrentReconciles = 1) that     *)
(* takes a workload from the queue and runs Reconcile.  The decision       *)
(* ladder reads only the caches and is one step; every write to the API    *)
(* server that follows is a step of its own, so that the janitor, kueue    *)
(* and the users interleave with it.  A key is put back in the queue where *)
(* the code returns RequeueAfter or an error.                              *)
(***************************************************************************)
EXTENDS HeroCluster

----------------------------------------------------------------------------
(* The decision ladder of Reconcile, as the caches show hero h.            *)

\* A faulty variant: without the spec.active gate.
LivesDeactivated(h) == Exists(chero[h])

Lives(h) == Exists(chero[h]) /\ chero[h].active

IsHero(h) == h \in label

IsStuck(h) == IsStuckTASNoFit(chero[h])

OverQuota(h) == h \notin quota

\* A faulty variant: deactivated heroes stand in the line as well.
StuckHeroesDeactivated == {g \in Hero : Exists(chero[g]) /\ IsStuck(g) /\ IsHero(g)}

StuckHeroes == {g \in Hero : Lives(g) /\ IsStuck(g) /\ IsHero(g)}

\* The highest priority first, then the longest in the queue, then by name.
HeroBefore(g, h) ==
  \/ Priority[g] > Priority[h]
  \/ /\ Priority[g] = Priority[h]
     /\ \/ QueuedAt[g] < QueuedAt[h]
        \/ QueuedAt[g] = QueuedAt[h] /\ Name[g] < Name[h]

NextHero(S) == CHOOSE g \in S : \A k \in S \ {g} : HeroBefore(g, k)

\* A faulty variant: only the drains of heroes that still live count.
BlockingDrainLive(h) == {g \in OwnersSeen \ {h} : Lives(g)}

BlockingDrain(h) == OwnersSeen \ {h}

\* snapshot.NodeUsable: healthy, and free of any taint but the hero's own.
NodeUsable(n, h) == cnode[n].ready /\ cnode[n].owner \in {None, h}

HasOtherHero(dom, h) ==
  \E g \in Hero \ {h} : /\ chero[g].st = "admitted" /\ IsHero(g)
                        /\ \E n \in chero[g].adm : DomainOf[n] = dom

DomainNodes(dom) == {n \in Node : DomainOf[n] = dom}

\* The domains a plan may pick, for a hero of one slice whose victims are all
\* below its priority: the cheapest one wins, and cost is left out.
SelectDomains(h) ==
  {dom \in Domain : /\ ~HasOtherHero(dom, h)
                    /\ Cardinality({n \in DomainNodes(dom) : NodeUsable(n, h)}) >= Need[h]}

\* Stuck, within quota and still a hero: the phases past Phase 0 apply.
Eligible(h) == Lives(h) /\ IsHero(h) /\ IsStuck(h) /\ ~OverQuota(h)

\* A faulty variant: the line decides alone, whatever drain is up.
HasTurnUnserialized(h) == Eligible(h) /\ NextHero(StuckHeroes) = h

HasTurn(h) == /\ Eligible(h)
              /\ BlockingDrain(h) = {}
              /\ OwnNodes(h) # {} \/ NextHero(StuckHeroes) = h

\* drainLevel: the levels the hero requires are in a Topology that its
\* ClusterQueue's ResourceFlavors lead to.
Resolves(h) == h \in topo

NoPlan(h) == HasTurn(h) /\ Resolves(h) /\ SelectDomains(h) = {}

Waits(h) == (Eligible(h) /\ ~HasTurn(h)) \/ (NoPlan(h) /\ OwnNodes(h) = {})

Aborts(h) == /\ Lives(h) /\ OwnNodes(h) # {}
             /\ \/ ~IsHero(h)
                \/ IsStuck(h) /\ OverQuota(h)
                \/ NoPlan(h)

CyclesOnly(h) == Lives(h) /\ IsHero(h) /\ ~IsStuck(h) /\ OwnNodes(h) # {}

Ignores(h) == \/ ~Lives(h)
              \/ OwnNodes(h) = {} /\ (~IsHero(h) \/ ~IsStuck(h) \/ OverQuota(h))

----------------------------------------------------------------------------
(* The beginning of a pass: w leaves the queue.                            *)

Take(w) == d.pc = "idle" /\ w \in dq

DrainFrame == UNCHANGED <<j, term, running, label, quota, topo, dry>>

ReadOnly == UNCHANGED <<apiVars, cacheVars, jq, parked, faults>>

\* No drain to do and nothing to wait for: Result{}.
DrainIgnore(h) ==
  /\ Take(h) /\ Ignores(h)
  /\ dq' = dq \ {h}
  /\ UNCHANGED <<d, owed>> /\ ReadOnly /\ DrainFrame

\* A faulty variant: Result{} without RequeueAfter.
DrainWaitForgets(h) ==
  /\ Take(h) /\ Waits(h)
  /\ dq' = dq \ {h}
  /\ UNCHANGED <<d, owed>> /\ ReadOnly /\ DrainFrame

\* Queued behind another drain or another hero, or no feasible domain: the
\* key comes back after requeueWhileQueued or requeueNoFeasible.
DrainWait(h) ==
  /\ Take(h) /\ Waits(h)
  /\ UNCHANGED <<dq, d, owed>> /\ ReadOnly /\ DrainFrame

\* drainLevel returns a Result{}, whether a drain of the hero is up or not: the
\* key is gone, and no event of a Topology or ResourceFlavor brings it back.
DrainUnresolved(h) ==
  /\ Take(h) /\ HasTurn(h) /\ ~Resolves(h)
  /\ dq' = dq \ {h}
  /\ UNCHANGED <<d, owed>> /\ ReadOnly /\ DrainFrame

\* Dry-run mode: the plan is reported, and that is all.
DrainReport(h) ==
  /\ Take(h) /\ HasTurn(h) /\ Resolves(h) /\ SelectDomains(h) # {} /\ dry
  /\ dq' = dq \ {h}
  /\ UNCHANGED <<d, owed>> /\ ReadOnly /\ DrainFrame

Begin(h, pc, N, L, O) ==
  /\ d' = [pc |-> pc, hero |-> h, nodes |-> N, left |-> L, occ |-> O,
           live |-> Live(O), pending |-> FALSE, admitted |-> chero[h].st \in {"admitted", "finished"}]
  /\ dq' = dq \ {h}
  /\ UNCHANGED owed /\ ReadOnly /\ DrainFrame

\* handleNonHero, refuseOverQuota or a plan that is no longer feasible:
\* abortDrain, whose SweepFor lists the marked victims first.
DrainAbort(h) ==
  /\ Take(h) /\ Aborts(h)
  /\ Begin(h, "abort", OwnNodes(h), OwnNodes(h), MarkedFor(h))

\* No longer stuck with its own taints up: straight to cycleVictims.
DrainCycle(h) ==
  /\ Take(h) /\ CyclesOnly(h)
  /\ Begin(h, "taint", OwnNodes(h), {}, {})

\* A plan: every node of the selected domain is tainted, usable or not.
DrainStart(h, dom) ==
  /\ Take(h) /\ HasTurn(h) /\ Resolves(h) /\ dom \in SelectDomains(h) /\ ~dry
  /\ Begin(h, "taint", DomainNodes(dom), DomainNodes(dom), {})

----------------------------------------------------------------------------
(* reconcileVictimEvent: one pass over a victim's own event.               *)

EvictedByDeactivation(x) == x.evicted

\* A faulty variant: evicted victims are left to the hero's own pass.
OnlyOrphansReactivated(v) ==
  /\ cvic[v].marker # None /\ ~cvic[v].active
  /\ ~Exists(chero[cvic[v].marker])

NeedsReactivation(v) ==
  /\ cvic[v].marker # None /\ ~cvic[v].active
  /\ ~Exists(chero[cvic[v].marker]) \/ EvictedByDeactivation(cvic[v])

VictimEvent(v) ==
  /\ Take(v)
  /\ \/ /\ NeedsReactivation(v)
        /\ PatchVictim(v, Reactivated(vic[v], FALSE), dq \ {v})
     \/ /\ ~NeedsReactivation(v)
        /\ dq' = dq \ {v}
        /\ ReadOnly
  /\ UNCHANGED <<d, owed>> /\ DrainFrame

----------------------------------------------------------------------------
(* Phase 2a: EnsureTaint over the nodes of the plan.                       *)

\* A pass that ends with an error, or with RequeueAfter.
Requeue == d' = DrainIdle /\ dq' = dq \cup {d.hero}

\* The pass's one write: node n becomes x.
WriteNode(n, x) ==
  /\ node' = [node EXCEPT ![n] = x]
  /\ UNCHANGED <<hero, vic, faults>>
  /\ WakeKueue

\* "Drain started": from no taint of h anywhere to the first one.
DrainBegins(h) == \A n \in Node : node[n].owner # h

EnsureTaint(n) ==
  LET h == d.hero
      Go == d' = [d EXCEPT !.left = @ \ {n}]
  IN  /\ d.pc = "taint" /\ n \in d.left
      /\ \/ /\ cnode[n].owner = h              \* already ours
            /\ Go
            /\ UNCHANGED <<dq, owed>> /\ ReadOnly
         \/ /\ cnode[n].owner \notin {None, h} \* foreign owner: an error
            /\ Requeue
            /\ UNCHANGED owed /\ ReadOnly
         \/ /\ cnode[n].owner = None /\ UpdateAccepted(n)
            /\ WriteNode(n, Tainted(cnode[n], h))
            /\ Publish(dq, jq)
            /\ owed' = IF DrainBegins(h) THEN owed \cup {h} ELSE owed
            /\ Go
         \/ /\ cnode[n].owner = None /\ ~UpdateAccepted(n) \* retries exhausted
            /\ Requeue
            /\ UNCHANGED owed /\ ReadOnly
      /\ DrainFrame

----------------------------------------------------------------------------
(* Phase 2b: cycleVictims.                                                 *)

\* victimWorkloadsOn: a pod counts until it is gone, terminating or not.
VictimWorkloadsOn(N) ==
  {v \in Victim : vic[v].adm \in N \/ term[v] \cap N # {}}

ListOccupants ==
  /\ d.pc = "taint" /\ d.left = {}
  /\ d' = [d EXCEPT !.pc = "cycle", !.occ = VictimWorkloadsOn(d.nodes)]
  /\ UNCHANGED <<dq, owed>> /\ ReadOnly /\ DrainFrame

\* deactivateVictim, or nothing when the cache shows the victim suspended.
SuspendVictim(v) ==
  /\ d.pc = "cycle" /\ v \in d.occ
  /\ d' = [d EXCEPT !.occ = @ \ {v}, !.pending = TRUE]
  /\ \/ /\ cvic[v].active
        /\ PatchVictim(v, Deactivated(vic[v], cvic[v], d.hero), dq)
     \/ /\ ~cvic[v].active
        /\ UNCHANGED dq /\ ReadOnly
  /\ UNCHANGED owed /\ DrainFrame

ListEvicted ==
  /\ d.pc = "cycle" /\ d.occ = {}
  /\ d' = [d EXCEPT !.pc = "react",
                    !.occ = {v \in MarkedFor(d.hero) :
                               ~cvic[v].active /\ EvictedByDeactivation(cvic[v])}]
  /\ UNCHANGED <<dq, owed>> /\ ReadOnly /\ DrainFrame

ReactivateVictim(v) ==
  /\ d.pc = "react" /\ v \in d.occ
  /\ d' = [d EXCEPT !.occ = @ \ {v}]
  /\ PatchVictim(v, Reactivated(vic[v], FALSE), dq)
  /\ UNCHANGED owed /\ DrainFrame

NudgeNode == CHOOSE n \in d.nodes : \A m \in d.nodes : n <= m

\* A faulty variant: a missing annotation counts as a recent nudge.
RecentlyNudgedUnparsed(x) == x.nudge < NudgeInterval

RecentlyNudged(x) == x.nudge # NoStamp /\ x.nudge < NudgeInterval

\* The end of cycleVictims: wait for the occupants, or nudgeWhilePending.
EndCycle ==
  /\ d.pc = "react" /\ d.occ = {}
  /\ \/ /\ d.pending
        /\ Requeue /\ ReadOnly
     \/ /\ ~d.pending /\ (d.admitted \/ d.nodes = {})
        /\ d' = DrainIdle
        /\ UNCHANGED dq /\ ReadOnly
     \/ /\ ~d.pending /\ ~d.admitted /\ d.nodes # {}
        /\ RecentlyNudged(cnode[NudgeNode])
        /\ Requeue /\ ReadOnly
     \/ /\ ~d.pending /\ ~d.admitted /\ d.nodes # {}
        /\ ~RecentlyNudged(cnode[NudgeNode])
        /\ WriteNode(NudgeNode, [node[NudgeNode] EXCEPT !.nudge = 0])
        /\ d' = DrainIdle
        /\ Publish(dq \cup {d.hero}, jq)
  /\ UNCHANGED owed /\ DrainFrame

----------------------------------------------------------------------------
(* abortDrain: SweepFor, then RemoveOwnedTaint on every node of the drain, *)
(* then the completion metric.                                             *)

AbortSweep(v) ==
  /\ d.pc = "abort" /\ v \in d.occ
  /\ d' = [d EXCEPT !.occ = @ \ {v}]
  /\ PatchVictim(v, Reactivated(vic[v], v \in d.live), dq)
  /\ UNCHANGED owed /\ DrainFrame

AbortUntaint(n) ==
  /\ d.pc = "abort" /\ d.occ = {} /\ n \in d.left
  /\ \/ /\ cnode[n].owner # d.hero
        /\ d' = [d EXCEPT !.left = @ \ {n}]
        /\ UNCHANGED dq /\ ReadOnly
     \/ /\ cnode[n].owner = d.hero /\ UpdateAccepted(n)
        /\ WriteNode(n, Untainted(cnode[n]))
        /\ Publish(dq, jq)
        /\ d' = [d EXCEPT !.left = @ \ {n}]
     \/ /\ cnode[n].owner = d.hero /\ ~UpdateAccepted(n)
        /\ Requeue /\ ReadOnly
  /\ UNCHANGED owed /\ DrainFrame

AbortDone ==
  /\ d.pc = "abort" /\ d.occ = {} /\ d.left = {}
  /\ owed' = owed \ {d.hero}
  /\ Requeue /\ ReadOnly /\ DrainFrame

----------------------------------------------------------------------------
\* A call to the API server fails in the middle of a pass: the error
\* requeues the key, what was already written stays.  (An abort that has
\* removed its last taint makes no further call.)
DrainError ==
  /\ d.pc # "idle" /\ Fault("error")
  /\ d.pc = "abort" => d.occ # {} \/ d.left # {}
  /\ Requeue
  /\ UNCHANGED <<apiVars, cacheVars, jq, parked, owed>> /\ DrainFrame

DrainReconcile(w) ==
  \/ w \in Victim /\ VictimEvent(w)
  \/ /\ w \in Hero
     /\ \/ DrainIgnore(w) \/ DrainWait(w) \/ DrainUnresolved(w) \/ DrainReport(w)
        \/ DrainAbort(w) \/ DrainCycle(w)
        \/ \E dom \in Domain : DrainStart(w, dom)

DrainContinue ==
  \/ \E n \in Node : EnsureTaint(n) \/ AbortUntaint(n)
  \/ \E v \in Victim : SuspendVictim(v) \/ ReactivateVictim(v) \/ AbortSweep(v)
  \/ ListOccupants \/ ListEvicted \/ EndCycle \/ AbortDone
============================================================================
