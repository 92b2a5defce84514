----------------------------- MODULE HeroDrain -----------------------------
(***************************************************************************)
(* The whole system: the drain controller, the janitor and the cluster     *)
(* around them, with the properties that make the drain protocol correct.  *)
(***************************************************************************)
EXTENDS DrainController, JanitorController, KueueEnv

DrainStep   == (\E w \in Hero \cup Victim : DrainReconcile(w)) \/ DrainContinue \/ DrainError

JanitorStep == (\E n \in Node : JanitorReconcile(n)) \/ JanitorContinue \/ JanitorError

Next == DrainStep \/ JanitorStep \/ Scheduler \/ Users \/ Machines

Spec == Init /\ [][Next]_vars

----------------------------------------------------------------------------
(* Fairness.  A work queue hands out its keys in order, so a key that is   *)
(* in the queue again and again is reconciled (strong fairness per key); a *)
(* pass that has started runs on; informers catch up.                      *)

ControllerFairness ==
  /\ \A w \in Hero \cup Victim : SF_vars(DrainReconcile(w))
  /\ \A n \in Node : SF_vars(JanitorReconcile(n))
  /\ WF_vars(DrainContinue) /\ WF_vars(JanitorContinue)
  /\ WF_vars(SyncNodes) /\ WF_vars(SyncWorkloads) /\ WF_vars(Tick)

\* What the controllers rely on kueue for: a deactivated workload is
\* evicted, its pods end, and a hero that is not parked is tried.
EvictionFairness == \A v \in Victim : WF_vars(KueueEvict(v))

KueueFairness ==
  /\ EvictionFairness
  /\ \A v \in Victim, n \in Node : WF_vars(PodGone(v, n))
  /\ \A h \in Hero : SF_vars(KueueTry(h)) /\ WF_vars(HeroSubmit(h)) /\ WF_vars(HeroRuns(h))

ControlledSpec == Spec /\ ControllerFairness /\ EvictionFairness

LiveSpec == Spec /\ ControllerFairness /\ KueueFairness

----------------------------------------------------------------------------
(* Safety.                                                                 *)

ApiType == /\ node \in [Node -> NodeRec] /\ hero \in [Hero -> HeroRec]
           /\ vic \in [Victim -> VictimRec]

CacheType == /\ cnode \in [Node -> NodeRec] /\ chero \in [Hero -> HeroRec]
             /\ cvic \in [Victim -> VictimRec]
             /\ ndirty \subseteq Node /\ wdirty \subseteq Hero \cup Victim

QueueType == dq \subseteq Hero \cup Victim /\ jq \subseteq Node

WorkerType == /\ d \in DrainRec /\ (d.pc = "idle" <=> d.hero = None)
              /\ j \in JanitorRec /\ (j.pc = "idle" <=> j.node = None)
              /\ (j.pc = "idle" <=> j.owner = None)

RestType == /\ owed \subseteq Hero /\ term \in [Victim -> SUBSET Node]
            /\ running \subseteq Hero /\ parked \subseteq Hero
            /\ label \subseteq Hero /\ quota \subseteq Hero /\ topo \subseteq Hero
            /\ dry \in BOOLEAN /\ faults \in Nat

\* Every variable stays in its domain, no empty key enters a work queue, and
\* a worker in the middle of a pass knows whom the pass is for.
TypeOK == ApiType /\ CacheType /\ QueueType /\ WorkerType /\ RestType

\* One drain cluster-wide: all drain taints at the API server name the same
\* hero, although every reconcile computes its turn from the caches alone.
AtMostOneDrain ==
  \A m, n \in Node : node[m].owner # None /\ node[n].owner # None => node[m].owner = node[n].owner

Held == {n \in Node : node[n].owner # None}

Holder == IF Held = {} THEN None ELSE CHOOSE h \in Hero : \E n \in Node : node[n].owner = h

Lock == INSTANCE DrainLock WITH holder <- Holder, held <- Held

\* The taints behave like one lock on the cluster: a second hero gets its
\* first node only after the last node of the first hero is given back.
OneLock == Lock!Spec

\* A drain taint is never handed from one hero to another, and a hero's
\* teardown or abort never removes another hero's taint by way of a stale
\* read: whatever the caches show, ownership changes only through "free".
OwnerNeverStolen ==
  [][\A n \in Node : node[n].owner # None /\ node'[n].owner # None => node'[n].owner = node[n].owner]_vars

\* A drain does not inherit the clock of an earlier one: whatever teardown,
\* abort or restart went before, a node that gets a drain taint has its whole
\* DrainTimeout ahead of it.  (With the clock stripped by hand it may not.)
FreshClock ==
  [][\A n \in Node : node[n].owner = None /\ node'[n].owner # None => node'[n].started = 0]_vars

\* The suspension and its marker travel in one patch: a victim is inactive
\* exactly while it is marked, whichever of the two controllers, sweeping
\* and cycling at the same time, wrote it last.  (Nobody else sets spec.active
\* here: see HandedBackActive.)
SuspendedIsMarked == \A v \in Victim : ~vic[v].active <=> vic[v].marker # None

\* No taint escapes the janitor: a tainted node is in the janitor's queue,
\* or its event is on the way, or the janitor is about to untaint it for
\* the hero that owns it.
DeadlineArmed ==
  \A n \in Node : node[n].owner # None =>
    n \in jq \/ n \in ndirty \/ (j.pc = "remove" /\ j.node = n /\ j.owner = node[n].owner)

\* No suspended victim is forgotten once kueue has evicted it: its key is
\* queued, or its event is on the way.
SuspensionWillEnd ==
  \A v \in Victim : ~vic[v].active /\ vic[v].marker # None /\ vic[v].evicted =>
    v \in dq \/ v \in wdirty

\* A hero to drain for: stuck, active, in a hero ClusterQueue, within quota, and
\* with a topology that resolves; and a controller that does more than report.
Drainable(h) == /\ hero[h].st = "stuck" /\ hero[h].active
                /\ h \in label \cap quota \cap topo /\ ~dry

\* Its key is nowhere, and no event for it is on the way.
Forgotten(h) == Drainable(h) /\ h \notin dq /\ h \notin wdirty /\ d.hero # h

\* The controllers forget no hero: whatever lags, fails, wins the turn or restarts,
\* the only step after which nobody will look at a hero to drain for is an
\* administrator's, who gives it the label, the quota or the topology that it
\* lacked.  (Those objects are not watched: see the README.)
NoHeroIsDropped ==
  [][\A h \in Hero : h \in label \cap quota \cap topo /\ Forgotten(h)' => Forgotten(h)]_vars

----------------------------------------------------------------------------
(* Liveness.                                                               *)

NoTaintOf(h) == \A n \in Node : node[n].owner # h

\* The taints of a hero that is gone, or stays deactivated, are collected
\* for good, whatever the drain controller was doing for it.
AbandonedIsCollected ==
  \A h \in Hero : <>[](hero[h].st = "gone" \/ ~hero[h].active) => <>[]NoTaintOf(h)

\* A suspended victim is handed back, whether the drain serves its hero, is given
\* up, or suspends the victim after the sweep.  (Once it is no longer marked, an
\* inactive victim is the operator's own: see HandedBackActive.)
VictimComesBack ==
  \A v \in Victim : ~vic[v].active /\ vic[v].marker # None ~> vic[v].active \/ vic[v].marker = None

\* A hero that is stuck, and neither deleted nor stopped, gets its nodes.
HeroIsAdmitted ==
  \A h \in Hero : hero[h].st = "stuck" ~> hero[h].st \in {"admitted", "gone"} \/ ~hero[h].active

\* pkg/controller/drain, stuckHeroes: who "can never be drained for" does not stand
\* at the front of the line to "block every other hero forever".  So a hero that could
\* be drained for is not left waiting for ever while no drain is up.  (Deactivated
\* heroes are left out of the line, but a hero over its quota is not.)
LineMovesOn ==
  \A h \in Hero :
    ~<>[](/\ Eligible(h) /\ Resolves(h) /\ SelectDomains(h) # {} /\ ~dry
          /\ \A n \in Node : node[n].owner = None)

----------------------------------------------------------------------------
(* What comments and documents say, and the code does not do.              *)

\* docs/alerting.md: "Every attempt lasts at most drainTimeout".  Once a
\* taint of the drain is past its deadline, the drain comes to an end.
ExpiredDrainEnds ==
  \A h \in Hero :
    (\E n \in Node : node[n].owner = h /\ node[n].started = DrainTimeout) ~> NoTaintOf(h)

\* pkg/victims: "Reactivate unpauses one victim and clears the marker in the
\* same patch", so a victim that loses its marker runs again.  An operator who
\* has reactivated it before, and a stale cache, break that.
HandedBackActive ==
  [][\A v \in Victim : vic[v].marker # None /\ vic'[v].marker = None => vic'[v].active]_vars

\* pkg/controller/drain: "victims still admitted there" are suspended, so a
\* victim that kueue has placed elsewhere is left alone.  (One that is admitted
\* nowhere does not count.)
OnlyOccupantsSuspended ==
  [][\A v \in Victim : vic[v].active /\ ~vic'[v].active => vic[v].adm \in d.nodes \cup {None}]_vars

\* pkg/controller/janitor: drains are counted "at-least-once", since "a rare extra
\* increment beats a silently missing one".  So once the last taint of a drain is
\* gone, and no abort is under way that counts at its end, it has been counted.
EndIsCounted ==
  \A h \in owed : (\E n \in Node : node[n].owner = h) \/ (d.pc = "abort" /\ d.hero = h)
============================================================================
