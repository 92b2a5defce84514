------------------------------ MODULE KueueEnv ------------------------------
(***************************************************************************)
(* What happens around the two controllers: kueue's scheduler and evictor, *)
(* pods that start and go away, users who submit and delete heroes,        *)
(* administrators who change ClusterQueues, nodes that fail, the clock,    *)
(* the informers that catch up, and a restart of the controller process.   *)
(* None of this is under src/: it is what the controllers rely on kueue    *)
(* 0.16.9 and the API server for, in the shape the e2e fake of kueue has.  *)
(***************************************************************************)
EXTENDS HeroCluster

EnvFrame == UNCHANGED <<d, j, owed>>

\* Writes of the environment: one hero, one victim or one node.
WriteHero(h, x) == /\ hero' = [hero EXCEPT ![h] = x]
                   /\ UNCHANGED <<node, vic>> /\ Publish(dq, jq) /\ EnvFrame

WriteVictim(v, x) == /\ vic' = [vic EXCEPT ![v] = x]
                     /\ UNCHANGED <<node, hero>> /\ Publish(dq, jq) /\ EnvFrame

ChangeNode(n, x) == /\ node' = [node EXCEPT ![n] = x]
                    /\ UNCHANGED <<hero, vic>> /\ WakeKueue
                    /\ Publish(dq, jq) /\ EnvFrame

----------------------------------------------------------------------------
(* Kueue.                                                                  *)

\* No pod of anyone else is on n, or still terminating there.
Free(n) == /\ \A v \in Victim : vic[v].adm # n /\ n \notin term[v]
           /\ \A g \in Hero : hero[g].st = "admitted" => n \notin hero[g].adm

\* A hero's pods tolerate the drain taint with the value of their own CQ.
Tolerates(h, n) == node[n].owner = None \/ CQ[node[n].owner] = CQ[h]

Placements(h) ==
  {S \in SUBSET {n \in Node : node[n].ready /\ Free(n) /\ Tolerates(h, n)} :
     Cardinality(S) = Need[h] /\ \A m, n \in S : DomainOf[m] = DomainOf[n]}

Schedulable(h) == /\ hero[h].st \in {"pending", "stuck"} /\ hero[h].active
                  /\ h \notin parked

KueueAdmitHero(h, S) ==
  /\ Schedulable(h) /\ h \in quota /\ S \in Placements(h)
  /\ WriteHero(h, [hero[h] EXCEPT !.st = "admitted", !.adm = S])
  /\ UNCHANGED <<kueueVars, adminVars>>

\* A no-fit is written to the status and remembered: the hero is parked.
\* "nofit": capacity is also held by pods that this model does not show.
KueueRejectHero(h) ==
  /\ Schedulable(h) /\ (h \notin quota \/ Placements(h) = {} \/ "nofit" \in Faults)
  /\ WriteHero(h, [hero[h] EXCEPT !.st = "stuck"])
  /\ parked' = parked \cup {h}
  /\ UNCHANGED <<term, running, adminVars>>

KueueTry(h) == KueueRejectHero(h) \/ \E S \in SUBSET Node : KueueAdmitHero(h, S)

\* Kueue forgets a no-fit for reasons of its own.
KueueWake ==
  /\ parked # {} /\ "wake" \in Faults
  /\ parked' = {}
  /\ UNCHANGED <<apiVars, cacheVars, queueVars, term, running, adminVars>> /\ EnvFrame

\* A deactivated victim is evicted; its pods start to terminate.
KueueEvict(v) ==
  /\ ~vic[v].active /\ ~vic[v].evicted
  /\ WriteVictim(v, [vic[v] EXCEPT !.evicted = TRUE, !.adm = None])
  /\ term' = [term EXCEPT ![v] = @ \cup ({vic[v].adm} \ {None})]
  /\ UNCHANGED <<running, parked, adminVars>>

\* A victim tolerates no drain taint: it is admitted outside the drain.
KueueAdmit(v, n) ==
  /\ vic[v].active /\ vic[v].adm = None
  /\ node[n].ready /\ node[n].owner = None /\ Free(n)
  /\ WriteVictim(v, [vic[v] EXCEPT !.evicted = FALSE, !.adm = n])
  /\ UNCHANGED <<kueueVars, adminVars>>

\* Nothing tells kueue, or either controller, that the last pod is gone.
PodGone(v, n) ==
  /\ n \in term[v]
  /\ term' = [term EXCEPT ![v] = @ \ {n}]
  /\ UNCHANGED <<apiVars, cacheVars, queueVars, running, parked, adminVars>> /\ EnvFrame

----------------------------------------------------------------------------
(* The life of a hero.                                                     *)

HeroSubmit(h) ==
  /\ hero[h].st = "new"
  /\ WriteHero(h, [hero[h] EXCEPT !.st = "pending"])
  /\ UNCHANGED <<kueueVars, adminVars>>

\* The last pod reaches Running: mapPodToTaintedNodes wakes the janitor.
HeroRuns(h) ==
  /\ hero[h].st = "admitted" /\ h \notin running
  /\ running' = running \cup {h}
  /\ jq' = jq \cup OwnNodes(h)
  /\ UNCHANGED <<apiVars, cacheVars, dq, term, parked, adminVars>> /\ EnvFrame

\* A finished hero keeps its admission in its status.
HeroFinishes(h) ==
  /\ hero[h].st = "admitted" /\ Fault("finish")
  /\ WriteHero(h, [hero[h] EXCEPT !.st = "finished"])
  /\ running' = running \ {h}
  /\ UNCHANGED <<term, parked, label, quota, topo, dry>>

\* Preempted, or a pod failed: the hero is back in the queue.
HeroEvicted(h) ==
  /\ hero[h].st = "admitted" /\ Fault("evict")
  /\ WriteHero(h, [hero[h] EXCEPT !.st = "pending", !.adm = {}])
  /\ running' = running \ {h}
  /\ UNCHANGED <<term, parked, label, quota, topo, dry>>

HeroDelete(h) ==
  /\ Exists(hero[h]) /\ Fault("delete")
  /\ WriteHero(h, [hero[h] EXCEPT !.st = "gone", !.adm = {}])
  /\ running' = running \ {h} /\ parked' = parked \ {h}
  /\ UNCHANGED <<term, label, quota, topo, dry>>

\* spec.active, the operator's stop switch.  The stuck condition survives.
HeroToggle(h) ==
  /\ hero[h].st \in {"pending", "stuck"} /\ Fault("toggle")
  /\ WriteHero(h, [hero[h] EXCEPT !.active = ~@])
  /\ UNCHANGED <<kueueVars, label, quota, topo, dry>>

\* An operator starts or stops another tenant's workload, marked or not.
VictimToggle(v) ==
  /\ Fault("vtoggle")
  /\ WriteVictim(v, [vic[v] EXCEPT !.active = ~@])
  /\ UNCHANGED <<kueueVars, label, quota, topo, dry>>

----------------------------------------------------------------------------
(* Administrators and nodes.  Nobody watches ClusterQueues,                *)
(* ResourceFlavors or Topologies.                                          *)

Flip(S, x) == IF x \in S THEN S \ {x} ELSE S \cup {x}

LabelChange(h) ==
  /\ Fault("label") /\ label' = Flip(label, h)
  /\ UNCHANGED <<apiVars, cacheVars, queueVars, kueueVars, quota, topo, dry>> /\ EnvFrame

QuotaChange(h) ==
  /\ Fault("quota") /\ quota' = Flip(quota, h)
  /\ UNCHANGED <<apiVars, cacheVars, queueVars, kueueVars, label, topo, dry>> /\ EnvFrame

\* A ResourceFlavor or Topology that a hero's ClusterQueue leads to appears,
\* changes its levels, or goes away.
TopologyChange(h) ==
  /\ Fault("topology") /\ topo' = Flip(topo, h)
  /\ UNCHANGED <<apiVars, cacheVars, queueVars, kueueVars, label, quota, dry>> /\ EnvFrame

NodeHealth(n) ==
  /\ Fault("node")
  /\ ChangeNode(n, [node[n] EXCEPT !.ready = ~@])
  /\ UNCHANGED <<term, running, label, quota, topo, dry>>

\* Somebody strips the drain-started-at annotation.
StripClock(n) ==
  /\ node[n].started # NoStamp /\ Fault("strip")
  /\ ChangeNode(n, [node[n] EXCEPT !.started = NoStamp])
  /\ UNCHANGED <<term, running, label, quota, topo, dry>>

----------------------------------------------------------------------------
(* Time, informers, restart.                                               *)

Older(age, cap) == IF age = NoStamp \/ age = cap THEN age ELSE age + 1

Aged(x) == [x EXCEPT !.started = Older(@, DrainTimeout), !.nudge = Older(@, NudgeInterval)]

\* Both copies of an annotation hold the same time, so both grow older.
Tick ==
  /\ "tick" \in Faults
  /\ node' = [n \in Node |-> Aged(node[n])]
  /\ cnode' = [n \in Node |-> Aged(cnode[n])]
  /\ UNCHANGED <<hero, vic, chero, cvic, ndirty, wdirty, queueVars, kueueVars, adminVars>>
  /\ EnvFrame

\* The informer of one type catches up, and delivers the events.
SyncNodes ==
  /\ ndirty # {}
  /\ cnode' = node /\ ndirty' = {}
  /\ UNCHANGED <<chero, cvic, wdirty>>
  /\ dq' = dq \cup DrainEvents(ndirty, {}) /\ jq' = jq \cup JanitorEvents(ndirty, {})
  /\ UNCHANGED <<apiVars, kueueVars, adminVars>> /\ EnvFrame

SyncWorkloads ==
  /\ wdirty # {}
  /\ chero' = hero /\ cvic' = vic /\ wdirty' = {}
  /\ UNCHANGED <<cnode, ndirty>>
  /\ dq' = dq \cup DrainEvents({}, wdirty) /\ jq' = jq \cup JanitorEvents({}, wdirty)
  /\ UNCHANGED <<apiVars, kueueVars, adminVars>> /\ EnvFrame

\* The process restarts: local state is lost, the caches are listed afresh
\* and every object is delivered as a Create event.  "dryrun": the new process
\* may have been configured to report what it would do.
Crash ==
  /\ Fault("crash")
  /\ d' = DrainIdle /\ j' = JanitorIdle
  /\ cnode' = node /\ chero' = hero /\ cvic' = vic
  /\ ndirty' = {} /\ wdirty' = {}
  /\ dq' = Victim \cup {h \in Hero : Exists(hero[h])}
  /\ jq' = {n \in Node : node[n].owner # None}
  /\ dry' \in IF "dryrun" \in Faults THEN BOOLEAN ELSE {dry}
  /\ UNCHANGED <<apiVars, owed, kueueVars, label, quota, topo>>

----------------------------------------------------------------------------
Scheduler ==
  \/ \E h \in Hero : KueueTry(h)
  \/ \E v \in Victim : KueueEvict(v) \/ \E n \in Node : KueueAdmit(v, n) \/ PodGone(v, n)
  \/ KueueWake

Users == \/ \E h \in Hero : \/ HeroSubmit(h) \/ HeroRuns(h) \/ HeroFinishes(h)
                            \/ HeroEvicted(h) \/ HeroDelete(h) \/ HeroToggle(h)
                            \/ LabelChange(h) \/ QuotaChange(h) \/ TopologyChange(h)
         \/ \E v \in Victim : VictimToggle(v)

Machines == \/ \E n \in Node : NodeHealth(n) \/ StripClock(n)
            \/ Tick \/ SyncNodes \/ SyncWorkloads \/ Crash
============================================================================
