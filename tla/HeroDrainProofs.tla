-------------------------- MODULE HeroDrainProofs --------------------------
(***************************************************************************)
(* Proofs about HeroDrain, for every number of nodes, heroes and victims.  *)
(***************************************************************************)
EXTENDS HeroDrain, FoldProofs, TLAPS

----------------------------------------------------------------------------
(* The writes of pkg/taint and pkg/victims keep objects well formed.       *)

\* EnsureTaint and RemoveOwnedTaint write well-formed nodes.
LEMMA TaintWrites ==
  ASSUME NEW x \in NodeRec, NEW h \in Hero
  PROVE  Tainted(x, h) \in NodeRec /\ Untainted(x) \in NodeRec
<1>1. /\ x.owner \in Hero \cup {None} /\ x.started \in NoStamp..DrainTimeout
      /\ x.nudge \in NoStamp..NudgeInterval /\ x.ready \in BOOLEAN
      /\ x = [owner |-> x.owner, started |-> x.started, nudge |-> x.nudge, ready |-> x.ready]
  BY DEF NodeRec
<1>2. NoStamp \in NoStamp..DrainTimeout /\ NoStamp \in NoStamp..NudgeInterval /\ 0 \in NoStamp..DrainTimeout
  BY TimeAssumption DEF NoStamp
<1>3. Untainted(x) \in NodeRec
  BY <1>1, <1>2 DEF NodeRec, Untainted
<1>4. Tainted(x, h) \in NodeRec
  BY <1>1, <1>2 DEF NodeRec, Tainted
<1> QED BY <1>3, <1>4

\* Suspending writes a well-formed victim, whatever copy of it the patch was
\* computed from.
LEMMA SuspensionType ==
  ASSUME NEW x \in VictimRec, NEW y \in VictimRec, NEW h \in Hero
  PROVE  Deactivated(x, y, h) \in VictimRec
BY DEF VictimRec, Deactivated

\* Watch events name existing objects only.
LEMMA EventKeys ==
  ASSUME cnode \in [Node -> NodeRec], cnode' \in [Node -> NodeRec],
         NEW N \in SUBSET Node, NEW W \in SUBSET (Hero \cup Victim)
  PROVE  DrainEvents(N, W) \subseteq Hero \cup Victim /\ JanitorEvents(N, W) \subseteq Node
<1>1. \A n \in Node : /\ MapNodeToOwner(cnode[n], chero') \subseteq Hero
                      /\ MapNodeToOwner(cnode'[n], chero') \subseteq Hero
  BY DEF MapNodeToOwner, StuckRequests, NodeRec
<1> QED
  BY <1>1 DEF DrainEvents, JanitorEvents, StuckRequests

\* A published write leaves caches and queues well formed.
LEMMA PublishType ==
  ASSUME CacheType, ApiType', NEW D \in SUBSET (Hero \cup Victim), NEW J \in SUBSET Node,
         Publish(D, J)
  PROVE  CacheType' /\ QueueType'
<1> DEFINE N == {n \in Node : node'[n] # node[n]}
           W == {h \in Hero : hero'[h] # hero[h]} \cup {v \in Victim : vic'[v] # vic[v]}
           NSeen == IF NodeLag THEN {} ELSE N
           WSeen == IF WlLag THEN {} ELSE W
<1>1. CacheType'
  BY DEF CacheType, ApiType, Publish
<1>2. NSeen \in SUBSET Node /\ WSeen \in SUBSET (Hero \cup Victim)
  OBVIOUS
<1>3. DrainEvents(NSeen, WSeen) \subseteq Hero \cup Victim /\ JanitorEvents(NSeen, WSeen) \subseteq Node
  <2> HIDE DEF NSeen, WSeen
  <2> QED BY <1>1, <1>2, EventKeys DEF CacheType
<1>4. dq' = D \cup DrainEvents(NSeen, WSeen) /\ jq' = J \cup JanitorEvents(NSeen, WSeen)
  BY DEF Publish
<1> QED BY <1>1, <1>3, <1>4 DEF QueueType

----------------------------------------------------------------------------
(* Type correctness, action by action.                                     *)

\* One patched victim.
LEMMA PatchVictimType ==
  ASSUME TypeOK, NEW v \in Victim, NEW x \in VictimRec, NEW D \in SUBSET (Hero \cup Victim),
         PatchVictim(v, x, D)
  PROVE  ApiType' /\ CacheType' /\ QueueType' /\ UNCHANGED <<parked, faults>>
<1>1. ApiType'
  BY DEF TypeOK, ApiType, PatchVictim
<1> QED BY <1>1, PublishType DEF TypeOK, QueueType, PatchVictim

\* One written node, by a controller or by the environment.
LEMMA WriteNodeType ==
  ASSUME TypeOK, NEW n \in Node, NEW x \in NodeRec, NEW D \in SUBSET (Hero \cup Victim),
         node' = [node EXCEPT ![n] = x], UNCHANGED <<hero, vic>>, WakeKueue, Publish(D, jq)
  PROVE  ApiType' /\ CacheType' /\ QueueType' /\ parked' \subseteq Hero
<1>1. ApiType'
  BY DEF TypeOK, ApiType
<1>2. CacheType' /\ QueueType'
  BY <1>1, PublishType DEF TypeOK, QueueType
<1>3. parked' \subseteq Hero
  BY DEF TypeOK, RestType, WakeKueue
<1> QED BY <1>1, <1>2, <1>3

\* The workers' records when they are idle.
LEMMA IdleType == DrainIdle \in DrainRec /\ JanitorIdle \in JanitorRec
BY DEF DrainIdle, DrainRec, JanitorIdle, JanitorRec

\* The steps of the drain controller's worker keep the types.
LEMMA DrainType == ASSUME TypeOK, DrainStep PROVE TypeOK'
<1> USE DEF DrainFrame, ReadOnly, apiVars, cacheVars
<1>1. ASSUME NEW h \in Hero, DrainIgnore(h) \/ DrainUnresolved(h) \/ DrainReport(h) PROVE TypeOK'
  BY <1>1
    DEF DrainIgnore, DrainUnresolved, DrainReport, TypeOK, ApiType, CacheType, QueueType,
        WorkerType, RestType
<1>2. ASSUME NEW h \in Hero, DrainWait(h) PROVE TypeOK'
  BY <1>2 DEF DrainWait, TypeOK, ApiType, CacheType, QueueType, WorkerType, RestType
<1>3. ASSUME NEW h \in Hero, NEW pc \in {"taint", "abort"}, NEW N \in SUBSET Node,
             NEW L \in SUBSET Node, NEW O \in SUBSET Victim, Begin(h, pc, N, L, O)
      PROVE  TypeOK'
  <2>1. d' \in DrainRec /\ d'.pc # "idle" /\ d'.hero # None
    BY <1>3, KeyAssumption DEF Begin, Live, DrainRec
  <2> QED
    BY <1>3, <2>1 DEF Begin, TypeOK, ApiType, CacheType, QueueType, WorkerType, RestType
<1>4. ASSUME NEW h \in Hero, DrainAbort(h) PROVE TypeOK'
  BY <1>3, <1>4 DEF DrainAbort, OwnNodes, MarkedFor
<1>5. ASSUME NEW h \in Hero, DrainCycle(h) PROVE TypeOK'
  BY <1>3, <1>5 DEF DrainCycle, OwnNodes
<1>6. ASSUME NEW h \in Hero, NEW dom \in Domain, DrainStart(h, dom) PROVE TypeOK'
  BY <1>3, <1>6 DEF DrainStart, DomainNodes
<1>7. ASSUME NEW v \in Victim, VictimEvent(v) PROVE TypeOK'
  <2>1. CASE PatchVictim(v, Reactivated(vic[v], FALSE), dq \ {v})
    <3>1. Reactivated(vic[v], FALSE) \in VictimRec
      BY DEF Reactivated, VictimRec, TypeOK, ApiType
    <3>2. dq \ {v} \in SUBSET (Hero \cup Victim)
      BY DEF TypeOK, QueueType
    <3> QED
      BY <1>7, <2>1, <3>1, <3>2, PatchVictimType DEF VictimEvent, TypeOK, WorkerType, RestType
  <2>2. CASE dq' = dq \ {v} /\ ReadOnly
    BY <1>7, <2>2 DEF VictimEvent, TypeOK, ApiType, CacheType, QueueType, WorkerType, RestType
  <2> QED BY <1>7, <2>1, <2>2 DEF VictimEvent
<1>8. ASSUME d.pc # "idle" PROVE d.hero \in Hero
  BY <1>8 DEF TypeOK, WorkerType, DrainRec
<1>9. ASSUME d.pc # "idle", Requeue, ReadOnly, DrainFrame, owed' \subseteq Hero PROVE TypeOK'
  BY <1>8, <1>9, IdleType
    DEF Requeue, DrainIdle, TypeOK, ApiType, CacheType, QueueType, WorkerType, RestType
<1>10. ASSUME NEW L \in SUBSET Node, d.pc # "idle", d' = [d EXCEPT !.left = L]
       PROVE  d' \in DrainRec /\ d'.pc # "idle" /\ d'.hero # None
  BY <1>8, <1>10, KeyAssumption DEF TypeOK, WorkerType, DrainRec
<1>11. ASSUME NEW n \in Node, EnsureTaint(n) PROVE TypeOK'
  <2>1. d.left \ {n} \in SUBSET Node /\ owed \subseteq Hero /\ d.hero \in Hero /\ d.pc # "idle"
    BY <1>8, <1>11 DEF EnsureTaint, TypeOK, WorkerType, DrainRec, RestType
  <2>2. CASE d' = [d EXCEPT !.left = d.left \ {n}] /\ UNCHANGED <<dq, owed>> /\ ReadOnly
    BY <1>10, <1>11, <2>1, <2>2
      DEF EnsureTaint, TypeOK, ApiType, CacheType, QueueType, WorkerType, RestType
  <2>3. CASE Requeue /\ UNCHANGED owed /\ ReadOnly
    BY <1>9, <1>11, <2>1, <2>3 DEF EnsureTaint
  <2>4. CASE /\ WriteNode(n, Tainted(cnode[n], d.hero)) /\ Publish(dq, jq)
             /\ owed' = IF DrainBegins(d.hero) THEN owed \cup {d.hero} ELSE owed
             /\ d' = [d EXCEPT !.left = d.left \ {n}]
    <3>1. Tainted(cnode[n], d.hero) \in NodeRec /\ dq \in SUBSET (Hero \cup Victim)
      BY <2>1, TaintWrites DEF TypeOK, CacheType, QueueType
    <3>2. ApiType' /\ CacheType' /\ QueueType' /\ parked' \subseteq Hero
      BY <2>4, <3>1, WriteNodeType DEF WriteNode
    <3> QED
      BY <1>10, <1>11, <2>1, <2>4, <3>2 DEF EnsureTaint, WriteNode, TypeOK, WorkerType, RestType
  <2> QED BY <1>11, <2>2, <2>3, <2>4 DEF EnsureTaint
<1>12. ASSUME ListOccupants PROVE TypeOK'
  <2>1. VictimWorkloadsOn(d.nodes) \subseteq Victim
    BY DEF VictimWorkloadsOn
  <2>2. d' \in DrainRec /\ d'.pc # "idle" /\ d'.hero # None
    BY <1>8, <1>12, <2>1, KeyAssumption DEF ListOccupants, TypeOK, WorkerType, DrainRec
  <2> QED
    BY <1>12, <2>2 DEF ListOccupants, TypeOK, ApiType, CacheType, QueueType, WorkerType, RestType
<1>13. ASSUME NEW v \in Victim, SuspendVictim(v) PROVE TypeOK'
  <2>1. d' \in DrainRec /\ d'.pc # "idle" /\ d'.hero # None /\ d.hero \in Hero
    BY <1>8, <1>13, KeyAssumption DEF SuspendVictim, TypeOK, WorkerType, DrainRec
  <2>2. CASE PatchVictim(v, Deactivated(vic[v], cvic[v], d.hero), dq)
    <3>1. Deactivated(vic[v], cvic[v], d.hero) \in VictimRec /\ dq \in SUBSET (Hero \cup Victim)
      BY <2>1, SuspensionType DEF TypeOK, ApiType, CacheType, QueueType
    <3> QED
      BY <1>13, <2>1, <2>2, <3>1, PatchVictimType DEF SuspendVictim, TypeOK, WorkerType, RestType
  <2>3. CASE UNCHANGED dq /\ ReadOnly
    BY <1>13, <2>1, <2>3
      DEF SuspendVictim, TypeOK, ApiType, CacheType, QueueType, WorkerType, RestType
  <2> QED BY <1>13, <2>2, <2>3 DEF SuspendVictim
<1>14. ASSUME ListEvicted PROVE TypeOK'
  <2>1. d' \in DrainRec /\ d'.pc # "idle" /\ d'.hero # None
    BY <1>8, <1>14, KeyAssumption DEF ListEvicted, TypeOK, WorkerType, DrainRec, MarkedFor
  <2> QED
    BY <1>14, <2>1 DEF ListEvicted, TypeOK, ApiType, CacheType, QueueType, WorkerType, RestType
<1>15. ASSUME NEW v \in Victim, ReactivateVictim(v) \/ AbortSweep(v) PROVE TypeOK'
  <2>1. d' \in DrainRec /\ d'.pc # "idle" /\ d'.hero # None
    BY <1>8, <1>15, KeyAssumption DEF ReactivateVictim, AbortSweep, TypeOK, WorkerType, DrainRec
  <2>2. /\ Reactivated(vic[v], FALSE) \in VictimRec /\ Reactivated(vic[v], v \in d.live) \in VictimRec
        /\ dq \in SUBSET (Hero \cup Victim)
    BY DEF Reactivated, VictimRec, TypeOK, ApiType, QueueType
  <2> QED
    BY <1>15, <2>1, <2>2, PatchVictimType
      DEF ReactivateVictim, AbortSweep, TypeOK, WorkerType, RestType
<1>16. ASSUME EndCycle PROVE TypeOK'
  <2>1. d.pc # "idle" /\ d.hero \in Hero /\ owed \subseteq Hero
    BY <1>8, <1>16 DEF EndCycle, TypeOK, RestType
  <2>2. CASE Requeue /\ ReadOnly
    BY <1>9, <1>16, <2>1, <2>2 DEF EndCycle
  <2>3. CASE d' = DrainIdle /\ UNCHANGED dq /\ ReadOnly
    BY <1>16, <2>3, IdleType
      DEF EndCycle, DrainIdle, TypeOK, ApiType, CacheType, QueueType, WorkerType, RestType
  <2>4. CASE /\ WriteNode(NudgeNode, [node[NudgeNode] EXCEPT !.nudge = 0])
             /\ d' = DrainIdle /\ Publish(dq \cup {d.hero}, jq) /\ d.nodes # {}
    <3>0. d.nodes \in SUBSET Nat /\ d.nodes \subseteq Node
      BY NodeAssumption DEF TypeOK, WorkerType, DrainRec
    <3>1. NudgeNode \in Node
      BY <2>4, <3>0, LeastNat DEF NudgeNode
    <3>2. [node[NudgeNode] EXCEPT !.nudge = 0] \in NodeRec
      BY <3>1, TimeAssumption DEF TypeOK, ApiType, NodeRec, NoStamp
    <3>3. dq \cup {d.hero} \in SUBSET (Hero \cup Victim)
      BY <2>1 DEF TypeOK, QueueType
    <3>4. ApiType' /\ CacheType' /\ QueueType' /\ parked' \subseteq Hero
      BY <2>4, <3>1, <3>2, <3>3, WriteNodeType DEF WriteNode
    <3> QED
      BY <1>16, <2>4, <3>4, IdleType DEF EndCycle, WriteNode, DrainIdle, TypeOK, WorkerType, RestType
  <2> QED BY <1>16, <2>2, <2>3, <2>4 DEF EndCycle
<1>17. ASSUME NEW n \in Node, AbortUntaint(n) PROVE TypeOK'
  <2>1. d.left \ {n} \in SUBSET Node /\ owed \subseteq Hero /\ d.hero \in Hero /\ d.pc # "idle"
    BY <1>8, <1>17 DEF AbortUntaint, TypeOK, WorkerType, DrainRec, RestType
  <2>2. CASE d' = [d EXCEPT !.left = d.left \ {n}] /\ UNCHANGED dq /\ ReadOnly
    BY <1>10, <1>17, <2>1, <2>2
      DEF AbortUntaint, TypeOK, ApiType, CacheType, QueueType, WorkerType, RestType
  <2>3. CASE Requeue /\ ReadOnly
    BY <1>9, <1>17, <2>1, <2>3 DEF AbortUntaint
  <2>4. CASE /\ WriteNode(n, Untainted(cnode[n])) /\ Publish(dq, jq)
             /\ d' = [d EXCEPT !.left = d.left \ {n}]
    <3>1. Untainted(cnode[n]) \in NodeRec /\ dq \in SUBSET (Hero \cup Victim)
      BY <2>1, TaintWrites DEF TypeOK, CacheType, QueueType
    <3>2. ApiType' /\ CacheType' /\ QueueType' /\ parked' \subseteq Hero
      BY <2>4, <3>1, WriteNodeType DEF WriteNode
    <3> QED
      BY <1>10, <1>17, <2>1, <2>4, <3>2 DEF AbortUntaint, WriteNode, TypeOK, WorkerType, RestType
  <2> QED BY <1>17, <2>2, <2>3, <2>4 DEF AbortUntaint
<1>18. ASSUME AbortDone PROVE TypeOK'
  BY <1>9, <1>18 DEF AbortDone, TypeOK, RestType
<1>19. ASSUME DrainError PROVE TypeOK'
  BY <1>8, <1>19, IdleType
    DEF DrainError, Fault, Requeue, DrainIdle, TypeOK, ApiType, CacheType, QueueType,
        WorkerType, RestType
<1> QED
  BY <1>1, <1>2, <1>4, <1>5, <1>6, <1>7, <1>11, <1>12, <1>13, <1>14, <1>15, <1>16, <1>17,
     <1>18, <1>19 DEF DrainStep, DrainReconcile, DrainContinue

\* The steps of the janitor's worker keep the types.
LEMMA JanitorType == ASSUME TypeOK, JanitorStep PROVE TypeOK'
<1> USE DEF JanitorFrame, JanitorReads, apiVars, cacheVars
<1>1. ASSUME NEW n \in Node, JanitorIgnore(n) \/ JanitorWait(n) PROVE TypeOK'
  BY <1>1
    DEF JanitorIgnore, JanitorWait, TypeOK, ApiType, CacheType, QueueType, WorkerType, RestType
<1>2. ASSUME NEW n \in Node, JanitorRestartClock(n) PROVE TypeOK'
  <2>1. node' = [node EXCEPT ![n] = [node[n] EXCEPT !.started = 0]]
    BY <1>2 DEF JanitorRestartClock
  <2>2. [node[n] EXCEPT !.started = 0] \in NodeRec /\ dq \in SUBSET (Hero \cup Victim)
    BY TimeAssumption DEF TypeOK, ApiType, QueueType, NodeRec, NoStamp
  <2>3. ApiType' /\ CacheType' /\ QueueType' /\ parked' \subseteq Hero
    BY <1>2, <2>1, <2>2, WriteNodeType DEF JanitorRestartClock
  <2> QED
    BY <1>2, <2>3 DEF JanitorRestartClock, TypeOK, WorkerType, RestType
<1>3. ASSUME NEW n \in Node, JanitorTeardown(n) PROVE TypeOK'
  <2>1. j' \in JanitorRec /\ j'.pc # "idle" /\ j'.node # None /\ j'.owner # None
    BY <1>3, KeyAssumption DEF JanitorTeardown, TypeOK, CacheType, NodeRec, JanitorRec
  <2> QED
    BY <1>3, <2>1
      DEF JanitorTeardown, TypeOK, ApiType, CacheType, QueueType, WorkerType, RestType
<1>4. ASSUME j.pc # "idle" PROVE j.node \in Node /\ j.owner \in Hero
  BY <1>4 DEF TypeOK, WorkerType, JanitorRec
<1>5. ASSUME j.pc # "idle", JanitorRequeue, JanitorReads, JanitorFrame, UNCHANGED owed PROVE TypeOK'
  BY <1>4, <1>5, IdleType
    DEF JanitorRequeue, JanitorIdle, TypeOK, ApiType, CacheType, QueueType, WorkerType, RestType
<1>6. ASSUME RemoveTaint PROVE TypeOK'
  <2>1. j.pc # "idle" /\ j.node \in Node /\ j.owner \in Hero
    BY <1>4, <1>6 DEF RemoveTaint
  <2>2. ASSUME j' = [j EXCEPT !.pc = "list"]
        PROVE  j' \in JanitorRec /\ j'.pc # "idle" /\ j'.node # None /\ j'.owner # None
    BY <2>1, <2>2, KeyAssumption DEF TypeOK, WorkerType, JanitorRec
  <2>3. CASE j' = [j EXCEPT !.pc = "list"] /\ UNCHANGED jq /\ JanitorReads
    BY <1>6, <2>2, <2>3
      DEF RemoveTaint, TypeOK, ApiType, CacheType, QueueType, WorkerType, RestType
  <2>4. CASE JanitorRequeue /\ JanitorReads
    BY <1>5, <1>6, <2>1, <2>4 DEF RemoveTaint
  <2>5. CASE /\ node' = [node EXCEPT ![j.node] = Untainted(cnode[j.node])]
             /\ UNCHANGED <<hero, vic, faults>> /\ WakeKueue /\ Publish(dq, jq)
             /\ j' = [j EXCEPT !.pc = "list"]
    <3>1. Untainted(cnode[j.node]) \in NodeRec /\ dq \in SUBSET (Hero \cup Victim)
      BY <2>1, TaintWrites DEF TypeOK, CacheType, QueueType
    <3>2. ApiType' /\ CacheType' /\ QueueType' /\ parked' \subseteq Hero
      BY <2>1, <2>5, <3>1, WriteNodeType
    <3> QED
      BY <1>6, <2>2, <2>5, <3>2 DEF RemoveTaint, TypeOK, WorkerType, RestType
  <2> QED BY <1>6, <2>3, <2>4, <2>5 DEF RemoveTaint
<1>7. ASSUME ListMarked PROVE TypeOK'
  <2>1. j' \in JanitorRec /\ j'.pc # "idle" /\ j'.node # None /\ j'.owner # None
    BY <1>4, <1>7, KeyAssumption DEF ListMarked, MarkedFor, Live, TypeOK, WorkerType, JanitorRec
  <2> QED
    BY <1>7, <2>1 DEF ListMarked, TypeOK, ApiType, CacheType, QueueType, WorkerType, RestType
<1>8. ASSUME NEW v \in Victim, SweepVictim(v) PROVE TypeOK'
  <2>1. j' \in JanitorRec /\ j'.pc # "idle" /\ j'.node # None /\ j'.owner # None
    BY <1>4, <1>8, KeyAssumption DEF SweepVictim, TypeOK, WorkerType, JanitorRec
  <2>2. Reactivated(vic[v], v \in j.live) \in VictimRec /\ dq \in SUBSET (Hero \cup Victim)
    BY DEF Reactivated, VictimRec, TypeOK, ApiType, QueueType
  <2> QED
    BY <1>8, <2>1, <2>2, PatchVictimType DEF SweepVictim, TypeOK, WorkerType, RestType
<1>9. ASSUME EndTeardown PROVE TypeOK'
  BY <1>9, IdleType
    DEF EndTeardown, StuckRequests, JanitorIdle, TypeOK, ApiType, CacheType, QueueType,
        WorkerType, RestType
<1>10. ASSUME JanitorError PROVE TypeOK'
  BY <1>4, <1>10, IdleType
    DEF JanitorError, Fault, JanitorRequeue, JanitorIdle, TypeOK, ApiType, CacheType, QueueType,
        WorkerType, RestType
<1> QED
  BY <1>1, <1>2, <1>3, <1>6, <1>7, <1>8, <1>9, <1>10
    DEF JanitorStep, JanitorReconcile, JanitorContinue

\* The environment's steps keep the types.
LEMMA EnvType == ASSUME TypeOK, Scheduler \/ Users \/ Machines PROVE TypeOK'
<1> USE DEF EnvFrame, apiVars, cacheVars, queueVars, kueueVars, adminVars
<1>1. ASSUME NEW h \in Hero, NEW x \in HeroRec, WriteHero(h, x)
      PROVE  ApiType' /\ CacheType' /\ QueueType' /\ WorkerType' /\ owed' \subseteq Hero
  <2>1. ApiType'
    BY <1>1 DEF WriteHero, TypeOK, ApiType
  <2>2. CacheType' /\ QueueType'
    BY <1>1, <2>1, PublishType DEF WriteHero, TypeOK, QueueType
  <2> QED BY <1>1, <2>1, <2>2 DEF WriteHero, TypeOK, WorkerType, RestType
<1>2. ASSUME NEW v \in Victim, NEW x \in VictimRec, WriteVictim(v, x)
      PROVE  ApiType' /\ CacheType' /\ QueueType' /\ WorkerType' /\ owed' \subseteq Hero
  <2>1. ApiType'
    BY <1>2 DEF WriteVictim, TypeOK, ApiType
  <2>2. CacheType' /\ QueueType'
    BY <1>2, <2>1, PublishType DEF WriteVictim, TypeOK, QueueType
  <2> QED BY <1>2, <2>1, <2>2 DEF WriteVictim, TypeOK, WorkerType, RestType
<1>3. ASSUME NEW n \in Node, NEW x \in NodeRec, ChangeNode(n, x)
      PROVE  /\ ApiType' /\ CacheType' /\ QueueType' /\ WorkerType' /\ owed' \subseteq Hero
             /\ parked' \subseteq Hero
  <2>1. dq \in SUBSET (Hero \cup Victim)
    BY DEF TypeOK, QueueType
  <2>2. ApiType' /\ CacheType' /\ QueueType' /\ parked' \subseteq Hero
    BY <1>3, <2>1, WriteNodeType DEF ChangeNode
  <2> QED BY <1>3, <2>2 DEF ChangeNode, TypeOK, WorkerType, RestType
<1>4. ASSUME NEW h \in Hero, NEW S \in SUBSET Node, KueueAdmitHero(h, S) PROVE TypeOK'
  <2>1. [hero[h] EXCEPT !.st = "admitted", !.adm = S] \in HeroRec
    BY DEF TypeOK, ApiType, HeroRec, HeroState
  <2> QED BY <1>1, <1>4, <2>1 DEF KueueAdmitHero, TypeOK, RestType
<1>5. ASSUME NEW h \in Hero, KueueRejectHero(h) PROVE TypeOK'
  <2>1. [hero[h] EXCEPT !.st = "stuck"] \in HeroRec
    BY DEF TypeOK, ApiType, HeroRec, HeroState
  <2> QED BY <1>1, <1>5, <2>1 DEF KueueRejectHero, TypeOK, RestType
<1>6. ASSUME NEW v \in Victim, KueueEvict(v) PROVE TypeOK'
  <2>1. [vic[v] EXCEPT !.evicted = TRUE, !.adm = None] \in VictimRec
    BY DEF TypeOK, ApiType, VictimRec
  <2>2. term' \in [Victim -> SUBSET Node]
    BY <1>6 DEF KueueEvict, TypeOK, ApiType, VictimRec, RestType
  <2> QED BY <1>2, <1>6, <2>1, <2>2 DEF KueueEvict, TypeOK, RestType
<1>7. ASSUME NEW v \in Victim, NEW n \in Node, KueueAdmit(v, n) PROVE TypeOK'
  <2>1. [vic[v] EXCEPT !.evicted = FALSE, !.adm = n] \in VictimRec
    BY DEF TypeOK, ApiType, VictimRec
  <2> QED BY <1>2, <1>7, <2>1 DEF KueueAdmit, TypeOK, RestType
<1>8. ASSUME NEW v \in Victim, NEW n \in Node, PodGone(v, n) PROVE TypeOK'
  BY <1>8 DEF PodGone, TypeOK, ApiType, CacheType, QueueType, WorkerType, RestType
<1>9. ASSUME KueueWake PROVE TypeOK'
  BY <1>9 DEF KueueWake, TypeOK, ApiType, CacheType, QueueType, WorkerType, RestType
<1>10. ASSUME NEW h \in Hero, HeroSubmit(h) PROVE TypeOK'
  <2>1. [hero[h] EXCEPT !.st = "pending"] \in HeroRec
    BY DEF TypeOK, ApiType, HeroRec, HeroState
  <2> QED BY <1>1, <1>10, <2>1 DEF HeroSubmit, TypeOK, RestType
<1>11. ASSUME NEW h \in Hero, HeroRuns(h) PROVE TypeOK'
  BY <1>11 DEF HeroRuns, OwnNodes, TypeOK, ApiType, CacheType, QueueType, WorkerType, RestType
<1>12. ASSUME NEW h \in Hero, HeroFinishes(h) PROVE TypeOK'
  <2>1. [hero[h] EXCEPT !.st = "finished"] \in HeroRec
    BY DEF TypeOK, ApiType, HeroRec, HeroState
  <2> QED BY <1>1, <1>12, <2>1 DEF HeroFinishes, Fault, TypeOK, RestType
<1>13. ASSUME NEW h \in Hero, HeroEvicted(h) PROVE TypeOK'
  <2>1. [hero[h] EXCEPT !.st = "pending", !.adm = {}] \in HeroRec
    BY DEF TypeOK, ApiType, HeroRec, HeroState
  <2> QED BY <1>1, <1>13, <2>1 DEF HeroEvicted, Fault, TypeOK, RestType
<1>14. ASSUME NEW h \in Hero, HeroDelete(h) PROVE TypeOK'
  <2>1. [hero[h] EXCEPT !.st = "gone", !.adm = {}] \in HeroRec
    BY DEF TypeOK, ApiType, HeroRec, HeroState
  <2> QED BY <1>1, <1>14, <2>1 DEF HeroDelete, Fault, TypeOK, RestType
<1>15. ASSUME NEW h \in Hero, HeroToggle(h) PROVE TypeOK'
  <2>1. [hero[h] EXCEPT !.active = ~@] \in HeroRec
    BY DEF TypeOK, ApiType, HeroRec
  <2> QED BY <1>1, <1>15, <2>1 DEF HeroToggle, Fault, TypeOK, RestType
<1>16. ASSUME NEW h \in Hero, LabelChange(h) \/ QuotaChange(h) \/ TopologyChange(h) PROVE TypeOK'
  BY <1>16
    DEF LabelChange, QuotaChange, TopologyChange, Flip, Fault, TypeOK, ApiType, CacheType,
        QueueType, WorkerType, RestType
<1>17. ASSUME NEW n \in Node, NodeHealth(n) PROVE TypeOK'
  <2>1. [node[n] EXCEPT !.ready = ~@] \in NodeRec
    BY DEF TypeOK, ApiType, NodeRec
  <2> QED BY <1>3, <1>17, <2>1 DEF NodeHealth, Fault, TypeOK, RestType
<1>18. ASSUME NEW n \in Node, StripClock(n) PROVE TypeOK'
  <2>1. [node[n] EXCEPT !.started = NoStamp] \in NodeRec
    BY TimeAssumption DEF TypeOK, ApiType, NodeRec, NoStamp
  <2> QED BY <1>3, <1>18, <2>1 DEF StripClock, Fault, TypeOK, RestType
<1>19. ASSUME Tick PROVE TypeOK'
  <2>1. ASSUME NEW x \in NodeRec PROVE Aged(x) \in NodeRec
    <3>1. Older(x.started, DrainTimeout) \in NoStamp..DrainTimeout
      BY <2>1, TimeAssumption DEF Older, NodeRec, NoStamp
    <3>2. Older(x.nudge, NudgeInterval) \in NoStamp..NudgeInterval
      BY <2>1, TimeAssumption DEF Older, NodeRec, NoStamp
    <3> QED BY <2>1, <3>1, <3>2 DEF Aged, NodeRec
  <2>2. node' \in [Node -> NodeRec] /\ cnode' \in [Node -> NodeRec]
    BY <1>19, <2>1 DEF Tick, TypeOK, ApiType, CacheType
  <2> QED
    BY <1>19, <2>2 DEF Tick, TypeOK, ApiType, CacheType, QueueType, WorkerType, RestType
<1>20. ASSUME SyncNodes PROVE TypeOK'
  <2>1. DrainEvents(ndirty, {}) \subseteq Hero \cup Victim /\ JanitorEvents(ndirty, {}) \subseteq Node
    BY <1>20, EventKeys DEF SyncNodes, TypeOK, ApiType, CacheType
  <2> QED
    BY <1>20, <2>1 DEF SyncNodes, TypeOK, ApiType, CacheType, QueueType, WorkerType, RestType
<1>21. ASSUME SyncWorkloads PROVE TypeOK'
  <2>1. DrainEvents({}, wdirty) \subseteq Hero \cup Victim /\ JanitorEvents({}, wdirty) \subseteq Node
    BY <1>21, EventKeys DEF SyncWorkloads, TypeOK, ApiType, CacheType
  <2> QED
    BY <1>21, <2>1 DEF SyncWorkloads, TypeOK, ApiType, CacheType, QueueType, WorkerType, RestType
<1>22. ASSUME Crash PROVE TypeOK'
  BY <1>22, IdleType
    DEF Crash, Fault, DrainIdle, JanitorIdle, TypeOK, ApiType, CacheType, QueueType, WorkerType,
        RestType
<1>23. ASSUME NEW v \in Victim, VictimToggle(v) PROVE TypeOK'
  <2>1. [vic[v] EXCEPT !.active = ~@] \in VictimRec
    BY DEF TypeOK, ApiType, VictimRec
  <2> QED BY <1>2, <1>23, <2>1 DEF VictimToggle, Fault, TypeOK, RestType
<1> QED
  BY <1>4, <1>5, <1>6, <1>7, <1>8, <1>9, <1>10, <1>11, <1>12, <1>13, <1>14, <1>15, <1>16, <1>17,
     <1>18, <1>19, <1>20, <1>21, <1>22, <1>23 DEF Scheduler, KueueTry, Users, Machines

\* Init is well typed.
LEMMA InitType == Init => TypeOK
<1> SUFFICES ASSUME Init PROVE TypeOK OBVIOUS
<1>1. CleanNode \in NodeRec
  BY TimeAssumption DEF CleanNode, NodeRec, NoStamp
<1>2. ApiType
  BY <1>1 DEF Init, ApiType, HeroRec, HeroState
<1> QED
  BY <1>2, IdleType
    DEF Init, TypeOK, ApiType, CacheType, QueueType, WorkerType, RestType, DrainIdle, JanitorIdle

\* Every step keeps the types.
LEMMA StepType == ASSUME TypeOK, [Next]_vars PROVE TypeOK'
<1>1. CASE UNCHANGED vars
  BY <1>1 DEF vars, apiVars, cacheVars, queueVars, kueueVars, adminVars, TypeOK, ApiType, CacheType,
              QueueType, WorkerType, RestType
<1> QED BY <1>1, DrainType, JanitorType, EnvType DEF Next

\* TypeOK is an invariant of the whole system: in particular no empty key
\* reaches a work queue, and no worker is left between two passes.
THEOREM TypeCorrect == Spec => []TypeOK
BY InitType, StepType, PTL DEF Spec
============================================================================
