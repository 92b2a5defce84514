----------------------------- MODULE LockProofs -----------------------------
(***************************************************************************)
(* Serialisation: what the taints on the nodes guarantee, for every number *)
(* of nodes, heroes and victims.  Two inductive invariants carry the       *)
(* argument.  CacheSound says what a controller may conclude from a cached *)
(* object: it is the object itself unless somebody wrote it since the      *)
(* cache caught up.  SlotTaken says that while a plan is being tainted     *)
(* nobody but its hero owns a taint; it needs a Node cache without lag.    *)
(***************************************************************************)
EXTENDS HeroDrainProofs

----------------------------------------------------------------------------
(* Caches.                                                                 *)

CacheSound ==
  /\ \A n \in Node : n \notin ndirty => cnode[n] = node[n]
  /\ \A h \in Hero : h \notin wdirty => chero[h] = hero[h]
  /\ \A v \in Victim : v \notin wdirty => cvic[v] = vic[v]
  /\ ~NodeLag => ndirty = {}
  /\ ~WlLag => wdirty = {}

\* How a step may touch objects and caches: it publishes its writes, touches
\* neither, lets time pass, or makes the caches catch up.
LEMMA StepKinds ==
  ASSUME Next
  PROVE  \/ \E D, J : Publish(D, J)
         \/ UNCHANGED <<node, hero, vic, cnode, chero, cvic, ndirty, wdirty>>
         \/ Tick \/ SyncNodes \/ SyncWorkloads \/ Crash
<1> USE DEF apiVars, cacheVars
<1>1. CASE DrainStep
  BY <1>1 DEF DrainStep, DrainReconcile, DrainContinue, DrainIgnore, DrainWait, DrainUnresolved,
    DrainReport, DrainAbort, DrainCycle, DrainStart, Begin, VictimEvent, EnsureTaint, AbortUntaint,
    SuspendVictim, ReactivateVictim, AbortSweep, ListOccupants, ListEvicted, EndCycle, AbortDone,
    DrainError, ReadOnly, PatchVictim
<1>2. CASE JanitorStep
  BY <1>2 DEF JanitorStep, JanitorReconcile, JanitorContinue, JanitorIgnore, JanitorWait,
    JanitorRestartClock, JanitorTeardown, RemoveTaint, ListMarked, SweepVictim, EndTeardown,
    JanitorError, JanitorReads, PatchVictim
<1>3. CASE Scheduler
  BY <1>3 DEF Scheduler, KueueTry, KueueAdmitHero, KueueRejectHero, KueueWake, KueueEvict,
    KueueAdmit, PodGone, WriteHero, WriteVictim
<1>4. CASE Users
  BY <1>4 DEF Users, HeroSubmit, HeroRuns, HeroFinishes, HeroEvicted, HeroDelete, HeroToggle,
    LabelChange, QuotaChange, TopologyChange, VictimToggle, WriteHero, WriteVictim
<1>5. CASE Machines
  BY <1>5 DEF Machines, NodeHealth, StripClock, ChangeNode
<1> QED BY <1>1, <1>2, <1>3, <1>4, <1>5 DEF Next

\* A cached object is stale only while it is marked dirty.
LEMMA CacheStep ==
  ASSUME TypeOK, TypeOK', CacheSound, [Next]_vars
  PROVE  CacheSound'
<1>1. ASSUME NEW D, NEW J, Publish(D, J) PROVE CacheSound'
  BY <1>1, LagAssumption DEF Publish, CacheSound, TypeOK, ApiType, CacheType
<1>2. CASE UNCHANGED <<node, hero, vic, cnode, chero, cvic, ndirty, wdirty>>
  BY <1>2 DEF CacheSound
<1>3. CASE Tick
  BY <1>3 DEF Tick, CacheSound
<1>4. CASE SyncNodes \/ SyncWorkloads
  BY <1>4 DEF SyncNodes, SyncWorkloads, CacheSound, apiVars
<1>5. CASE Crash
  BY <1>5 DEF Crash, CacheSound, apiVars
<1>6. CASE UNCHANGED vars
  BY <1>2, <1>6 DEF vars, apiVars, cacheVars
<1> QED BY <1>1, <1>2, <1>3, <1>4, <1>5, <1>6, StepKinds

\* What the caches show is what the API server holds, up to dirty objects.
THEOREM CachesSound == Spec => []CacheSound
<1>1. Init => CacheSound
  BY DEF Init, CacheSound
<1>2. TypeOK /\ TypeOK' /\ CacheSound /\ [Next]_vars => CacheSound'
  BY CacheStep
<1> QED BY <1>1, <1>2, TypeCorrect, PTL DEF Spec

----------------------------------------------------------------------------
(* Owners.                                                                 *)

SameOwners == \A n \in Node : node'[n].owner = node[n].owner

Frees(n) == /\ node[n].owner # None /\ node'[n].owner = None
            /\ \A m \in Node \ {n} : node'[m].owner = node[m].owner

Claims(n) == /\ d.pc = "taint" /\ n \in d.left /\ d.hero \in Hero
             /\ node[n].owner = None /\ node'[n].owner = d.hero
             /\ \A m \in Node \ {n} : node'[m].owner = node[m].owner

\* EnsureTaint and RemoveOwnedTaint decide on the cached copy of a node, and
\* their Update is accepted only if that copy is current: so a step leaves
\* all owners alone, frees one node, or claims one free node.
LEMMA OwnerSteps ==
  ASSUME TypeOK, CacheSound, [Next]_vars
  PROVE  SameOwners \/ \E n \in Node : Frees(n) \/ Claims(n)
<1> USE DEF apiVars, cacheVars, queueVars, kueueVars, adminVars
<1>1. ASSUME UNCHANGED node PROVE SameOwners
  BY <1>1 DEF SameOwners
<1>2. ASSUME NEW n \in Node, NEW x, x.owner = node[n].owner, node' = [node EXCEPT ![n] = x]
      PROVE  SameOwners
  BY <1>2 DEF SameOwners, TypeOK, ApiType
<1>3. ASSUME NEW n \in Node, UpdateAccepted(n), cnode[n].owner # None,
             node' = [node EXCEPT ![n] = Untainted(cnode[n])]
      PROVE  Frees(n)
  BY <1>3 DEF Frees, Untainted, UpdateAccepted, CacheSound, TypeOK, ApiType, CacheType, NodeRec
<1>4. ASSUME NEW n \in Node, EnsureTaint(n) PROVE SameOwners \/ Claims(n)
  <2>1. CASE ReadOnly
    BY <1>1, <2>1 DEF ReadOnly
  <2>2. CASE /\ cnode[n].owner = None /\ UpdateAccepted(n)
             /\ WriteNode(n, Tainted(cnode[n], d.hero))
    <3>1. d.hero \in Hero
      BY <1>4 DEF EnsureTaint, TypeOK, WorkerType, DrainRec
    <3> QED
      BY <1>4, <2>2, <3>1 DEF EnsureTaint, Claims, WriteNode, Tainted, UpdateAccepted, CacheSound,
        TypeOK, ApiType, CacheType, NodeRec
  <2> QED BY <1>4, <2>1, <2>2 DEF EnsureTaint
<1>5. ASSUME NEW n \in Node, AbortUntaint(n) PROVE SameOwners \/ Frees(n)
  <2>1. d.hero # None
    BY <1>5 DEF AbortUntaint, TypeOK, WorkerType
  <2> QED BY <1>1, <1>3, <1>5, <2>1 DEF AbortUntaint, ReadOnly, WriteNode
<1>6. ASSUME EndCycle PROVE SameOwners
  <2>1. CASE ReadOnly
    BY <1>1, <2>1 DEF ReadOnly
  <2>2. CASE WriteNode(NudgeNode, [node[NudgeNode] EXCEPT !.nudge = 0])
    BY <2>2 DEF WriteNode, SameOwners, TypeOK, ApiType, NodeRec
  <2> QED BY <1>6, <2>1, <2>2 DEF EndCycle
<1>7. CASE DrainStep
  <2>1. ASSUME NEW w, DrainReconcile(w) PROVE UNCHANGED node
    BY <2>1 DEF DrainReconcile, DrainIgnore, DrainWait, DrainUnresolved, DrainReport,
      DrainAbort, DrainCycle, DrainStart, Begin, VictimEvent, ReadOnly, PatchVictim
  <2>2. ASSUME NEW v \in Victim, SuspendVictim(v) \/ ReactivateVictim(v) \/ AbortSweep(v)
        PROVE  UNCHANGED node
    BY <2>2 DEF SuspendVictim, ReactivateVictim, AbortSweep, ReadOnly, PatchVictim
  <2>3. ASSUME ListOccupants \/ ListEvicted \/ AbortDone \/ DrainError PROVE UNCHANGED node
    BY <2>3 DEF ListOccupants, ListEvicted, AbortDone, DrainError, ReadOnly
  <2> QED BY <1>1, <1>4, <1>5, <1>6, <1>7, <2>1, <2>2, <2>3 DEF DrainStep, DrainContinue
<1>8. CASE JanitorStep
  <2>1. ASSUME NEW n \in Node, JanitorIgnore(n) \/ JanitorWait(n) \/ JanitorTeardown(n)
        PROVE  UNCHANGED node
    BY <2>1 DEF JanitorIgnore, JanitorWait, JanitorTeardown, JanitorReads
  <2>2. ASSUME NEW n \in Node, JanitorRestartClock(n) PROVE SameOwners
    BY <2>2 DEF JanitorRestartClock, SameOwners, TypeOK, ApiType, NodeRec
  <2>3. ASSUME RemoveTaint PROVE SameOwners \/ Frees(j.node)
    <3>1. j.node \in Node /\ j.owner # None
      BY <2>3 DEF RemoveTaint, TypeOK, WorkerType, JanitorRec
    <3> QED BY <1>1, <1>3, <2>3, <3>1 DEF RemoveTaint, JanitorReads
  <2>4. ASSUME RemoveTaint PROVE j.node \in Node
    BY <2>4 DEF RemoveTaint, TypeOK, WorkerType, JanitorRec
  <2>5. ASSUME ListMarked \/ EndTeardown \/ JanitorError \/ \E v \in Victim : SweepVictim(v)
        PROVE  UNCHANGED node
    BY <2>5 DEF ListMarked, EndTeardown, JanitorError, SweepVictim, JanitorReads, PatchVictim
  <2> QED
    BY <1>1, <1>8, <2>1, <2>2, <2>3, <2>4, <2>5 DEF JanitorStep, JanitorReconcile, JanitorContinue
<1>9. CASE Scheduler \/ Users
  BY <1>1, <1>9 DEF Scheduler, KueueTry, KueueAdmitHero, KueueRejectHero, KueueWake, KueueEvict,
    KueueAdmit, PodGone, WriteHero, WriteVictim, Users, HeroSubmit, HeroRuns, HeroFinishes,
    HeroEvicted, HeroDelete, HeroToggle, LabelChange, QuotaChange, TopologyChange, VictimToggle
<1>10. CASE Machines
  <2>1. ASSUME NEW n \in Node, NodeHealth(n) \/ StripClock(n) PROVE SameOwners
    BY <2>1 DEF NodeHealth, StripClock, ChangeNode, SameOwners, TypeOK, ApiType, NodeRec
  <2>2. ASSUME Tick PROVE SameOwners
    BY <2>2 DEF Tick, Aged, SameOwners, TypeOK, ApiType, NodeRec
  <2> QED BY <1>1, <1>10, <2>1, <2>2 DEF Machines, SyncNodes, SyncWorkloads, Crash
<1>11. CASE UNCHANGED vars
  BY <1>1, <1>11 DEF vars
<1> QED BY <1>7, <1>8, <1>9, <1>10, <1>11 DEF Next

\* OwnerNeverStolen, whatever the caches show: a taint passes from one hero
\* to another only through an untainted node.
THEOREM OwnersNeverStolen == Spec => OwnerNeverStolen
<1>1. TypeOK /\ CacheSound /\ [Next]_vars =>
        [\A n \in Node : node[n].owner # None /\ node'[n].owner # None
                           => node'[n].owner = node[n].owner]_vars
  BY OwnerSteps DEF SameOwners, Frees, Claims
<1> QED BY <1>1, TypeCorrect, CachesSound, PTL DEF Spec, OwnerNeverStolen

----------------------------------------------------------------------------
(* One drain at a time, when the Node cache does not lag.                  *)

\* The inductive strengthening of AtMostOneDrain.
SlotTaken ==
  /\ AtMostOneDrain
  /\ d.pc = "taint" /\ d.left # {} => \A n \in Node : node[n].owner \in {None, d.hero}

\* A pass that is tainting its plan goes on for the same hero and plan.
LEMMA PassGoesOn ==
  ASSUME TypeOK, [Next]_vars, d'.pc = "taint", d'.left # {}
  PROVE  \/ d.pc = "taint" /\ d.hero = d'.hero /\ d'.left \subseteq d.left
         \/ \E h \in Hero : HasTurn(h) /\ d'.hero = h /\ UNCHANGED node
<1> USE DEF apiVars, cacheVars
<1>1. ASSUME UNCHANGED d PROVE d.pc = "taint" /\ d.hero = d'.hero /\ d'.left \subseteq d.left
  BY <1>1
<1>2. CASE DrainStep
  <2>1. d' # DrainIdle
    BY DEF DrainIdle
  <2>2. ASSUME NEW h \in Hero, DrainReconcile(h)
        PROVE  UNCHANGED d \/ (HasTurn(h) /\ d'.hero = h /\ UNCHANGED node)
    BY <2>2, KeyAssumption DEF DrainReconcile, DrainIgnore, DrainWait, DrainUnresolved,
      DrainReport, DrainAbort, DrainCycle, DrainStart, Begin, ReadOnly
  <2>3. ASSUME NEW v \in Victim, DrainReconcile(v) PROVE UNCHANGED d
    BY <2>3, KeyAssumption DEF DrainReconcile, VictimEvent
  <2>4. ASSUME NEW n \in Node, EnsureTaint(n)
        PROVE  d.pc = "taint" /\ d.hero = d'.hero /\ d'.left \subseteq d.left
    BY <2>1, <2>4 DEF EnsureTaint, Requeue, TypeOK, WorkerType, DrainRec
  <2>5. ASSUME \/ \E n \in Node : AbortUntaint(n)
               \/ \E v \in Victim : SuspendVictim(v) \/ ReactivateVictim(v) \/ AbortSweep(v)
               \/ ListOccupants \/ ListEvicted \/ EndCycle \/ AbortDone \/ DrainError
        PROVE  FALSE
    BY <2>1, <2>5 DEF AbortUntaint, SuspendVictim, ReactivateVictim, AbortSweep, ListOccupants,
      ListEvicted, EndCycle, AbortDone, DrainError, Requeue, TypeOK, WorkerType, DrainRec
  <2> QED BY <1>1, <1>2, <2>2, <2>3, <2>4, <2>5 DEF DrainStep, DrainContinue
<1>3. CASE JanitorStep
  BY <1>1, <1>3 DEF JanitorStep, JanitorReconcile, JanitorContinue, JanitorIgnore, JanitorWait,
    JanitorRestartClock, JanitorTeardown, RemoveTaint, ListMarked, SweepVictim, EndTeardown,
    JanitorError, JanitorFrame
<1>4. CASE Scheduler \/ Users
  BY <1>1, <1>4 DEF Scheduler, KueueTry, KueueAdmitHero, KueueRejectHero, KueueWake, KueueEvict,
    KueueAdmit, PodGone, WriteHero, WriteVictim, Users, HeroSubmit, HeroRuns, HeroFinishes,
    HeroEvicted, HeroDelete, HeroToggle, LabelChange, QuotaChange, TopologyChange, VictimToggle,
    EnvFrame
<1>5. CASE Machines
  BY <1>1, <1>5 DEF Machines, NodeHealth, StripClock, ChangeNode, Tick, SyncNodes, SyncWorkloads,
    Crash, DrainIdle, EnvFrame
<1>6. CASE UNCHANGED vars
  BY <1>1, <1>6 DEF vars
<1> QED BY <1>2, <1>3, <1>4, <1>5, <1>6 DEF Next

\* A pass starts tainting only when the taints it reads are all its own, and
\* then nobody else can start: SlotTaken is inductive.
LEMMA SlotStep ==
  ASSUME ~NodeLag, TypeOK, CacheSound, SlotTaken, [Next]_vars
  PROVE  SlotTaken'
<1>1. AtMostOneDrain'
  BY OwnerSteps DEF SlotTaken, AtMostOneDrain, SameOwners, Frees, Claims
<1>2. ASSUME d'.pc = "taint", d'.left # {}
      PROVE  \A n \in Node : node'[n].owner \in {None, d'.hero}
  <2>1. CASE d.pc = "taint" /\ d.hero = d'.hero /\ d'.left \subseteq d.left
    BY <1>2, <2>1, OwnerSteps DEF SlotTaken, SameOwners, Frees, Claims
  <2>2. ASSUME NEW h \in Hero, HasTurn(h), d'.hero = h, UNCHANGED node
        PROVE  \A n \in Node : node'[n].owner \in {None, d'.hero}
    <3>1. \A n \in Node : cnode[n] = node[n]
      BY DEF CacheSound
    <3> QED BY <2>2, <3>1 DEF HasTurn, BlockingDrain, OwnersSeen
  <2> QED BY <1>2, <2>1, <2>2, PassGoesOn
<1> QED BY <1>1, <1>2 DEF SlotTaken

\* One drain cluster-wide: with a Node cache that shows every write at once,
\* the gate in Reconcile never lets two heroes own taints at the same time.
THEOREM OneDrain == ASSUME ~NodeLag PROVE Spec => []AtMostOneDrain
<1>1. Init => SlotTaken
  BY DEF Init, CleanNode, DrainIdle, SlotTaken, AtMostOneDrain
<1>2. TypeOK /\ CacheSound /\ SlotTaken /\ [Next]_vars => SlotTaken'
  BY SlotStep
<1>3. SlotTaken => AtMostOneDrain
  BY DEF SlotTaken
<1> QED BY <1>1, <1>2, <1>3, TypeCorrect, CachesSound, PTL DEF Spec

----------------------------------------------------------------------------
(* The taints implement the lock of DrainLock.                             *)

\* With one drain in flight, the holder is the owner of any tainted node.
LEMMA HolderIsOwner ==
  ASSUME NEW f, NEW n \in Node, f[n].owner \in Hero,
         \A m \in Node : f[m].owner \in Hero => f[m].owner = f[n].owner
  PROVE  (CHOOSE h \in Hero : \E m \in Node : f[m].owner = h) = f[n].owner
<1>1. \E h \in Hero : \E m \in Node : f[m].owner = h
  OBVIOUS
<1> DEFINE c == CHOOSE h \in Hero : \E m \in Node : f[m].owner = h
<1>2. c \in Hero /\ \E m \in Node : f[m].owner = c
  BY <1>1
<1> HIDE DEF c
<1>3. c = f[n].owner
  BY <1>2
<1> QED BY <1>3 DEF c

\* The owners of tainted nodes, read off the type.
LEMMA Owners ==
  ASSUME TypeOK
  PROVE  \A n \in Node : /\ node[n].owner \in Hero \cup {None}
                         /\ node[n].owner # None <=> node[n].owner \in Hero
BY KeyAssumption DEF TypeOK, ApiType, NodeRec

\* Every step of the system is a step of the lock, or leaves it alone.
LEMMA LockStep ==
  ASSUME TypeOK, TypeOK', CacheSound, SlotTaken, SlotTaken', [Next]_vars
  PROVE  [Lock!Next]_<<Holder, Held>>
<1>1. \A n \in Node : /\ node[n].owner \in Hero \cup {None}
                      /\ node[n].owner # None <=> node[n].owner \in Hero
  BY Owners
<1>2. \A n \in Node : /\ node'[n].owner \in Hero \cup {None}
                      /\ node'[n].owner # None <=> node'[n].owner \in Hero
  BY KeyAssumption DEF TypeOK, ApiType, NodeRec
<1>3. ASSUME NEW n \in Node, node[n].owner # None PROVE Holder = node[n].owner
  <2>1. (CHOOSE h \in Hero : \E m \in Node : node[m].owner = h) = node[n].owner
    BY <1>1, <1>3, HolderIsOwner DEF SlotTaken, AtMostOneDrain
  <2> QED BY <1>3, <2>1 DEF Holder, Held
<1>4. ASSUME NEW n \in Node, node'[n].owner # None PROVE Holder' = node'[n].owner
  <2>1. (CHOOSE h \in Hero : \E m \in Node : node'[m].owner = h) = node'[n].owner
    BY <1>2, <1>4, HolderIsOwner DEF SlotTaken, AtMostOneDrain
  <2> QED BY <1>4, <2>1 DEF Holder, Held
<1>5. CASE SameOwners
  <2>1. Held' = Held
    BY <1>5 DEF SameOwners, Held
  <2>2. CASE Held = {}
    BY <2>1, <2>2 DEF Holder
  <2>3. CASE Held # {}
    BY <1>3, <1>4, <1>5, <2>1, <2>3 DEF Held, SameOwners
  <2> QED BY <2>1, <2>2, <2>3
<1>6. ASSUME NEW n \in Node, Frees(n) PROVE Lock!GiveBack(n)
  <2>1. n \in Held /\ Held' = Held \ {n}
    BY <1>6 DEF Frees, Held
  <2>2. CASE Held = {n}
    BY <2>1, <2>2 DEF Lock!GiveBack, Holder
  <2>3. CASE Held # {n}
    <3>1. PICK m \in Node \ {n} : node[m].owner # None
      BY <2>1, <2>3 DEF Held
    <3>2. node'[m].owner = node[m].owner
      BY <1>6, <3>1 DEF Frees
    <3>3. Holder' = Holder
      BY <1>3, <1>4, <3>1, <3>2
    <3> QED BY <2>1, <2>3, <3>3 DEF Lock!GiveBack
  <2> QED BY <2>2, <2>3
<1>7. ASSUME NEW n \in Node, Claims(n) PROVE Lock!Claim(d.hero, n)
  <2>1. n \notin Held /\ Held' = Held \cup {n}
    BY <1>7, <1>2 DEF Claims, Held
  <2>2. Holder' = d.hero
    BY <1>2, <1>4, <1>7 DEF Claims
  <2>3. CASE Held = {}
    BY <2>1, <2>2, <2>3 DEF Lock!Claim, Holder
  <2>4. CASE Held # {}
    <3>1. PICK m \in Node : node[m].owner # None
      BY <2>4 DEF Held
    <3>2. node[m].owner = d.hero
      BY <1>7, <3>1 DEF Claims, SlotTaken
    <3> QED BY <1>3, <2>1, <2>2, <3>1, <3>2 DEF Lock!Claim
  <2> QED BY <2>3, <2>4
<1>8. ASSUME NEW n \in Node, Claims(n) PROVE d.hero \in Hero
  BY <1>8 DEF Claims
<1> QED BY <1>5, <1>6, <1>7, <1>8, OwnerSteps DEF Lock!Next

\* With a Node cache that shows every write at once, the taints implement
\* the lock: the cluster belongs to one hero until its last taint is gone.
THEOREM TaintsAreOneLock == ASSUME ~NodeLag PROVE Spec => OneLock
<1>1. Init => Lock!Init
  BY DEF Init, CleanNode, Lock!Init, Holder, Held
<1>2. Init => SlotTaken
  BY DEF Init, CleanNode, DrainIdle, SlotTaken, AtMostOneDrain
<1>3. TypeOK /\ CacheSound /\ SlotTaken /\ [Next]_vars => SlotTaken'
  BY SlotStep
<1>4. TypeOK /\ TypeOK' /\ CacheSound /\ SlotTaken /\ SlotTaken' /\ [Next]_vars
        => [Lock!Next]_<<Holder, Held>>
  BY LockStep
<1> QED BY <1>1, <1>2, <1>3, <1>4, TypeCorrect, CachesSound, PTL DEF Spec, OneLock, Lock!Spec

----------------------------------------------------------------------------
(* The line of stuck heroes.                                               *)

\* The order that NextHero takes the first of is strict and total: every list
\* of stuck heroes has at most one first, so that two passes that see the same
\* heroes, in whatever order, agree on whose turn it is.
THEOREM LineIsTotal ==
  /\ \A h \in Hero : ~HeroBefore(h, h)
  /\ \A g, h \in Hero : g # h => HeroBefore(g, h) \/ HeroBefore(h, g)
  /\ \A f, g, h \in Hero : HeroBefore(f, g) /\ HeroBefore(g, h) => HeroBefore(f, h)
BY OrderAssumption DEF HeroBefore

----------------------------------------------------------------------------
(* Clocks.                                                                 *)

\* Taint and clock come and go together, on the node and on every cached copy.
Clocked(x) == x.owner = None <=> x.started = NoStamp

ClockWithTaint == \A n \in Node : Clocked(node[n]) /\ Clocked(cnode[n])

StartsFresh == \A n \in Node : node[n].owner = None /\ node'[n].owner # None => node'[n].started = 0

\* Time takes no clock away and starts none.
LEMMA AgedClocked ==
  ASSUME NEW x \in NodeRec, Clocked(x)
  PROVE  Clocked(Aged(x)) /\ Aged(x).owner = x.owner
<1>1. Aged(x).owner = x.owner /\ Aged(x).started = Older(x.started, DrainTimeout)
  BY DEF Aged, NodeRec
<1>2. x.started \in NoStamp..DrainTimeout /\ NoStamp = -1 /\ DrainTimeout \in Nat
  BY TimeAssumption DEF NodeRec, NoStamp
<1>3. x.started = NoStamp <=> Older(x.started, DrainTimeout) = NoStamp
  BY <1>2, TimeAssumption DEF Older
<1> QED BY <1>1, <1>3 DEF Clocked

\* A step writes clocked nodes only, and a node that gets an owner gets a new
\* clock: a cached copy without an owner has no old one to keep.
LEMMA ClockedWrites ==
  ASSUME TypeOK, ClockWithTaint, "strip" \notin Faults, [Next]_vars
  PROVE  StartsFresh /\ \A n \in Node : Clocked(node'[n])
<1> USE DEF apiVars, cacheVars, queueVars, kueueVars, adminVars
<1> DEFINE Goal == StartsFresh /\ \A n \in Node : Clocked(node'[n])
<1>1. ASSUME UNCHANGED node PROVE Goal
  BY <1>1 DEF ClockWithTaint, StartsFresh
<1>2. ASSUME NEW n, NEW x, node' = [node EXCEPT ![n] = x], Clocked(x),
             n \in Node => node[n].owner # None \/ x.owner = None \/ x.started = 0
      PROVE  Goal
  BY <1>2 DEF ClockWithTaint, StartsFresh, TypeOK, ApiType
<1>3. ASSUME NEW n \in Node, node' = [node EXCEPT ![n] = Untainted(cnode[n])] PROVE Goal
  <2>1. Untainted(cnode[n]).owner = None /\ Untainted(cnode[n]).started = NoStamp
    BY DEF Untainted, TypeOK, CacheType, NodeRec
  <2> QED BY <1>2, <1>3, <2>1 DEF Clocked
<1>4. ASSUME NEW n \in Node, EnsureTaint(n) PROVE Goal
  <2>1. CASE ReadOnly
    BY <1>1, <2>1 DEF ReadOnly
  <2>2. CASE cnode[n].owner = None /\ WriteNode(n, Tainted(cnode[n], d.hero))
    <3>1. d.hero # None
      BY <1>4 DEF EnsureTaint, TypeOK, WorkerType
    <3>2. cnode[n].started = NoStamp
      BY <2>2 DEF ClockWithTaint, Clocked
    <3>3. Tainted(cnode[n], d.hero).owner = d.hero /\ Tainted(cnode[n], d.hero).started = 0
      BY <3>2 DEF Tainted, TypeOK, CacheType, NodeRec
    <3>4. Clocked(Tainted(cnode[n], d.hero))
      BY <3>1, <3>3 DEF Clocked, NoStamp
    <3>5. node' = [node EXCEPT ![n] = Tainted(cnode[n], d.hero)]
      BY <2>2 DEF WriteNode
    <3> QED BY <1>2, <3>3, <3>4, <3>5
  <2> QED BY <1>4, <2>1, <2>2 DEF EnsureTaint
<1>5. ASSUME NEW n \in Node, AbortUntaint(n) PROVE Goal
  BY <1>1, <1>3, <1>5 DEF AbortUntaint, ReadOnly, WriteNode
<1>6. ASSUME EndCycle PROVE Goal
  <2>1. CASE ReadOnly
    BY <1>1, <2>1 DEF ReadOnly
  <2>2. CASE WriteNode(NudgeNode, [node[NudgeNode] EXCEPT !.nudge = 0])
    BY <2>2 DEF WriteNode, ClockWithTaint, Clocked, StartsFresh, TypeOK, ApiType, NodeRec
  <2> QED BY <1>6, <2>1, <2>2 DEF EndCycle
<1>7. CASE DrainStep
  <2>1. ASSUME NEW w, DrainReconcile(w) PROVE UNCHANGED node
    BY <2>1 DEF DrainReconcile, DrainIgnore, DrainWait, DrainUnresolved, DrainReport,
      DrainAbort, DrainCycle, DrainStart, Begin, VictimEvent, ReadOnly, PatchVictim
  <2>2. ASSUME NEW v \in Victim, SuspendVictim(v) \/ ReactivateVictim(v) \/ AbortSweep(v)
        PROVE  UNCHANGED node
    BY <2>2 DEF SuspendVictim, ReactivateVictim, AbortSweep, ReadOnly, PatchVictim
  <2>3. ASSUME ListOccupants \/ ListEvicted \/ AbortDone \/ DrainError PROVE UNCHANGED node
    BY <2>3 DEF ListOccupants, ListEvicted, AbortDone, DrainError, ReadOnly
  <2> QED BY <1>1, <1>4, <1>5, <1>6, <1>7, <2>1, <2>2, <2>3 DEF DrainStep, DrainContinue
<1>8. CASE JanitorStep
  <2>1. ASSUME NEW n \in Node, JanitorRestartClock(n) PROVE FALSE
    BY <2>1 DEF JanitorRestartClock, ClockWithTaint, Clocked
  <2>2. ASSUME NEW n \in Node, JanitorIgnore(n) \/ JanitorWait(n) \/ JanitorTeardown(n)
        PROVE  UNCHANGED node
    BY <2>2 DEF JanitorIgnore, JanitorWait, JanitorTeardown, JanitorReads
  <2>3. ASSUME RemoveTaint PROVE Goal
    <3>1. j.node \in Node
      BY <2>3 DEF RemoveTaint, TypeOK, WorkerType, JanitorRec
    <3> QED BY <1>1, <1>3, <2>3, <3>1 DEF RemoveTaint, JanitorReads
  <2>4. ASSUME ListMarked \/ EndTeardown \/ JanitorError \/ \E v \in Victim : SweepVictim(v)
        PROVE  UNCHANGED node
    BY <2>4 DEF ListMarked, EndTeardown, JanitorError, SweepVictim, JanitorReads, PatchVictim
  <2> QED
    BY <1>1, <1>8, <2>1, <2>2, <2>3, <2>4 DEF JanitorStep, JanitorReconcile, JanitorContinue
<1>9. CASE Scheduler \/ Users
  BY <1>1, <1>9 DEF Scheduler, KueueTry, KueueAdmitHero, KueueRejectHero, KueueWake, KueueEvict,
    KueueAdmit, PodGone, WriteHero, WriteVictim, Users, HeroSubmit, HeroRuns, HeroFinishes,
    HeroEvicted, HeroDelete, HeroToggle, LabelChange, QuotaChange, TopologyChange, VictimToggle
<1>10. CASE Machines
  <2>1. ASSUME NEW n \in Node, NodeHealth(n) PROVE Goal
    BY <2>1 DEF NodeHealth, ChangeNode, ClockWithTaint, Clocked, StartsFresh, TypeOK, ApiType,
      NodeRec
  <2>2. ASSUME NEW n \in Node, StripClock(n) PROVE FALSE
    BY <2>2 DEF StripClock, Fault
  <2>3. ASSUME Tick PROVE Goal
    <3>1. \A n \in Node : node'[n] = Aged(node[n]) /\ node[n] \in NodeRec /\ Clocked(node[n])
      BY <2>3 DEF Tick, ClockWithTaint, TypeOK, ApiType
    <3> QED BY <3>1, AgedClocked DEF StartsFresh
  <2> QED BY <1>1, <1>10, <2>1, <2>2, <2>3 DEF Machines, SyncNodes, SyncWorkloads, Crash
<1>11. CASE UNCHANGED vars
  BY <1>1, <1>11 DEF vars
<1> QED BY <1>7, <1>8, <1>9, <1>10, <1>11 DEF Next

\* The cached copies take the clocked nodes over.
LEMMA ClockStep ==
  ASSUME TypeOK, ClockWithTaint, "strip" \notin Faults, [Next]_vars
  PROVE  ClockWithTaint'
<1>1. \A n \in Node : Clocked(node'[n])
  BY ClockedWrites
<1>2. ASSUME NEW n \in Node PROVE Clocked(cnode'[n])
  <2>1. ASSUME NEW D, NEW J, Publish(D, J) PROVE cnode'[n] \in {cnode[n], node'[n]}
    BY <2>1, LagAssumption DEF Publish
  <2>2. CASE SyncNodes \/ SyncWorkloads \/ Crash \/ UNCHANGED cnode
    BY <2>2 DEF SyncNodes, SyncWorkloads, Crash, ClockWithTaint
  <2>3. CASE Tick
    <3>1. cnode'[n] = Aged(cnode[n]) /\ cnode[n] \in NodeRec /\ Clocked(cnode[n])
      BY <2>3 DEF Tick, ClockWithTaint, TypeOK, CacheType
    <3> QED BY <3>1, AgedClocked
  <2>4. CASE UNCHANGED vars
    BY <2>2, <2>4 DEF vars, cacheVars
  <2> QED BY <1>1, <2>1, <2>2, <2>3, <2>4, StepKinds DEF ClockWithTaint
<1> QED BY <1>1, <1>2 DEF ClockWithTaint

\* FreshClock, whatever lags, fails or restarts, as long as nobody strips a
\* clock by hand: no drain inherits the deadline of another.
THEOREM ClocksAreFresh ==
  ASSUME "strip" \notin Faults
  PROVE  Spec => FreshClock
<1>1. Init => ClockWithTaint
  BY DEF Init, CleanNode, ClockWithTaint, Clocked
<1>2. TypeOK /\ ClockWithTaint /\ [Next]_vars => ClockWithTaint'
  BY ClockStep
<1>3. TypeOK /\ ClockWithTaint /\ [Next]_vars =>
        [\A n \in Node : node[n].owner = None /\ node'[n].owner # None => node'[n].started = 0]_vars
  BY ClockedWrites DEF StartsFresh
<1> QED BY <1>1, <1>2, <1>3, TypeCorrect, PTL DEF Spec, FreshClock
=============================================================================
