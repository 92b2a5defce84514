----------------------------- MODULE WakeProofs -----------------------------
(***************************************************************************)
(* Nothing is forgotten: the controllers keep no list of what they have    *)
(* still to do, so a taint is collected and a victim handed back only      *)
(* because some work queue holds its key.  The lemmas say which steps may  *)
(* take a key from a queue, and that every write puts one there or leaves  *)
(* the cache behind; the theorems follow from what those few steps do.  A  *)
(* hero has no deadline and no janitor: its drain begins, and goes on, only *)
(* because its key is in the drain controller's queue, and every pass for a *)
(* hero that is still stuck ends by putting it back.                       *)
(***************************************************************************)
EXTENDS LockProofs, FiniteSetTheorems

----------------------------------------------------------------------------
(* Writes wake somebody.                                                   *)

\* What a published write leaves behind it.
LEMMA PublishWakes ==
  ASSUME CacheSound, NEW D, NEW J, Publish(D, J)
  PROVE  /\ D \subseteq dq' /\ J \subseteq jq'
         /\ wdirty \subseteq wdirty' /\ ndirty \subseteq ndirty'
         /\ \A v \in Victim : vic'[v] # vic[v] => v \in dq' \cup wdirty'
         /\ \A h \in Hero : hero'[h] # hero[h] => h \in dq' \cup wdirty'
         /\ \A n \in Node : node'[n] # node[n] /\ node'[n].owner # None => n \in jq' \cup ndirty'
BY LagAssumption DEF Publish, CacheSound, DrainEvents, JanitorEvents

\* A written workload, or a node that gets an owner, is queued or still on its
\* way to the cache; and what is on its way arrives in the queue.  (A restart
\* does not list a hero that is gone.)
LEMMA WritesWake ==
  ASSUME TypeOK, CacheSound, [Next]_vars
  PROVE  /\ \A v \in Victim : vic'[v] # vic[v] \/ v \in wdirty => v \in dq' \cup wdirty'
         /\ \A h \in Hero : hero'[h] # hero[h] \/ (h \in wdirty /\ Exists(hero[h]))
                              => h \in dq' \cup wdirty'
         /\ \A n \in Node : node'[n].owner # None /\ (node'[n].owner # node[n].owner \/ n \in ndirty)
                              => n \in jq' \cup ndirty'
<1>1. ASSUME NEW D, NEW J, Publish(D, J)
      PROVE  /\ \A v \in Victim : vic'[v] # vic[v] \/ v \in wdirty => v \in dq' \cup wdirty'
             /\ \A h \in Hero : hero'[h] # hero[h] \/ h \in wdirty => h \in dq' \cup wdirty'
             /\ \A n \in Node :
                  node'[n].owner # None /\ (node'[n].owner # node[n].owner \/ n \in ndirty)
                    => n \in jq' \cup ndirty'
  BY <1>1, PublishWakes
<1>2. CASE UNCHANGED <<node, hero, vic, cnode, chero, cvic, ndirty, wdirty>>
  BY <1>2
<1>3. CASE Tick
  <2>1. \A n \in Node : node'[n].owner = node[n].owner
    BY <1>3 DEF Tick, Aged, TypeOK, ApiType, NodeRec
  <2> QED BY <1>3, <2>1 DEF Tick
<1>4. CASE SyncNodes
  BY <1>4 DEF SyncNodes, JanitorEvents, apiVars
<1>5. CASE SyncWorkloads
  BY <1>5 DEF SyncWorkloads, DrainEvents, apiVars
<1>6. CASE Crash
  BY <1>6 DEF Crash, apiVars
<1>7. CASE UNCHANGED vars
  BY <1>2, <1>7 DEF vars, apiVars, cacheVars
<1> QED BY <1>1, <1>2, <1>3, <1>4, <1>5, <1>6, <1>7, StepKinds

\* Only a pass for it takes a victim's key from the drain controller's queue.
LEMMA VictimKeyTaken ==
  ASSUME TypeOK, CacheSound, [Next]_vars, NEW v \in Victim, v \in dq, v \notin dq'
  PROVE  VictimEvent(v)
<1> USE DEF apiVars, cacheVars, queueVars
<1>1. ASSUME NEW D, NEW J, Publish(D, J) PROVE v \notin D
  BY <1>1, PublishWakes
<1>2. CASE DrainStep
  <2>1. ASSUME NEW h \in Hero, DrainReconcile(h) PROVE FALSE
    BY <2>1, KeyAssumption DEF DrainReconcile, DrainIgnore, DrainWait, DrainUnresolved, DrainReport,
      DrainAbort, DrainCycle, DrainStart, Begin
  <2>2. ASSUME NEW w \in Victim, DrainReconcile(w) PROVE w = v
    BY <1>1, <2>2, KeyAssumption DEF DrainReconcile, VictimEvent, PatchVictim
  <2>3. ASSUME DrainContinue \/ DrainError PROVE FALSE
    BY <1>1, <2>3 DEF DrainContinue, EnsureTaint, AbortUntaint, SuspendVictim, ReactivateVictim,
      AbortSweep, ListOccupants, ListEvicted, EndCycle, AbortDone, DrainError, Requeue, PatchVictim
  <2>4. ASSUME DrainReconcile(v) PROVE VictimEvent(v)
    BY <2>4, KeyAssumption DEF DrainReconcile
  <2> QED BY <1>2, <2>1, <2>2, <2>3, <2>4 DEF DrainStep
<1>3. CASE JanitorStep
  BY <1>1, <1>3 DEF JanitorStep, JanitorReconcile, JanitorContinue, JanitorIgnore, JanitorWait,
    JanitorRestartClock, JanitorTeardown, RemoveTaint, ListMarked, SweepVictim, EndTeardown,
    JanitorError, JanitorReads, PatchVictim
<1>4. CASE Scheduler \/ Users
  BY <1>1, <1>4 DEF Scheduler, KueueTry, KueueAdmitHero, KueueRejectHero, KueueWake, KueueEvict,
    KueueAdmit, PodGone, WriteHero, WriteVictim, Users, HeroSubmit, HeroRuns, HeroFinishes,
    HeroEvicted, HeroDelete, HeroToggle, LabelChange, QuotaChange, TopologyChange, VictimToggle
<1>5. CASE Machines
  BY <1>1, <1>5 DEF Machines, NodeHealth, StripClock, ChangeNode, Tick, SyncNodes, SyncWorkloads,
    Crash
<1>6. CASE UNCHANGED vars
  BY <1>6 DEF vars
<1> QED BY <1>2, <1>3, <1>4, <1>5, <1>6 DEF Next

\* Only a pass for it takes a tainted node from the janitor's queue.
LEMMA NodeKeyTaken ==
  ASSUME TypeOK, CacheSound, [Next]_vars, NEW n \in Node, n \in jq, n \notin jq'
  PROVE  JanitorIgnore(n) \/ JanitorTeardown(n) \/ Crash
<1> USE DEF apiVars, cacheVars, queueVars
<1>1. ASSUME NEW D, NEW J, Publish(D, J) PROVE n \notin J
  BY <1>1, PublishWakes
<1>2. CASE DrainStep
  BY <1>1, <1>2 DEF DrainStep, DrainReconcile, DrainIgnore, DrainWait, DrainUnresolved, DrainReport,
    DrainAbort, DrainCycle, DrainStart, Begin, VictimEvent, DrainContinue, EnsureTaint,
    AbortUntaint, SuspendVictim, ReactivateVictim, AbortSweep, ListOccupants, ListEvicted, EndCycle,
    AbortDone, DrainError, ReadOnly, PatchVictim
<1>3. CASE JanitorStep
  <2>1. ASSUME NEW m \in Node, JanitorIgnore(m) \/ JanitorTeardown(m) PROVE m = n
    BY <2>1 DEF JanitorIgnore, JanitorTeardown
  <2>2. ASSUME NEW m \in Node, JanitorWait(m) \/ JanitorRestartClock(m) PROVE FALSE
    BY <1>1, <2>2 DEF JanitorWait, JanitorRestartClock
  <2>3. ASSUME JanitorContinue \/ JanitorError PROVE FALSE
    BY <1>1, <2>3 DEF JanitorContinue, RemoveTaint, ListMarked, SweepVictim, EndTeardown,
      JanitorError, JanitorRequeue, PatchVictim
  <2> QED BY <1>3, <2>1, <2>2, <2>3 DEF JanitorStep, JanitorReconcile
<1>4. CASE Scheduler \/ Users
  BY <1>1, <1>4 DEF Scheduler, KueueTry, KueueAdmitHero, KueueRejectHero, KueueWake, KueueEvict,
    KueueAdmit, PodGone, WriteHero, WriteVictim, Users, HeroSubmit, HeroRuns, HeroFinishes,
    HeroEvicted, HeroDelete, HeroToggle, LabelChange, QuotaChange, TopologyChange, VictimToggle
<1>5. CASE Machines
  BY <1>1, <1>5 DEF Machines, NodeHealth, StripClock, ChangeNode, Tick, SyncNodes, SyncWorkloads
<1>6. CASE UNCHANGED vars
  BY <1>6 DEF vars
<1> QED BY <1>2, <1>3, <1>4, <1>5, <1>6 DEF Next

----------------------------------------------------------------------------
(* Taints.                                                                 *)

\* A teardown about to remove a taint goes on, or is broken off.
LEMMA RemovalGoesOn ==
  ASSUME TypeOK, [Next]_vars, j.pc = "remove"
  PROVE  UNCHANGED j \/ RemoveTaint \/ JanitorError \/ Crash
<1>1. CASE DrainStep
  BY <1>1 DEF DrainStep, DrainReconcile, DrainIgnore, DrainWait, DrainUnresolved, DrainReport,
    DrainAbort, DrainCycle, DrainStart, Begin, VictimEvent, DrainContinue, EnsureTaint,
    AbortUntaint, SuspendVictim, ReactivateVictim, AbortSweep, ListOccupants, ListEvicted, EndCycle,
    AbortDone, DrainError, DrainFrame
<1>2. CASE JanitorStep
  BY <1>2 DEF JanitorStep, JanitorReconcile, JanitorContinue, JanitorIgnore, JanitorWait,
    JanitorRestartClock, JanitorTeardown, JanitorTake, ListMarked, SweepVictim, EndTeardown
<1>3. CASE Scheduler \/ Users
  BY <1>3 DEF Scheduler, KueueTry, KueueAdmitHero, KueueRejectHero, KueueWake, KueueEvict,
    KueueAdmit, PodGone, WriteHero, WriteVictim, Users, HeroSubmit, HeroRuns, HeroFinishes,
    HeroEvicted, HeroDelete, HeroToggle, LabelChange, QuotaChange, TopologyChange, VictimToggle,
    EnvFrame
<1>4. CASE Machines
  BY <1>4 DEF Machines, NodeHealth, StripClock, ChangeNode, Tick, SyncNodes, SyncWorkloads, EnvFrame
<1>5. CASE UNCHANGED vars
  BY <1>5 DEF vars
<1> QED BY <1>1, <1>2, <1>3, <1>4, <1>5 DEF Next

\* A taint stays under the janitor's eyes across every step.
LEMMA DeadlineStep ==
  ASSUME TypeOK, TypeOK', CacheSound, DeadlineArmed, [Next]_vars
  PROVE  DeadlineArmed'
<1> SUFFICES ASSUME NEW n \in Node, node'[n].owner # None, n \notin jq', n \notin ndirty'
             PROVE  j'.pc = "remove" /\ j'.node = n /\ j'.owner = node'[n].owner
  BY DEF DeadlineArmed
<1>1. node'[n].owner = node[n].owner /\ n \notin ndirty
  BY WritesWake
<1>2. cnode[n] = node[n]
  BY <1>1 DEF CacheSound
<1>3. ~Crash
  BY DEF Crash, apiVars
<1>4. CASE n \in jq
  <2>1. JanitorIgnore(n) \/ JanitorTeardown(n)
    BY <1>3, <1>4, NodeKeyTaken
  <2> QED BY <1>1, <1>2, <2>1 DEF JanitorIgnore, JanitorTeardown
<1>5. CASE n \notin jq
  <2>1. j.pc = "remove" /\ j.node = n /\ j.owner = node[n].owner
    BY <1>1, <1>5 DEF DeadlineArmed
  <2>2. ~JanitorError
    BY <2>1 DEF JanitorError, JanitorRequeue
  <2>3. ~RemoveTaint
    <3> SUFFICES ASSUME RemoveTaint PROVE FALSE
      OBVIOUS
    <3>1. node' = [node EXCEPT ![n] = Untainted(cnode[n])]
      BY <1>2, <2>1 DEF RemoveTaint, JanitorRequeue
    <3>2. node'[n].owner = None
      BY <1>2, <3>1 DEF Untainted, TypeOK, ApiType, NodeRec
    <3> QED BY <3>2
  <2> QED BY <1>1, <1>3, <2>1, <2>2, <2>3, RemovalGoesOn
<1> QED BY <1>4, <1>5

\* DeadlineArmed holds whatever lags, fails or restarts: no drain taint is
\* ever out of the janitor's sight, so each one is looked at again.
THEOREM NoTaintIsForgotten == Spec => []DeadlineArmed
<1>1. Init => DeadlineArmed
  BY DEF Init, CleanNode, DeadlineArmed
<1>2. TypeOK /\ TypeOK' /\ CacheSound /\ DeadlineArmed /\ [Next]_vars => DeadlineArmed'
  BY DeadlineStep
<1> QED BY <1>1, <1>2, TypeCorrect, CachesSound, PTL DEF Spec

----------------------------------------------------------------------------
(* Victims.                                                                *)

\* What makes a patch computed from an old copy harmless: every copy that a
\* cache or a worker holds of a marked victim shows it suspended.
CopiesMarked == \A v \in Victim : ~cvic[v].active <=> cvic[v].marker # None

NobodyLive == d.live = {} /\ j.live = {}

\* What a reactivation computed from a copy that showed the victim suspended
\* leaves behind it.
LEMMA ReactivatedWhole ==
  ASSUME NEW x \in VictimRec, NEW W, NEW w, w \notin W
  PROVE  /\ Reactivated(x, FALSE).active = TRUE /\ Reactivated(x, FALSE).marker = None
         /\ Reactivated(x, w \in W) = Reactivated(x, FALSE)
<1>1. (w \in W) = FALSE
  OBVIOUS
<1>2. (FALSE => x.active) = TRUE
  OBVIOUS
<1>3. Reactivated(x, FALSE) = [x EXCEPT !.active = TRUE, !.marker = None]
  BY <1>2, Zenon DEF Reactivated
<1>4. Reactivated(x, w \in W) = Reactivated(x, FALSE)
  BY <1>1, Zenon
<1> QED BY <1>3, <1>4 DEF VictimRec

\* How a step may then write a victim: suspended and marked, reactivated and
\* unmarked, or left alone in both respects.
LEMMA VictimSteps ==
  ASSUME TypeOK, CopiesMarked, NobodyLive, "vtoggle" \notin Faults, [Next]_vars, NEW v \in Victim
  PROVE  \/ vic'[v].active /\ vic'[v].marker = None
         \/ ~vic'[v].active /\ vic'[v].marker # None
         \/ vic'[v].active = vic[v].active /\ vic'[v].marker = vic[v].marker
<1> USE DEF apiVars, cacheVars
<1>1. ASSUME NEW w \in Victim, NEW x, NEW D, PatchVictim(w, x, D)
      PROVE  vic'[v] = vic[v] \/ (w = v /\ vic'[v] = x)
  BY <1>1 DEF PatchVictim, TypeOK, ApiType
<1>3. CASE DrainStep
  <2>1. ASSUME NEW w \in Victim, SuspendVictim(w)
        PROVE  vic'[v] = vic[v] \/ (~vic'[v].active /\ vic'[v].marker # None)
    <3>1. d.hero \in Hero
      BY <2>1 DEF SuspendVictim, TypeOK, WorkerType, DrainRec
    <3>2. cvic[w].active => Deactivated(vic[w], cvic[w], d.hero) = [vic[w] EXCEPT !.active = FALSE, !.marker = d.hero]
      BY <3>1, KeyAssumption DEF Deactivated, CopiesMarked
    <3>3. cvic[w].active =>
            /\ Deactivated(vic[w], cvic[w], d.hero).active = FALSE
            /\ Deactivated(vic[w], cvic[w], d.hero).marker = d.hero
      BY <3>2 DEF TypeOK, ApiType, VictimRec
    <3>4. vic'[v] = vic[v] \/ (cvic[w].active /\ vic'[v] = Deactivated(vic[w], cvic[w], d.hero))
      BY <1>1, <2>1 DEF SuspendVictim, ReadOnly
    <3> QED BY <3>1, <3>3, <3>4, KeyAssumption
  <2>2. ASSUME NEW w \in Victim, VictimEvent(w) \/ ReactivateVictim(w) \/ AbortSweep(w)
        PROVE  vic'[v] = vic[v] \/ (vic'[v].active /\ vic'[v].marker = None)
    <3>1. w \notin d.live /\ vic[w] \in VictimRec
      BY DEF NobodyLive, TypeOK, ApiType
    <3>2. vic'[v] = vic[v] \/ vic'[v] \in {Reactivated(vic[w], FALSE), Reactivated(vic[w], w \in d.live)}
      BY <1>1, <2>2 DEF VictimEvent, ReactivateVictim, AbortSweep, ReadOnly
    <3> QED BY <3>1, <3>2, ReactivatedWhole
  <2>3. ASSUME NEW h \in Hero, DrainReconcile(h) PROVE UNCHANGED vic
    BY <2>3, KeyAssumption DEF DrainReconcile, DrainIgnore, DrainWait, DrainUnresolved, DrainReport,
      DrainAbort, DrainCycle, DrainStart, Begin, ReadOnly
  <2>4. ASSUME NEW n \in Node, EnsureTaint(n) \/ AbortUntaint(n) PROVE UNCHANGED vic
    BY <2>4 DEF EnsureTaint, AbortUntaint, ReadOnly, WriteNode
  <2>5. ASSUME ListOccupants \/ ListEvicted \/ EndCycle \/ AbortDone \/ DrainError
        PROVE  UNCHANGED vic
    BY <2>5 DEF ListOccupants, ListEvicted, EndCycle, AbortDone, DrainError, ReadOnly, WriteNode
  <2>6. ASSUME NEW w \in Victim, DrainReconcile(w) PROVE VictimEvent(w)
    BY <2>6, KeyAssumption DEF DrainReconcile
  <2> QED BY <1>3, <2>1, <2>2, <2>3, <2>4, <2>5, <2>6 DEF DrainStep, DrainContinue
<1>4. CASE JanitorStep
  <2>1. ASSUME NEW w \in Victim, SweepVictim(w)
        PROVE  vic'[v] = vic[v] \/ (vic'[v].active /\ vic'[v].marker = None)
    <3>1. w \notin j.live /\ vic[w] \in VictimRec
      BY DEF NobodyLive, TypeOK, ApiType
    <3>2. vic'[v] = vic[v] \/ vic'[v] = Reactivated(vic[w], w \in j.live)
      BY <1>1, <2>1 DEF SweepVictim
    <3> QED BY <3>1, <3>2, ReactivatedWhole
  <2> QED
    BY <1>4, <2>1 DEF JanitorStep, JanitorReconcile, JanitorContinue, JanitorIgnore, JanitorWait,
      JanitorRestartClock, JanitorTeardown, RemoveTaint, ListMarked, EndTeardown, JanitorError,
      JanitorReads
<1>5. CASE Scheduler
  <2>1. ASSUME NEW w \in Victim, NEW n \in Node, KueueAdmit(w, n)
        PROVE  vic'[v].active = vic[v].active /\ vic'[v].marker = vic[v].marker
    BY <2>1 DEF KueueAdmit, WriteVictim, TypeOK, ApiType, VictimRec
  <2>2. ASSUME NEW w \in Victim, KueueEvict(w)
        PROVE  vic'[v].active = vic[v].active /\ vic'[v].marker = vic[v].marker
    BY <2>2 DEF KueueEvict, WriteVictim, TypeOK, ApiType, VictimRec
  <2> QED
    BY <1>5, <2>1, <2>2 DEF Scheduler, KueueTry, KueueAdmitHero, KueueRejectHero, KueueWake, PodGone,
      WriteHero
<1>6. CASE Users
  BY <1>6 DEF Users, HeroSubmit, HeroRuns, HeroFinishes, HeroEvicted, HeroDelete, HeroToggle,
    LabelChange, QuotaChange, TopologyChange, VictimToggle, Fault, WriteHero
<1>7. CASE Machines
  BY <1>7 DEF Machines, NodeHealth, StripClock, ChangeNode, Tick, SyncNodes, SyncWorkloads, Crash
<1>8. CASE UNCHANGED vars
  BY <1>8 DEF vars
<1> QED BY <1>3, <1>4, <1>5, <1>6, <1>7, <1>8 DEF Next

\* What a worker lists as marked it lists as suspended.
LEMMA LiveStep ==
  ASSUME TypeOK, CopiesMarked, NobodyLive, [Next]_vars
  PROVE  NobodyLive'
<1> USE DEF NobodyLive
<1>1. ASSUME NEW h \in Hero PROVE Live(MarkedFor(h)) = {}
  BY KeyAssumption DEF Live, MarkedFor, CopiesMarked
<1>2. Live({}) = {}
  BY DEF Live
<1>3. CASE DrainStep
  <2>1. ASSUME NEW h \in Hero, DrainReconcile(h) PROVE NobodyLive'
    BY <1>1, <1>2, <2>1, KeyAssumption DEF DrainReconcile, DrainIgnore, DrainWait,
      DrainUnresolved, DrainReport, DrainAbort, DrainCycle, DrainStart, Begin, DrainFrame
  <2>2. ASSUME NEW w \in Victim, DrainReconcile(w) PROVE NobodyLive'
    BY <2>2, KeyAssumption DEF DrainReconcile, VictimEvent, DrainFrame
  <2>3. d \in DrainRec /\ DrainIdle.live = {}
    BY DEF TypeOK, WorkerType, DrainIdle
  <2>4. ASSUME DrainContinue \/ DrainError PROVE NobodyLive'
    BY <2>3, <2>4 DEF DrainContinue, EnsureTaint, AbortUntaint, SuspendVictim, ReactivateVictim,
      AbortSweep, ListOccupants, ListEvicted, EndCycle, AbortDone, DrainError, Requeue, DrainFrame,
      DrainRec
  <2> QED BY <1>3, <2>1, <2>2, <2>4 DEF DrainStep
<1>4. CASE JanitorStep
  <2>1. j \in JanitorRec /\ JanitorIdle.live = {} /\ (j.pc # "idle" => j.owner \in Hero)
    BY DEF TypeOK, WorkerType, JanitorRec, JanitorIdle
  <2>2. ASSUME NEW n \in Node, JanitorReconcile(n) PROVE NobodyLive'
    BY <2>2 DEF JanitorReconcile, JanitorIgnore, JanitorWait, JanitorRestartClock, JanitorTeardown,
      JanitorFrame
  <2>3. ASSUME ListMarked PROVE NobodyLive'
    <3>1. j.owner \in Hero
      BY <2>1, <2>3 DEF ListMarked
    <3>2. j'.live = Live(MarkedFor(j.owner)) /\ d' = d
      BY <2>1, <2>3 DEF ListMarked, JanitorFrame, JanitorRec
    <3> QED BY <1>1, <3>1, <3>2
  <2>4. ASSUME RemoveTaint \/ (\E v \in Victim : SweepVictim(v)) PROVE NobodyLive'
    BY <2>1, <2>4 DEF RemoveTaint, SweepVictim, JanitorRequeue, JanitorFrame, JanitorRec
  <2>5. ASSUME EndTeardown \/ JanitorError PROVE NobodyLive'
    BY <2>1, <2>5 DEF EndTeardown, JanitorError, JanitorRequeue, JanitorFrame
  <2> QED BY <1>4, <2>2, <2>3, <2>4, <2>5 DEF JanitorStep, JanitorContinue
<1>5. CASE Scheduler \/ Users
  BY <1>5 DEF Scheduler, KueueTry, KueueAdmitHero, KueueRejectHero, KueueWake, KueueEvict,
    KueueAdmit, PodGone, WriteHero, WriteVictim, Users, HeroSubmit, HeroRuns, HeroFinishes,
    HeroEvicted, HeroDelete, HeroToggle, LabelChange, QuotaChange, TopologyChange, VictimToggle,
    EnvFrame
<1>6. CASE Machines
  BY <1>6 DEF Machines, NodeHealth, StripClock, ChangeNode, Tick, SyncNodes, SyncWorkloads, Crash,
    DrainIdle, JanitorIdle, EnvFrame
<1>7. CASE UNCHANGED vars
  BY <1>7 DEF vars
<1> QED BY <1>3, <1>4, <1>5, <1>6, <1>7 DEF Next

\* A cache shows a victim as it is, or as it was in some earlier state.
LEMMA CopyStep ==
  ASSUME [Next]_vars, NEW v \in Victim
  PROVE  cvic'[v] \in {cvic[v], vic[v], vic'[v]}
<1>1. ASSUME NEW D, NEW J, Publish(D, J) PROVE cvic'[v] \in {cvic[v], vic[v], vic'[v]}
  BY <1>1, LagAssumption DEF Publish
<1>2. CASE Tick \/ SyncNodes \/ SyncWorkloads \/ Crash \/ UNCHANGED vars
  BY <1>2 DEF Tick, SyncNodes, SyncWorkloads, Crash, vars, cacheVars
<1> QED BY <1>1, <1>2, StepKinds

\* SuspendedIsMarked, whatever the caches show: as long as nobody else sets
\* spec.active, the two controllers may overwrite each other's patch, but never
\* tear one apart.
THEOREM MarkerTravelsWithSuspension ==
  ASSUME "vtoggle" \notin Faults
  PROVE  Spec => []SuspendedIsMarked
<1> DEFINE Inv == SuspendedIsMarked /\ CopiesMarked /\ NobodyLive
<1>1. Init => Inv
  BY DEF Init, SuspendedIsMarked, CopiesMarked, NobodyLive, VictimRec, DrainIdle, JanitorIdle
<1>2. TypeOK /\ Inv /\ [Next]_vars => Inv'
  <2> SUFFICES ASSUME TypeOK, Inv, [Next]_vars PROVE Inv'
    OBVIOUS
  <2>1. SuspendedIsMarked'
    <3> SUFFICES ASSUME NEW v \in Victim PROVE ~vic'[v].active <=> vic'[v].marker # None
      BY DEF SuspendedIsMarked
    <3>1. ~vic[v].active <=> vic[v].marker # None
      BY DEF SuspendedIsMarked
    <3> QED BY <3>1, VictimSteps
  <2>2. CopiesMarked'
    <3> SUFFICES ASSUME NEW v \in Victim PROVE ~cvic'[v].active <=> cvic'[v].marker # None
      BY DEF CopiesMarked
    <3>1. cvic'[v] \in {cvic[v], vic[v], vic'[v]}
      BY CopyStep
    <3> QED BY <2>1, <3>1 DEF CopiesMarked, SuspendedIsMarked
  <2>3. NobodyLive'
    BY LiveStep
  <2> QED BY <2>1, <2>2, <2>3
<1>3. Inv => SuspendedIsMarked
  OBVIOUS
<1> QED BY <1>1, <1>2, <1>3, TypeCorrect, PTL DEF Spec

\* A pass over a suspended, marked and evicted victim reactivates it, so the
\* key of such a victim is never lost.
LEMMA SuspensionStep ==
  ASSUME TypeOK, CacheSound, SuspensionWillEnd, [Next]_vars
  PROVE  SuspensionWillEnd'
<1> SUFFICES ASSUME NEW v \in Victim, ~vic'[v].active, vic'[v].marker # None, vic'[v].evicted,
                    v \notin dq', v \notin wdirty'
             PROVE  FALSE
  BY DEF SuspensionWillEnd
<1>1. vic'[v] = vic[v] /\ v \notin wdirty
  BY WritesWake
<1>2. v \in dq /\ cvic[v] = vic[v] /\ vic[v] \in VictimRec
  BY <1>1 DEF SuspensionWillEnd, CacheSound, TypeOK, ApiType
<1>3. VictimEvent(v)
  BY <1>2, VictimKeyTaken
<1>4. NeedsReactivation(v)
  BY <1>1, <1>2 DEF NeedsReactivation, EvictedByDeactivation
<1>5. vic' = [vic EXCEPT ![v] = Reactivated(vic[v], FALSE)]
  BY <1>3, <1>4 DEF VictimEvent, PatchVictim
<1>6. vic'[v].marker = None
  BY <1>2, <1>5 DEF Reactivated, VictimRec, TypeOK, ApiType
<1> QED BY <1>6

\* SuspensionWillEnd holds whatever lags, fails or restarts, whatever became
\* of the hero and whoever sets spec.active: an evicted victim's key is never
\* lost while it is suspended and marked.
THEOREM NoVictimIsForgotten == Spec => []SuspensionWillEnd
<1>1. Init => SuspensionWillEnd
  BY DEF Init, SuspensionWillEnd, VictimRec
<1>2. TypeOK /\ CacheSound /\ SuspensionWillEnd /\ [Next]_vars => SuspensionWillEnd'
  BY SuspensionStep
<1> QED BY <1>1, <1>2, TypeCorrect, CachesSound, PTL DEF Spec

----------------------------------------------------------------------------
(* Heroes: what a pass holds.                                              *)

\* A pass is never for an empty drain, so the silent return of
\* nudgeWhilePending over no nodes is never taken.
PassHasNodes == d.pc # "idle" => d.nodes # {}

\* A pass that has started goes on with the same hero, nodes and admission,
\* or ends.
LEMMA PassKeeps ==
  ASSUME TypeOK, [Next]_vars, d.pc # "idle"
  PROVE  \/ /\ d'.pc # "idle" /\ d'.hero = d.hero /\ d'.nodes = d.nodes
            /\ d'.admitted = d.admitted
         \/ d' = DrainIdle
<1> DEFINE Goal == \/ /\ d'.pc # "idle" /\ d'.hero = d.hero /\ d'.nodes = d.nodes
                      /\ d'.admitted = d.admitted
                   \/ d' = DrainIdle
<1>1. ASSUME UNCHANGED d PROVE Goal
  BY <1>1
<1>2. CASE DrainStep
  <2>1. ASSUME NEW w \in Hero \cup Victim, DrainReconcile(w) PROVE FALSE
    BY <2>1 DEF DrainReconcile, VictimEvent, DrainIgnore, DrainWait, DrainUnresolved, DrainReport,
      DrainAbort, DrainCycle, DrainStart, Take
  <2>2. d \in DrainRec
    BY DEF TypeOK, WorkerType
  <2>3. ASSUME NEW n \in Node, EnsureTaint(n) \/ AbortUntaint(n) PROVE Goal
    BY <2>2, <2>3 DEF EnsureTaint, AbortUntaint, Requeue, DrainRec
  <2>4. ASSUME NEW v \in Victim, SuspendVictim(v) \/ ReactivateVictim(v) \/ AbortSweep(v) PROVE Goal
    BY <2>2, <2>4 DEF SuspendVictim, ReactivateVictim, AbortSweep, DrainRec
  <2>5. ASSUME ListOccupants \/ ListEvicted \/ EndCycle \/ AbortDone \/ DrainError PROVE Goal
    BY <2>2, <2>5 DEF ListOccupants, ListEvicted, EndCycle, AbortDone, DrainError, Requeue, DrainRec
  <2> QED BY <1>2, <2>1, <2>3, <2>4, <2>5 DEF DrainStep, DrainContinue
<1>3. CASE JanitorStep
  BY <1>1, <1>3 DEF JanitorStep, JanitorReconcile, JanitorContinue, JanitorIgnore, JanitorWait,
    JanitorRestartClock, JanitorTeardown, RemoveTaint, ListMarked, SweepVictim, EndTeardown,
    JanitorError, JanitorFrame
<1>4. CASE Scheduler \/ Users
  BY <1>1, <1>4 DEF Scheduler, KueueTry, KueueAdmitHero, KueueRejectHero, KueueWake, KueueEvict,
    KueueAdmit, PodGone, WriteHero, WriteVictim, Users, HeroSubmit, HeroRuns, HeroFinishes,
    HeroEvicted, HeroDelete, HeroToggle, LabelChange, QuotaChange, TopologyChange, VictimToggle,
    EnvFrame
<1>5. CASE Machines
  BY <1>1, <1>5 DEF Machines, NodeHealth, StripClock, ChangeNode, Tick, SyncNodes, SyncWorkloads,
    Crash, EnvFrame
<1>6. CASE UNCHANGED vars
  BY <1>1, <1>6 DEF vars
<1> QED BY <1>2, <1>3, <1>4, <1>5, <1>6 DEF Next

\* A pass begins with the hero's own key, and with what the cache shows.
LEMMA PassBegins ==
  ASSUME TypeOK, [Next]_vars, d.pc = "idle", d'.pc # "idle"
  PROVE  \E h \in Hero : \/ DrainAbort(h) \/ DrainCycle(h)
                         \/ \E dom \in Domain : DrainStart(h, dom)
<1>1. ASSUME UNCHANGED d PROVE FALSE
  BY <1>1
<1>2. CASE DrainStep
  <2>1. ASSUME NEW w \in Victim, DrainReconcile(w) PROVE FALSE
    BY <1>1, <2>1, KeyAssumption DEF DrainReconcile, VictimEvent
  <2>2. ASSUME NEW h \in Hero, DrainReconcile(h)
        PROVE  DrainAbort(h) \/ DrainCycle(h) \/ \E dom \in Domain : DrainStart(h, dom)
    BY <1>1, <2>2, KeyAssumption DEF DrainReconcile, DrainIgnore, DrainWait, DrainUnresolved,
      DrainReport
  <2>3. ~DrainContinue /\ ~DrainError
    BY DEF DrainContinue, EnsureTaint, AbortUntaint, SuspendVictim, ReactivateVictim,
      AbortSweep, ListOccupants, ListEvicted, EndCycle, AbortDone, DrainError
  <2> QED BY <1>2, <2>1, <2>2, <2>3 DEF DrainStep
<1>3. CASE JanitorStep
  BY <1>1, <1>3 DEF JanitorStep, JanitorReconcile, JanitorContinue, JanitorIgnore, JanitorWait,
    JanitorRestartClock, JanitorTeardown, RemoveTaint, ListMarked, SweepVictim, EndTeardown,
    JanitorError, JanitorFrame
<1>4. CASE Scheduler \/ Users
  BY <1>1, <1>4 DEF Scheduler, KueueTry, KueueAdmitHero, KueueRejectHero, KueueWake, KueueEvict,
    KueueAdmit, PodGone, WriteHero, WriteVictim, Users, HeroSubmit, HeroRuns, HeroFinishes,
    HeroEvicted, HeroDelete, HeroToggle, LabelChange, QuotaChange, TopologyChange, VictimToggle,
    EnvFrame
<1>5. CASE Machines
  BY <1>1, <1>5 DEF Machines, NodeHealth, StripClock, ChangeNode, Tick, SyncNodes, SyncWorkloads,
    Crash, DrainIdle, EnvFrame
<1>6. CASE UNCHANGED vars
  BY <1>1, <1>6 DEF vars
<1> QED BY <1>2, <1>3, <1>4, <1>5, <1>6 DEF Next

\* A selected domain has a usable node: a hero needs at least one.
LEMMA SelectedNotEmpty ==
  ASSUME NEW h \in Hero, NEW dom \in SelectDomains(h)
  PROVE  DomainNodes(dom) # {}
<1> SUFFICES ASSUME DomainNodes(dom) = {} PROVE FALSE
  OBVIOUS
<1>1. {n \in DomainNodes(dom) : NodeUsable(n, h)} = {}
  OBVIOUS
<1>2. Cardinality({}) >= Need[h]
  BY <1>1 DEF SelectDomains
<1>3. Cardinality({}) = 0
  BY FS_EmptySet
<1> QED BY <1>2, <1>3, HeroAssumption

LEMMA PassHasNodesStep ==
  ASSUME TypeOK, PassHasNodes, [Next]_vars
  PROVE  PassHasNodes'
<1> SUFFICES ASSUME d'.pc # "idle" PROVE d'.nodes # {}
  BY DEF PassHasNodes
<1>1. CASE d.pc # "idle"
  BY <1>1, PassKeeps DEF PassHasNodes, DrainIdle
<1>2. CASE d.pc = "idle"
  <2>1. PICK h \in Hero : \/ DrainAbort(h) \/ DrainCycle(h)
                          \/ \E dom \in Domain : DrainStart(h, dom)
    BY <1>2, PassBegins
  <2>2. ASSUME DrainAbort(h) \/ DrainCycle(h) PROVE d'.nodes # {}
    BY <2>2 DEF DrainAbort, DrainCycle, Aborts, CyclesOnly, Begin
  <2>3. ASSUME NEW dom \in Domain, DrainStart(h, dom) PROVE d'.nodes # {}
    BY <2>3, SelectedNotEmpty DEF DrainStart, Begin
  <2> QED BY <2>1, <2>2, <2>3
<1> QED BY <1>1, <1>2

----------------------------------------------------------------------------
(* Heroes: their keys.                                                     *)

\* Only a pass for it takes a hero's key from the queue; a restart queues
\* every hero that exists.
LEMMA HeroKeyTaken ==
  ASSUME TypeOK, CacheSound, [Next]_vars, NEW h \in Hero, h \in dq, h \notin dq'
  PROVE  DrainReconcile(h) \/ Crash
<1> USE DEF apiVars, cacheVars, queueVars
<1>1. ASSUME NEW D, NEW J, Publish(D, J) PROVE h \notin D
  BY <1>1, PublishWakes
<1>2. CASE DrainStep
  <2>1. ASSUME NEW g \in Hero, DrainReconcile(g) PROVE g = h
    BY <2>1, KeyAssumption DEF DrainReconcile, DrainIgnore, DrainWait, DrainUnresolved, DrainReport,
      DrainAbort, DrainCycle, DrainStart, Begin
  <2>2. ASSUME NEW w \in Victim, DrainReconcile(w) PROVE FALSE
    BY <1>1, <2>2, KeyAssumption DEF DrainReconcile, VictimEvent, PatchVictim
  <2>3. ASSUME DrainContinue \/ DrainError PROVE FALSE
    BY <1>1, <2>3 DEF DrainContinue, EnsureTaint, AbortUntaint, SuspendVictim, ReactivateVictim,
      AbortSweep, ListOccupants, ListEvicted, EndCycle, AbortDone, DrainError, Requeue, PatchVictim
  <2> QED BY <1>2, <2>1, <2>2, <2>3 DEF DrainStep
<1>3. CASE JanitorStep
  BY <1>1, <1>3 DEF JanitorStep, JanitorReconcile, JanitorContinue, JanitorIgnore, JanitorWait,
    JanitorRestartClock, JanitorTeardown, RemoveTaint, ListMarked, SweepVictim, EndTeardown,
    JanitorError, JanitorReads, PatchVictim
<1>4. CASE Scheduler \/ Users
  BY <1>1, <1>4 DEF Scheduler, KueueTry, KueueAdmitHero, KueueRejectHero, KueueWake, KueueEvict,
    KueueAdmit, PodGone, WriteHero, WriteVictim, Users, HeroSubmit, HeroRuns, HeroFinishes,
    HeroEvicted, HeroDelete, HeroToggle, LabelChange, QuotaChange, TopologyChange, VictimToggle
<1>5. CASE Machines
  BY <1>1, <1>5 DEF Machines, NodeHealth, StripClock, ChangeNode, Tick, SyncNodes, SyncWorkloads
<1>6. CASE UNCHANGED vars
  BY <1>6 DEF vars
<1> QED BY <1>2, <1>3, <1>4, <1>5, <1>6 DEF Next

\* A pass for a hero without an admission never ends without its key.
LEMMA PassEnds ==
  ASSUME TypeOK, CacheSound, PassHasNodes, [Next]_vars,
         d.pc # "idle", ~d.admitted, d' = DrainIdle
  PROVE  d.hero \in dq' \/ Crash
<1> USE DEF apiVars, cacheVars, queueVars
<1>1. ASSUME NEW D, NEW J, Publish(D, J), d.hero \in D PROVE d.hero \in dq'
  BY <1>1, PublishWakes
<1>2. ASSUME UNCHANGED d PROVE FALSE
  BY <1>2 DEF DrainIdle
<1>3. d \in DrainRec
  BY DEF TypeOK, WorkerType
<1>4. CASE DrainStep
  <2>1. ASSUME NEW w \in Hero \cup Victim, DrainReconcile(w) PROVE FALSE
    BY <2>1 DEF DrainReconcile, VictimEvent, DrainIgnore, DrainWait, DrainUnresolved, DrainReport,
      DrainAbort, DrainCycle, DrainStart, Take
  <2>2. ASSUME NEW n \in Node, EnsureTaint(n) \/ AbortUntaint(n) PROVE d.hero \in dq'
    BY <1>3, <2>2 DEF EnsureTaint, AbortUntaint, Requeue, DrainRec, DrainIdle
  <2>3. ASSUME NEW v \in Victim, SuspendVictim(v) \/ ReactivateVictim(v) \/ AbortSweep(v) PROVE FALSE
    BY <1>3, <2>3 DEF SuspendVictim, ReactivateVictim, AbortSweep, DrainRec, DrainIdle
  <2>4. ASSUME ListOccupants \/ ListEvicted PROVE FALSE
    BY <1>3, <2>4 DEF ListOccupants, ListEvicted, DrainRec, DrainIdle
  <2>5. ASSUME EndCycle PROVE d.hero \in dq'
    BY <1>1, <2>5 DEF EndCycle, Requeue, PassHasNodes
  <2>6. ASSUME AbortDone \/ DrainError PROVE d.hero \in dq'
    BY <2>6 DEF AbortDone, DrainError, Requeue
  <2> QED BY <1>4, <2>1, <2>2, <2>3, <2>4, <2>5, <2>6 DEF DrainStep, DrainContinue
<1>5. CASE JanitorStep
  BY <1>2, <1>5 DEF JanitorStep, JanitorReconcile, JanitorContinue, JanitorIgnore, JanitorWait,
    JanitorRestartClock, JanitorTeardown, RemoveTaint, ListMarked, SweepVictim, EndTeardown,
    JanitorError, JanitorFrame
<1>6. CASE Scheduler \/ Users
  BY <1>2, <1>6 DEF Scheduler, KueueTry, KueueAdmitHero, KueueRejectHero, KueueWake, KueueEvict,
    KueueAdmit, PodGone, WriteHero, WriteVictim, Users, HeroSubmit, HeroRuns, HeroFinishes,
    HeroEvicted, HeroDelete, HeroToggle, LabelChange, QuotaChange, TopologyChange, VictimToggle,
    EnvFrame
<1>7. CASE Machines
  BY <1>2, <1>7 DEF Machines, NodeHealth, StripClock, ChangeNode, Tick, SyncNodes, SyncWorkloads,
    EnvFrame
<1>8. CASE UNCHANGED vars
  BY <1>2, <1>8 DEF vars
<1> QED BY <1>4, <1>5, <1>6, <1>7, <1>8 DEF Next

----------------------------------------------------------------------------
(* Heroes: no stuck one is forgotten.                                      *)

\* A pass that read its hero as admitted ends without putting the key back.  If
\* the hero is stuck again by now, its event is queued, or still on its way.
AdmittedPass ==
  \A h \in Hero : d.hero = h /\ d.admitted /\ hero[h].st = "stuck" => h \in dq \/ h \in wdirty

\* Only a restart switches dry-run mode on or off.
LEMMA ModeStays ==
  ASSUME [Next]_vars, ~Crash
  PROVE  UNCHANGED dry
<1> USE DEF adminVars
<1>1. CASE DrainStep
  BY <1>1 DEF DrainStep, DrainReconcile, DrainIgnore, DrainWait, DrainUnresolved, DrainReport,
    DrainAbort, DrainCycle, DrainStart, Begin, VictimEvent, DrainContinue, EnsureTaint,
    AbortUntaint, SuspendVictim, ReactivateVictim, AbortSweep, ListOccupants, ListEvicted, EndCycle,
    AbortDone, DrainError, DrainFrame
<1>2. CASE JanitorStep
  BY <1>2 DEF JanitorStep, JanitorReconcile, JanitorContinue, JanitorIgnore, JanitorWait,
    JanitorRestartClock, JanitorTeardown, RemoveTaint, ListMarked, SweepVictim, EndTeardown,
    JanitorError, JanitorFrame
<1>3. CASE Scheduler \/ Users
  BY <1>3 DEF Scheduler, KueueTry, KueueAdmitHero, KueueRejectHero, KueueWake, KueueEvict,
    KueueAdmit, PodGone, Users, HeroSubmit, HeroRuns, HeroFinishes,
    HeroEvicted, HeroDelete, HeroToggle, LabelChange, QuotaChange, TopologyChange, VictimToggle
<1>4. CASE Machines
  BY <1>4 DEF Machines, NodeHealth, StripClock, Tick, SyncNodes, SyncWorkloads
<1>5. CASE UNCHANGED vars
  BY <1>5 DEF vars
<1> QED BY <1>1, <1>2, <1>3, <1>4, <1>5 DEF Next

\* A pass over a hero to drain for, shown by the cache as it is, keeps the key
\* or begins to work; it does not take the hero for an admitted one.
LEMMA StuckPass ==
  ASSUME TypeOK, NEW h \in Hero, DrainReconcile(h), chero[h] = hero[h], hero[h].st = "stuck",
         h \notin dq'
  PROVE  /\ d'.hero = h => ~d'.admitted
         /\ Drainable(h) => d'.hero = h
<1>1. ASSUME NEW pc, NEW N, NEW L, NEW O, Begin(h, pc, N, L, O) PROVE d'.hero = h /\ ~d'.admitted
  BY <1>1 DEF Begin
<1>2. ASSUME DrainIgnore(h) \/ DrainUnresolved(h) \/ DrainReport(h)
      PROVE  d'.hero # h /\ ~Drainable(h)
  <2>1. d'.hero = None
    BY <1>2 DEF DrainIgnore, DrainUnresolved, DrainReport, Take, TypeOK, WorkerType
  <2>2. ~Drainable(h)
    BY <1>2 DEF DrainIgnore, DrainUnresolved, DrainReport, Resolves, Ignores, Lives, Exists,
      IsHero, IsStuck, IsStuckTASNoFit, OverQuota, Drainable
  <2> QED BY <2>1, <2>2, KeyAssumption
<1>3. ~DrainWait(h)
  BY DEF DrainWait, Take
<1> QED
  BY <1>1, <1>2, <1>3, KeyAssumption DEF DrainReconcile, DrainAbort, DrainCycle, DrainStart

LEMMA AdmittedPassStep ==
  ASSUME TypeOK, CacheSound, AdmittedPass, [Next]_vars
  PROVE  AdmittedPass'
<1> SUFFICES ASSUME NEW h \in Hero, d'.hero = h, d'.admitted, hero'[h].st = "stuck",
                    h \notin dq', h \notin wdirty'
             PROVE  FALSE
  BY DEF AdmittedPass
<1>1. hero'[h] = hero[h] /\ h \notin wdirty
  <2>1. hero'[h] = hero[h]
    BY WritesWake
  <2> QED BY <2>1, WritesWake DEF Exists
<1>2. chero[h] = hero[h]
  BY <1>1 DEF CacheSound
<1>3. ~Crash
  BY <1>1 DEF Crash, Exists
<1>4. CASE h \in dq
  BY <1>1, <1>2, <1>3, <1>4, HeroKeyTaken, StuckPass
<1>5. CASE h \notin dq
  <2>1. ~(d.hero = h /\ d.admitted)
    BY <1>1, <1>5 DEF AdmittedPass
  <2>2. d'.hero # None
    BY KeyAssumption
  <2>3. d.pc = "idle"
    <3> SUFFICES ASSUME d.pc # "idle" PROVE FALSE
      OBVIOUS
    <3>1. d' # DrainIdle
      BY <2>2 DEF DrainIdle
    <3>2. d'.hero = d.hero /\ d'.admitted = d.admitted
      BY <3>1, PassKeeps
    <3> QED BY <2>1, <3>2
  <2>4. d'.pc # "idle"
    <3> SUFFICES ASSUME d'.pc = "idle" PROVE FALSE
      OBVIOUS
    <3>1. TypeOK'
      BY StepType
    <3> QED BY <2>2, <3>1 DEF TypeOK, WorkerType
  <2>5. PICK g \in Hero : \/ DrainAbort(g) \/ DrainCycle(g)
                          \/ \E dom \in Domain : DrainStart(g, dom)
    BY <2>3, <2>4, PassBegins
  <2>6. g = h /\ g \in dq
    BY <2>5 DEF DrainAbort, DrainCycle, DrainStart, Begin, Take
  <2> QED BY <1>5, <2>6
<1> QED BY <1>4, <1>5

\* One step: a hero that is forgotten after it was forgotten before it, or lacked
\* the label, the quota or the topology.
LEMMA ForgetStep ==
  ASSUME TypeOK, CacheSound, PassHasNodes, AdmittedPass, [Next]_vars,
         NEW h \in label \cap quota \cap topo, h \in Hero, Forgotten(h)'
  PROVE  Forgotten(h)
<1>1. /\ hero'[h].st = "stuck" /\ hero'[h].active /\ ~dry'
      /\ h \notin dq' /\ h \notin wdirty' /\ d'.hero # h
  BY DEF Forgotten, Drainable
<1>2. hero'[h] = hero[h] /\ h \notin wdirty
  <2>1. hero'[h] = hero[h]
    BY <1>1, WritesWake
  <2> QED BY <1>1, <2>1, WritesWake DEF Exists
<1>3. chero[h] = hero[h]
  BY <1>2 DEF CacheSound
<1>4. ~Crash
  BY <1>1, <1>2 DEF Crash, Exists
<1>5. Drainable(h)
  BY <1>1, <1>2, <1>4, ModeStays DEF Drainable
<1>6. h \notin dq
  BY <1>1, <1>2, <1>3, <1>4, <1>5, HeroKeyTaken, StuckPass
<1>7. d.hero # h
  <2> SUFFICES ASSUME d.hero = h PROVE FALSE
    OBVIOUS
  <2>1. ~d.admitted
    BY <1>1, <1>2, <1>6 DEF AdmittedPass
  <2>2. d.pc # "idle"
    BY KeyAssumption DEF TypeOK, WorkerType
  <2>3. d' # DrainIdle
    BY <1>1, <1>4, <2>1, <2>2, PassEnds
  <2> QED BY <1>1, <2>2, <2>3, PassKeeps
<1> QED BY <1>2, <1>5, <1>6, <1>7 DEF Forgotten

\* NoHeroIsDropped, whatever lags, fails, restarts or is changed by hand: the
\* controllers lose sight of a hero to drain for only when an administrator's change
\* of an object that nobody watches makes it one.
THEOREM NoHeroIsForgotten == Spec => NoHeroIsDropped
<1> DEFINE Inv == PassHasNodes /\ AdmittedPass
           Step == \A h \in Hero : h \in label \cap quota \cap topo /\ Forgotten(h)' => Forgotten(h)
<1>1. Init => Inv
  BY DEF Init, PassHasNodes, AdmittedPass, DrainIdle
<1>2. TypeOK /\ CacheSound /\ Inv /\ [Next]_vars => Inv'
  BY PassHasNodesStep, AdmittedPassStep
<1>3. TypeOK /\ CacheSound /\ Inv /\ [Next]_vars => [Step]_vars
  BY ForgetStep
<1> QED BY <1>1, <1>2, <1>3, TypeCorrect, CachesSound, PTL DEF Spec, NoHeroIsDropped
=============================================================================
