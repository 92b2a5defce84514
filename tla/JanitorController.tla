------------------------- MODULE JanitorController -------------------------
(***************************************************************************)
(* pkg/controller/janitor: one worker that takes a tainted node from the   *)
(* queue and asks whether its taint still serves its hero.  As in the      *)
(* drain controller, the ladder reads the caches in one step and every     *)
(* write of a teardown is a step of its own.                               *)
(***************************************************************************)
EXTENDS HeroCluster

----------------------------------------------------------------------------
(* The decision ladder for node n, with h the owner its annotation names.  *)

Abandoned(h) == ~Exists(chero[h]) \/ ~chero[h].active \/ chero[h].st = "finished"

PlacedElsewhere(n, h) == chero[h].st = "admitted" /\ n \notin chero[h].adm

FullyRunning(h) == chero[h].st = "admitted" /\ h \in running

TimedOut(n) == cnode[n].started # NoStamp /\ cnode[n].started >= DrainTimeout

ServesNothing(n, h) == Abandoned(h) \/ PlacedElsewhere(n, h) \/ FullyRunning(h)

JanitorFrame == UNCHANGED <<d, term, running, label, quota, topo, dry>>

JanitorReads == UNCHANGED <<apiVars, cacheVars, dq, parked, faults>>

JanitorTake(n) == j.pc = "idle" /\ n \in jq

\* Not tainted, or not by a drain: nothing to do.
JanitorIgnore(n) ==
  /\ JanitorTake(n) /\ cnode[n].owner = None
  /\ jq' = jq \ {n}
  /\ UNCHANGED <<j, owed>> /\ JanitorReads /\ JanitorFrame

\* The drain goes on: RequeueAfter the time that remains.
JanitorWait(n) ==
  LET h == cnode[n].owner IN
  /\ JanitorTake(n) /\ h # None
  /\ ~ServesNothing(n, h) /\ ~TimedOut(n) /\ cnode[n].started # NoStamp
  /\ UNCHANGED <<jq, j, owed>> /\ JanitorReads /\ JanitorFrame

\* The clock was stripped: restartClock patches it, whatever the node's
\* version, and the node comes back after a full DrainTimeout.
JanitorRestartClock(n) ==
  LET h == cnode[n].owner IN
  /\ JanitorTake(n) /\ h # None
  /\ ~ServesNothing(n, h) /\ cnode[n].started = NoStamp
  /\ node' = [node EXCEPT ![n].started = 0]
  /\ UNCHANGED <<hero, vic, j, owed, faults>>
  /\ WakeKueue
  /\ Publish(dq, jq)
  /\ JanitorFrame

\* The last tainted node of the drain, as the cache shows it.
IsLast(n, h) == OwnNodes(h) = {n}

\* teardown counts the drain's end before it removes anything.
JanitorTeardown(n) ==
  LET h == cnode[n].owner IN
  /\ JanitorTake(n) /\ h # None
  /\ ServesNothing(n, h) \/ TimedOut(n)
  /\ owed' = IF IsLast(n, h) THEN owed \ {h} ELSE owed
  /\ j' = [pc |-> "remove", node |-> n, owner |-> h, occ |-> {}, live |-> {}]
  /\ jq' = jq \ {n}
  /\ JanitorReads /\ JanitorFrame

JanitorReconcile(n) == \/ JanitorIgnore(n) \/ JanitorWait(n)
                       \/ JanitorRestartClock(n) \/ JanitorTeardown(n)

----------------------------------------------------------------------------
(* teardown: RemoveOwnedTaint, SweepFor, and the nudge to the drain queue. *)

\* A faulty variant: the error is logged and swallowed.
JanitorGivesUp == j' = JanitorIdle /\ UNCHANGED jq

\* A pass that ends with an error.
JanitorRequeue == j' = JanitorIdle /\ jq' = jq \cup {j.node}

RemoveTaint ==
  LET n == j.node
      Go == j' = [j EXCEPT !.pc = "list"]
  IN  /\ j.pc = "remove"
      /\ \/ /\ cnode[n].owner # j.owner
            /\ Go
            /\ UNCHANGED jq /\ JanitorReads
         \/ /\ cnode[n].owner = j.owner /\ UpdateAccepted(n)
            /\ node' = [node EXCEPT ![n] = Untainted(cnode[n])]
            /\ UNCHANGED <<hero, vic, faults>>
            /\ WakeKueue
            /\ Publish(dq, jq)
            /\ Go
         \/ /\ cnode[n].owner = j.owner /\ ~UpdateAccepted(n)
            /\ JanitorRequeue /\ JanitorReads
      /\ UNCHANGED owed /\ JanitorFrame

\* SweepFor lists the victims the index knows as this drain's ...
ListMarked ==
  /\ j.pc = "list"
  /\ j' = [j EXCEPT !.pc = "sweep", !.occ = MarkedFor(j.owner), !.live = Live(MarkedFor(j.owner))]
  /\ UNCHANGED <<jq, owed>> /\ JanitorReads /\ JanitorFrame

\* ... and reactivates each one, evicted or not.
SweepVictim(v) ==
  /\ j.pc = "sweep" /\ v \in j.occ
  /\ j' = [j EXCEPT !.occ = @ \ {v}]
  /\ PatchVictim(v, Reactivated(vic[v], v \in j.live), dq)
  /\ UNCHANGED owed /\ JanitorFrame

\* The nudge channel is bounded: the event wakes the stuck workloads, or the
\* channel is full and the send is dropped.
EndTeardown ==
  /\ j.pc = "sweep" /\ j.occ = {}
  /\ j' = JanitorIdle
  /\ dq' = dq \cup StuckRequests(chero) \/ dq' = dq
  /\ UNCHANGED <<apiVars, cacheVars, jq, parked, faults, owed>> /\ JanitorFrame

JanitorError ==
  /\ j.pc # "idle" /\ Fault("error")
  /\ JanitorRequeue
  /\ UNCHANGED <<apiVars, cacheVars, dq, parked, owed>> /\ JanitorFrame

JanitorContinue == RemoveTaint \/ ListMarked \/ (\E v \in Victim : SweepVictim(v))
                   \/ EndTeardown
============================================================================
