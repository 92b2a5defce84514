--------------------------- MODULE HeroPredicates ---------------------------
(***************************************************************************)
(* pkg/hero: what a hero's podsets say about the drain.  A workload is a   *)
(* sequence of podsets; an absent annotation is NoLevel or 0; a quantity   *)
(* of GPUs is a number.                                                    *)
(***************************************************************************)
EXTENDS Integers, Sequences, FiniteSets, FiniteSetsExt, Functions

CONSTANTS
  Levels,   \* spec.levels of the Topology: node label keys, highest first
  NoLevel,  \* no level
  HeroCQ    \* the ClusterQueue the hero is submitted through

ASSUME LevelsAssumption == /\ Levels \in Seq(Range(Levels)) /\ IsInjective(Levels)
                           /\ NoLevel \notin Range(Levels)

----------------------------------------------------------------------------
(* Which podsets, and which levels.                                        *)

\* The slice pair: only these podsets are drained for.
RequiresSliceTopology(ps) == ps.slice # NoLevel /\ ps.size > 0

SlicePodSets(wl) == {i \in DOMAIN wl : RequiresSliceTopology(wl[i])}

RequiredTopologyLevels(wl) == {wl[i].slice : i \in SlicePodSets(wl)}

GroupingLevels(wl) == {wl[i].required : i \in SlicePodSets(wl)} \ {NoLevel}

\* A level's place in the hierarchy: 1 is the coarsest.
Index(l) == CHOOSE i \in DOMAIN Levels : Levels[i] = l

InHierarchy(L) == L \subseteq Range(Levels)

\* A faulty variant: podsets that disagree are drained for at the finest level.
LowestLevel(L) ==
  IF L = {} \/ ~InHierarchy(L) THEN NoLevel ELSE Levels[Max({Index(l) : l \in L})]

CoarsestLevel(L) ==
  IF L = {} \/ ~InHierarchy(L) THEN NoLevel ELSE Levels[Min({Index(l) : l \in L})]

FinestLevel(L) ==
  IF L = {} \/ ~InHierarchy(L) THEN NoLevel ELSE Levels[Max({Index(l) : l \in L})]

\* The level inside whose domains a plan has to stay; NoLevel is no limit.
\* Levels finer than the drain level are dropped before the finest is taken.
GroupingLevel(wl, drainLevel) ==
  FinestLevel({l \in GroupingLevels(wl) : Index(l) <= Index(drainLevel)})

----------------------------------------------------------------------------
(* Demand: ceil(pods / sliceSize) chunks of one slice's GPUs per podset,   *)
(* chunks of equal size merged.                                            *)

ChunkSize(ps) == ps.size * ps.gpu

ChunkCount(ps) == (ps.count + ps.size - 1) \div ps.size

Demand(wl) ==
  LET asking   == {i \in SlicePodSets(wl) : ChunkSize(wl[i]) > 0 /\ ChunkCount(wl[i]) > 0}
      Sized(s) == {i \in asking : ChunkSize(wl[i]) = s}
  IN  [s \in {ChunkSize(wl[i]) : i \in asking} |->
         MapThenSumSet(LAMBDA i : ChunkCount(wl[i]), Sized(s))]

PodTotal(wl) == MapThenSumSet(LAMBDA i : wl[i].count, DOMAIN wl)

----------------------------------------------------------------------------
(* Identity.                                                               *)

\* Core scheduling semantics for the NoSchedule drain taint with value
\* HeroCQ: an empty effect or key matches every one.
ToleratesTaint(tols) ==
  \E t \in tols : /\ t.effect \in {"", "NoSchedule"}
                  /\ t.key \in {"", "drain"}
                  /\ t.op = "Exists" \/ (t.op \in {"", "Equal"} /\ t.value = HeroCQ)

\* In a hero ClusterQueue and of the hero priority class, which the callers
\* take for granted: some podset has the slice pair, each of them tolerates.
IsHero(wl) == /\ SlicePodSets(wl) # {}
              /\ \A i \in SlicePodSets(wl) : ToleratesTaint(wl[i].tols)
============================================================================
