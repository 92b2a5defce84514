---------------------------- MODULE MCDrainPlan ----------------------------
(* Instances of DrainPlan for TLC: five nodes of one GPU, in three racks of *)
(* two blocks.                                                              *)
EXTENDS DrainPlan

CONSTANTS n1, n2, n3, n4, n5, a1, s1, s2, z1, d1

MCLevels == <<"block", "rack">>
MCLabel == [n \in Node |-> [block |-> IF n \in {n4, n5} THEN 2 ELSE 1,
                            rack  |-> CASE n \in {n1, n2} -> 1 [] n = n3 -> 2 [] OTHER -> 3]]
MCOneGPU == [n \in Node |-> 1]
MCPodGPU == [p \in Pod |-> 1]

Own == {[key |-> "drain", op |-> "Equal", value |-> HeroCQ, effect |-> "NoSchedule"]}
PodSet(slice, size, required, count) ==
  [slice |-> slice, size |-> size, required |-> required, count |-> count, gpu |-> 1, tols |-> Own]

\* One slice; two in one block; two with a partial one; slices of two levels; a
\* level that is not in the hierarchy.
MCSpecs ==
  { <<PodSet("rack", 2, NoLevel, 2)>>,
    <<PodSet("rack", 1, "block", 2)>>,
    <<PodSet("rack", 2, NoLevel, 3)>>,
    <<PodSet("block", 2, NoLevel, 2), PodSet("rack", 2, NoLevel, 2)>>,
    <<PodSet("rack", 1, "zone", 1)>> }

MCWorkloadOf == [p \in Pod |-> CASE p = a1 -> "a" [] p \in {s1, s2} -> "s" [] p = z1 -> "z"
                                  [] OTHER -> None]
MCAlike == {f @@ g @@ h : f \in Permutations({s1, s2}), g \in Permutations({n1, n2}),
                          h \in Permutations({n4, n5})}
MCPriority == [w \in Workload |-> CASE w = "a" -> 2 [] w = "s" -> 1 [] w = "z" -> 4]
MCPodCount == [w \in Workload |-> IF w = "s" THEN 2 ELSE 1]
MCClusterQueue == [w \in Workload |-> IF w = "a" THEN "other" ELSE "cq"]
MCAdmittedAt == [w \in Workload |-> IF w = "a" THEN -2 ELSE 0]
MCDowns == {{}, {n1}, {n2}}
MCRivals == {{}, {n3}}

\* What the theorems RefusalsAreRight and PlansServe ask of a cluster and a hero.
ASSUME MCNested == Nested /\ OnePodSize(1) /\ SlicesInside
============================================================================
