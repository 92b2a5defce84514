\* Five nodes, three racks, two blocks; every placement of the other tenants.
CONSTANTS
  Levels <- MCLevels
  NoLevel = NoLevel
  HeroCQ = "cq"
  n1 = n1
  n2 = n2
  n3 = n3
  n4 = n4
  n5 = n5
  Node = {n1, n2, n3, n4, n5}
  Label <- MCLabel
  GPU <- MCOneGPU
  Workload = {"a", "s", "z"}
  a1 = a1
  s1 = s1
  s2 = s2
  z1 = z1
  d1 = d1
  Pod = {a1, s1, s2, z1, d1}
  WorkloadOf <- MCWorkloadOf
  PodGPU <- MCPodGPU
  NonBlocking = {}
  None = None
  Priority <- MCPriority
  PodCount <- MCPodCount
  ClusterQueue <- MCClusterQueue
  HeroPriority = 4
  WeightPriority = 28
  WeightPodCount = 8
  WeightRuntime = 4
  RuntimeHalfLife = 2
  CrossCQMultiplier = 5
  Scale = 40
  HeroSpecs <- MCSpecs
  Downs <- MCDowns
  Rivals <- MCRivals
  AdmittedAt <- MCAdmittedAt
  MaxMoves = 1
SPECIFICATION Spec
\* The two pods of one workload are alike, and the two nodes of a rack.
SYMMETRY MCAlike
INVARIANT TypeOK
INVARIANT PlanServesHero
INVARIANT PlanHasRoom
INVARIANT PlanKeepsOff
INVARIANT NoPlanMeansNoFit
INVARIANT CheapestForOneSlice
INVARIANT DrainStaysInside
\* A drained domain may rest.
CHECK_DEADLOCK FALSE
