\* Two heroes, two domains of one node; Workload cache lags.
CONSTANTS
  Node = {1, 2}
  Domain <- MCDomain
  DomainOf <- MCOwnDomain
  h1 = h1
  h2 = h2
  Hero = {h1, h2}
  Victim = {}
  CQ <- MCOwnQueues
  Priority <- MCPriority
  QueuedAt <- MCQueuedAt
  Name <- MCName
  Need <- MCNeedOne
  DrainTimeout = 1
  NudgeInterval = 1
  NodeLag = FALSE
  WlLag = TRUE
  Faults = {"nofit", "error", "delete", "wake", "quota", "topology", "crash"}
  MaxFaults = 1
  None = None
SPECIFICATION Spec
INVARIANT TypeOK
INVARIANT AtMostOneDrain
PROPERTY OneLock
PROPERTY NoHeroIsDropped
\* A cluster with nothing left to do may rest.
CHECK_DEADLOCK FALSE
