\* The code violates AtMostOneDrain: see the README.
CONSTANTS
  Node = {1, 2}
  Domain <- MCDomain
  DomainOf <- MCOwnDomain
  h1 = h1
  h2 = h2
  Hero = {h1, h2}
  Victim = {}
  CQ <- MCOwnQueues
  Priority <- MCPriority
  QueuedAt <- MCQueuedAt
  Name <- MCName
  Need <- MCNeedOne
  DrainTimeout = 1
  NudgeInterval = 1
  NodeLag = TRUE
  WlLag = FALSE
  Faults = {"nofit"}
  MaxFaults = 0
  None = None
SPECIFICATION Spec
INVARIANT AtMostOneDrain
\* A cluster with nothing left to do may rest.
CHECK_DEADLOCK FALSE
