\* The code violates EndIsCounted: see the README.
CONSTANTS
  Node = {1, 2}
  Domain <- MCDomain
  DomainOf <- MCOneDomain
  h1 = h1
  h2 = h2
  Hero = {h1}
  Victim = {v1}
  CQ <- MCOwnQueues
  Priority <- MCPriority
  QueuedAt <- MCQueuedAt
  Name <- MCName
  Need <- MCNeedAll
  DrainTimeout = 1
  NudgeInterval = 1
  NodeLag = TRUE
  WlLag = FALSE
  Faults = {}
  MaxFaults = 0
  None = None
SPECIFICATION Spec
INVARIANT EndIsCounted
\* A cluster with nothing left to do may rest.
CHECK_DEADLOCK FALSE
