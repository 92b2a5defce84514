\* The code violates OnlyOccupantsSuspended: see the README.
CONSTANTS
  Node = {1, 2, 3}
  Domain <- MCDomain
  DomainOf <- MCDomainOf
  h1 = h1
  h2 = h2
  Hero = {h1}
  Victim = {v1}
  CQ <- MCOwnQueues
  Priority <- MCPriority
  QueuedAt <- MCQueuedAt
  Name <- MCName
  Need <- MCNeedAll
  DrainTimeout = 1
  NudgeInterval = 1
  NodeLag = FALSE
  WlLag = FALSE
  Faults = {}
  MaxFaults = 0
  None = None
SPECIFICATION Spec
PROPERTY OnlyOccupantsSuspended
\* A cluster with nothing left to do may rest.
CHECK_DEADLOCK FALSE
