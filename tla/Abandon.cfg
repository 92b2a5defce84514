\* Two heroes in line for one node, one of which is deleted or stopped at any moment;
\* the Node cache lags, and the process may restart.
CONSTANTS
  Node = {1}
  Domain <- MCDomain
  DomainOf <- MCOneDomain
  h1 = h1
  h2 = h2
  Hero = {h1, h2}
  Victim = {}
  CQ <- MCOwnQueues
  Priority <- MCPriority
  QueuedAt <- MCQueuedAt
  Name <- MCName
  Need <- MCNeedOne
  DrainTimeout = 1
  NudgeInterval = 1
  NodeLag = TRUE
  WlLag = FALSE
  Faults = {"nofit", "delete", "toggle", "crash"}
  MaxFaults = 1
  None = None
SPECIFICATION ControlledSpec
PROPERTY AbandonedIsCollected
PROPERTY LineMovesOn
\* A cluster with nothing left to do may rest.
CHECK_DEADLOCK FALSE
