\* The code violates ExpiredDrainEnds: see the README.
CONSTANTS
  Node = {1, 2}
  Domain <- MCDomain
  DomainOf <- MCOneDomain
  h1 = h1
  h2 = h2
  Hero = {h1}
  Victim = {v1}
  CQ <- MCOwnQueues
  Priority <- MCPriority
  QueuedAt <- MCQueuedAt
  Name <- MCName
  Need <- MCNeedAll
  DrainTimeout = 1
  NudgeInterval = 1
  NodeLag = FALSE
  WlLag = FALSE
  Faults = {"tick"}
  MaxFaults = 0
  None = None
SPECIFICATION ControlledSpec
PROPERTY ExpiredDrainEnds
