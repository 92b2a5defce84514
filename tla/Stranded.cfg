\* The code violates HandedBackActive: see the README.
CONSTANTS
  Node = {1}
  Domain <- MCDomain
  DomainOf <- MCOneDomain
  h1 = h1
  h2 = h2
  Hero = {h1}
  Victim = {v1}
  CQ <- MCOwnQueues
  Priority <- MCPriority
  QueuedAt <- MCQueuedAt
  Name <- MCName
  Need <- MCNeedOne
  DrainTimeout = 1
  NudgeInterval = 1
  NodeLag = FALSE
  WlLag = TRUE
  Faults = {"tick", "vtoggle"}
  MaxFaults = 1
  None = None
SPECIFICATION Spec
PROPERTY HandedBackActive
