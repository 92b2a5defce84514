\* One hero and one domain of two nodes to drain; the Workload cache lags; the hero is
\* deleted, the process restarts, or an operator starts or stops the victim, at any moment.
CONSTANTS
  Node = {1, 2}
  Domain <- MCDomain
  DomainOf <- MCOneDomain
  h1 = h1
  h2 = h2
  Hero = {h1}
  Victim = {v1}
  CQ <- MCOwnQueues
  Priority <- MCPriority
  QueuedAt <- MCQueuedAt
  Name <- MCName
  Need <- MCNeedAll
  DrainTimeout = 1
  NudgeInterval = 1
  NodeLag = FALSE
  WlLag = TRUE
  Faults = {"crash", "delete", "vtoggle"}
  MaxFaults = 1
  None = None
SPECIFICATION LiveSpec
PROPERTY HeroIsAdmitted
PROPERTY VictimComesBack
\* A cluster with nothing left to do may rest.
CHECK_DEADLOCK FALSE
