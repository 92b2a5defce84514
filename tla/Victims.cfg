\* One hero drains a domain of two nodes under every disturbance.
CONSTANTS
  Node = {1, 2}
  Domain <- MCDomain
  DomainOf <- MCOneDomain
  h1 = h1
  h2 = h2
  Hero = {h1}
  Victim = {v1}
  CQ <- MCOwnQueues
  Priority <- MCPriority
  QueuedAt <- MCQueuedAt
  Name <- MCName
  Need <- MCNeedAll
  DrainTimeout = 1
  NudgeInterval = 1
  NodeLag = FALSE
  WlLag = TRUE
  Faults = {"error", "crash", "delete", "toggle", "finish", "evict", "label", "quota", "node", "strip", "topology", "dryrun"}
  MaxFaults = 1
  None = None
SPECIFICATION Spec
INVARIANT SuspendedIsMarked
INVARIANT SuspensionWillEnd
\* A cluster with nothing left to do may rest.
CHECK_DEADLOCK FALSE
