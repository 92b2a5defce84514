\* Two heroes contend for one node; both caches lag.
CONSTANTS
  Node = {1}
  Domain <- MCDomain
  DomainOf <- MCOneDomain
  h1 = h1
  h2 = h2
  Hero = {h1, h2}
  Victim = {}
  CQ <- MCOwnQueues
  Priority <- MCPriority
  QueuedAt <- MCQueuedAt
  Name <- MCName
  Need <- MCNeedOne
  DrainTimeout = 1
  NudgeInterval = 1
  NodeLag = TRUE
  WlLag = TRUE
  Faults = {"nofit", "error", "crash", "delete", "tick"}
  MaxFaults = 1
  None = None
SPECIFICATION Spec
INVARIANT DeadlineArmed
PROPERTY OwnerNeverStolen
PROPERTY FreshClock
