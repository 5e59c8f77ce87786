CONSTANTS
  h1 = h1
  h2 = h2
  Hubs = {h1, h2}
  HubOrder <- Order
  MaxCallers = 1
  MaxLoops = 3
  MaxSessions = 5
  MaxLists = 2
  HEALTH_FAILURES_BEFORE_FAILOVER = 2
  Loads <- MCLoads
SPECIFICATION FairSpec
INVARIANTS
  SelectableIsWatched
PROPERTIES
  
  LoopsStop
CHECK_DEADLOCK FALSE
