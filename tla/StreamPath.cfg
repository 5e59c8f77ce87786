CONSTANTS
  FLOW_WINDOW = 2
  Scenarios <- Loads
  MaxFaults = 1
  MaxWrite = 2
  MaxRead = 2
SPECIFICATION FairSpec
CHECK_DEADLOCK FALSE
INVARIANTS CreditFollowsConsumption
PROPERTIES  Completes
