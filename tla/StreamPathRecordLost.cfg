CONSTANTS
  FLOW_WINDOW = 2
  Scenarios <- RecordLost
  MaxFaults = 1
  MaxWrite = 2
  MaxRead = 2
SPECIFICATION FairSpec
CHECK_DEADLOCK FALSE
INVARIANT
  NeverTruncated
