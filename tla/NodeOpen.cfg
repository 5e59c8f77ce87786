CONSTANTS
  c1 = c1
  c2 = c2
  c3 = c3
  r1 = r1
  r3 = r3
  Calls = {c1, c2, c3}
  ChainLegs = {c3}
  RequestOf <- RetryRequests
  MaxStreams = 1
  RequestIds = {r1, r3}
  Hashes = {h1}
  OPERATION_MAX_PENDING = 2
  OPERATION_TOMBSTONE_MAX = 1
  OpenTimeout = 2
  ResultRetention = 2
  MaxTime = 4
SPECIFICATION FairOpenSpec
INVARIANTS
  ExecutedAtMostOnce
  EngineStreamsAccountedFor
PROPERTIES
  ResultsAreKept
  EveryOpenIsAnswered
CHECK_DEADLOCK FALSE
