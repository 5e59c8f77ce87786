CONSTANTS
  a = a
  Tasks = {t1, t2}
  Nodes = {a}
  NodeOf <- Reconnect
  MaxPumpRounds = 2
SPECIFICATION Spec
INVARIANTS
  DirectoryIsCurrent
  NoStrandedEvent
PROPERTIES
  LeaseReleasedByOwnerOnly
CHECK_DEADLOCK FALSE
