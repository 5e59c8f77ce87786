CONSTANTS
  Feeders = {f1}
  REORDER_MAX_OUT_OF_ORDER_BYTES = 3
  REORDER_MAX_BLOCKS = 2
  REORDER_BUFFER_BYTES = 4
  FLOW_WINDOW = 4
  MaxOffset = 10
  MaxLen = 2
SPECIFICATION Spec
INVARIANTS
  
  CreditSound
  ConformingPeerInSync
