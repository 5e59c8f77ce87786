CONSTANTS
  Threads = {t1, t2}
  PACKET_NO_CEILING = 4
  EXHAUSTED = 6
  REPLAY_WINDOW = 3
  REPLAY_MAX_FORWARD_JUMP = 3
  MaxPacketNo = 4
SPECIFICATION FairSpec
INVARIANTS
  DispatchedAtMostOnce
  BitmapExact
PROPERTIES
  ExhaustionIsTerminal
  AllocateReturns
