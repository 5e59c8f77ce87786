------------------------------ MODULE UdpClock ------------------------------
(***************************************************************************)
(* What every datagram queue of the program shares: the monotonic clock    *)
(* its TTL and idle rules read, the budgets of wsnet-limits, and the two   *)
(* ways a bounded queue is kept inside its count and byte budgets.         *)
(***************************************************************************)
EXTENDS Integers, Sequences, SequencesExt

CONSTANTS
  MaxNow,             \* bound: the last instant of the clock
  QUEUE_TTL,          \* UDP_QUEUE_TTL_DEFAULT_MS, in ticks
  IDLE,               \* UDP_ASSOCIATION_IDLE_SECS, in ticks
  MAX_QUEUED,         \* MAX_QUEUED_DATAGRAMS_PER_ASSOCIATION
  MAX_QUEUED_BYTES,   \* MAX_QUEUED_DATAGRAM_BYTES
  Sizes               \* payload lengths a sender may choose

VARIABLE now

\* The bytes a queue holds: the `queued_bytes` each queue keeps beside it.
Bytes(q) == FoldLeft(LAMBDA n, d : n + d.size, 0, q)

Fits(q, d) == Len(q) < MAX_QUEUED /\ Bytes(q) + d.size <= MAX_QUEUED_BYTES

\* The oldest entries that have to go before d fits.
DropOldest(q, d) ==
  LET keep == {i \in 0..Len(q) : Fits(SubSeq(q, i + 1, Len(q)), d)}
      n == CHOOSE i \in keep : \A j \in keep : i <= j
  IN  IF keep = {} THEN <<>> ELSE SubSeq(q, n + 1, Len(q))

Tick == now < MaxNow /\ now' = now + 1
=============================================================================
