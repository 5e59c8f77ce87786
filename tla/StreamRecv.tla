----------------------------- MODULE StreamRecv -----------------------------
(***************************************************************************)
(* The receiving half of one stream: wsnet-stream's ReorderBuffer and      *)
(* CreditAccount as the session engine drives them from deliver_data and   *)
(* consume.                                                                *)
(*                                                                         *)
(* A block is the pair of its offset and its length; what the bytes are is *)
(* determined by where they are, so two blocks have the same content when  *)
(* they are equal.  deliver_data changes the buffer and the account under  *)
(* the streams mutex and emits the Data events after releasing it: the     *)
(* blocks a feeder still has to emit are in its outbox.                    *)
(*                                                                         *)
(* Offsets stay far below 2^64 here; the checked_add refusals, which leave *)
(* everything unchanged, are left out.                                     *)
(***************************************************************************)
EXTENDS Integers, FiniteSets, SequencesExt

CONSTANTS Feeders,                         \* tasks that call feed
          REORDER_MAX_OUT_OF_ORDER_BYTES,  \* ReorderBuffer.limit_bytes
          REORDER_MAX_BLOCKS,              \* ReorderBuffer.limit_blocks
          REORDER_BUFFER_BYTES,            \* ReorderBuffer.look_ahead_bytes
          FLOW_WINDOW,                     \* CreditAccount.window
          MaxOffset,                       \* bound: end of the offset space
          MaxLen                           \* bound: longest block

ASSUME StreamAssumption ==
  /\ REORDER_MAX_OUT_OF_ORDER_BYTES \in Nat
  /\ REORDER_MAX_BLOCKS \in Nat
  /\ REORDER_BUFFER_BYTES \in Nat
  /\ FLOW_WINDOW \in Nat
  /\ MaxOffset \in Nat
  /\ MaxLen \in Nat

VARIABLES next,      \* next offset the reorder buffer will release
          pending,   \* out-of-order blocks
          buffered,  \* the buffer's own count of pending bytes
          received,  \* CreditAccount.received
          consumed,  \* CreditAccount.consumed
          limit,     \* CreditAccount.limit
          outbox,    \* released blocks whose Data event is not yet sent
          events,    \* Data events in the order they were sent (history)
          overrun    \* whether the peer ever sent past the limit (history)

bufferVars == <<next, pending, buffered>>
creditVars == <<received, consumed, limit>>
vars == <<bufferVars, creditVars, outbox, events, overrun>>

Offsets == 0 .. MaxOffset
Block   == [off : Offsets, len : 0 .. MaxLen]
End(b)  == b.off + b.len
Blocks  == {b \in Block : End(b) <= MaxOffset}

TypeOK ==
  /\ next \in Offsets
  /\ pending \in SUBSET Blocks
  /\ buffered \in Nat
  /\ received \in Offsets
  /\ consumed \in Offsets
  /\ limit \in Nat
  /\ outbox \in [Feeders -> Seq(Blocks)]
  /\ events \in Seq(Blocks)
  /\ overrun \in BOOLEAN

(* StreamEntry::new: the initial credit is the flow window. *)
Init ==
  /\ next = 0 /\ pending = {} /\ buffered = 0
  /\ received = 0 /\ consumed = 0 /\ limit = FLOW_WINDOW
  /\ outbox = [f \in Feeders |-> <<>>]
  /\ events = <<>>
  /\ overrun = FALSE

-----------------------------------------------------------------------------
(* insert_offsets *)
Retransmit(b) == b.len = 0 \/ End(b) <= next \/ b \in pending

Overlap(b, c) == b.off < End(c) /\ c.off < End(b)

(* A partial overlap with what was released or with what is buffered; equal  *)
(* starts with different contents overlap too.                               *)
Conflicts(b) ==
  \/ b.off < next
  \/ \E c \in pending : Overlap(b, c)

WithinBudget(b) ==
  /\ b.off - next <= REORDER_BUFFER_BYTES
  /\ buffered + b.len <= REORDER_MAX_OUT_OF_ORDER_BYTES
  /\ b.off # next => Cardinality(pending) + 1 <= REORDER_MAX_BLOCKS

\* Mutant: everything buffered is released as soon as the gap's start arrives.
Contiguous_IgnoresGaps(blocks) ==
  IF \E b \in blocks : b.off = next THEN blocks ELSE {}

(* The blocks the drain loop removes: those with no hole between next and    *)
(* their start.  (blocks are disjoint and start at or after next.)           *)
Contiguous(blocks) ==
  {b \in blocks :
     \A i \in next .. (b.off - 1) :
       \E c \in blocks : c.off <= i /\ i < End(c)}

IsLast(e, ends) == e \in ends /\ \A o \in ends : o <= e

-----------------------------------------------------------------------------
(* deliver_data *)
InOrder(blocks) == SetToSortSeq(blocks, LAMBDA b, c : b.off < c.off)

\* Mutant: the block that exactly uses up the credit is refused.
Credited_OneShort(out) == {b \in out : received = next /\ End(b) < limit}

(* The released blocks record_received takes before it fails, if it does: a  *)
(* block past the limit is refused, and so is every block once the account   *)
(* has fallen behind the buffer.                                             *)
Credited(out) == {b \in out : received = next /\ End(b) <= limit}

(* record_received's error returns before any event is sent. *)
Emitted(out) == IF Credited(out) = out THEN out ELSE {}

(* A block the buffer takes.  next moves even when record_received fails. *)
DeliverData(f, b) ==
  /\ outbox[f] = <<>>
  /\ ~Retransmit(b) /\ ~Conflicts(b) /\ WithinBudget(b)
  /\ overrun' = (overrun \/ End(b) > limit)
  /\ LET out == Contiguous(pending \cup {b})
     IN  /\ pending' = (pending \cup {b}) \ out
         /\ next' \in Offsets
         /\ IsLast(next', {next} \cup {End(c) : c \in out})
         /\ buffered' = buffered + b.len - (next' - next)
         /\ received' \in Offsets
         /\ IsLast(received', {received} \cup {End(c) : c \in Credited(out)})
         /\ outbox' = [outbox EXCEPT ![f] = InOrder(Emitted(out))]
  /\ UNCHANGED <<consumed, limit, events>>

(* A block the buffer drops as a retransmit or refuses with an error. *)
DropData(f, b) ==
  /\ outbox[f] = <<>>
  /\ Retransmit(b) \/ Conflicts(b) \/ ~WithinBudget(b)
  /\ overrun' = (overrun \/ End(b) > limit)
  /\ UNCHANGED <<bufferVars, creditVars, outbox, events>>

EmitData(f) ==
  /\ outbox[f] # <<>>
  /\ events' = Append(events, Head(outbox[f]))
  /\ outbox' = [outbox EXCEPT ![f] = Tail(@)]
  /\ UNCHANGED <<bufferVars, creditVars, overrun>>

\* Mutant: credit is replenished from what arrived.
Consume_GrantsOnReceipt(bytes) ==
  /\ consumed + bytes <= received
  /\ consumed' = consumed + bytes
  /\ limit' = IF received + FLOW_WINDOW > limit
                THEN received + FLOW_WINDOW ELSE limit
  /\ UNCHANGED <<bufferVars, received, outbox, events, overrun>>

(* consume: the application takes bytes it was handed, and the limit follows *)
(* what it took.                                                             *)
Consume(bytes) ==
  /\ consumed + bytes <= received
  /\ consumed' = consumed + bytes
  /\ limit' = IF consumed' + FLOW_WINDOW > limit
                THEN consumed' + FLOW_WINDOW ELSE limit
  /\ UNCHANGED <<bufferVars, received, outbox, events, overrun>>

Next ==
  \/ \E f \in Feeders, b \in Blocks : DeliverData(f, b) \/ DropData(f, b)
  \/ \E f \in Feeders : EmitData(f)
  \/ \E bytes \in 1 .. MaxLen : Consume(bytes)

Spec == Init /\ [][Next]_vars

-----------------------------------------------------------------------------
(* No byte is handed on twice, skipped or out of order: the Data events      *)
(* tile the stream from offset 0, and after a credit error the stream stays  *)
(* silent instead of resuming past a hole.  engine.rs calls them "Ordered    *)
(* business bytes".                                                          *)
EventsInOrder ==
  \A i \in 1 .. Len(events) :
    events[i].off = IF i = 1 THEN 0 ELSE End(events[i - 1])

(* What insert_offsets keeps out of order are disjoint blocks strictly ahead *)
(* of next: the drain loop left nothing releasable behind.                   *)
BufferDisjoint ==
  /\ \A b \in pending : b.len > 0 /\ b.off > next
  /\ \A b, c \in pending : Overlap(b, c) => b = c

(* Byte credit follows consumption: the peer is never credited for more than *)
(* one window beyond what the application took.                              *)
CreditSound ==
  /\ consumed <= received
  /\ received <= next
  /\ received <= limit
  /\ limit = consumed + FLOW_WINDOW

(* A peer that respects its limit never desynchronises the credit account    *)
(* from the reorder buffer, the state in which deliver_data refuses every    *)
(* further block.                                                            *)
ConformingPeerInSync == ~overrun => received = next

=============================================================================
