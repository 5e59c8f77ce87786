-------------------------- MODULE StreamRecvProofs --------------------------
(***************************************************************************)
(* For every window, budget and offset space: the credit account and the   *)
(* reorder buffer of a stream's receiving half stay consistent, whatever   *)
(* blocks arrive and however many tasks feed them.                         *)
(***************************************************************************)
EXTENDS StreamRecv, TLAPS

(* The numeric part of the type invariant, all that the arguments need. *)
NumbersOK ==
  /\ next \in Offsets /\ received \in Offsets /\ consumed \in Offsets
  /\ limit \in Nat
  /\ pending \in SUBSET Blocks
  /\ overrun \in BOOLEAN

(* Buffered blocks of a conforming peer end within the limit.  The limit     *)
(* only grows, so they are credited whenever they are released.              *)
PendingWithinLimit == ~overrun => \A b \in pending : End(b) <= limit

IInv ==
  /\ NumbersOK
  /\ BufferDisjoint
  /\ CreditSound
  /\ PendingWithinLimit
  /\ ConformingPeerInSync

LEMMA BlockType ==
  ASSUME NEW b \in Blocks
  PROVE  /\ b.off \in Nat /\ b.len \in Nat
         /\ End(b) \in Nat /\ End(b) = b.off + b.len
         /\ End(b) \in Offsets
BY StreamAssumption DEF Blocks, Block, Offsets, End

LEMMA InitIInv == Init => IInv
<1> SUFFICES ASSUME Init PROVE IInv
  OBVIOUS
<1>1. /\ next \in Offsets /\ received \in Offsets /\ consumed \in Offsets
      /\ limit \in Nat /\ CreditSound
  BY StreamAssumption DEF Init, CreditSound, Offsets
<1>2. overrun \in BOOLEAN /\ pending \in SUBSET Blocks
  BY Zenon DEF Init
<1>3. BufferDisjoint /\ PendingWithinLimit /\ ConformingPeerInSync
  BY DEF Init, BufferDisjoint, PendingWithinLimit, ConformingPeerInSync
<1> QED
  BY <1>1, <1>2, <1>3 DEF IInv, NumbersOK

(* Everything below the new next is covered, so what stays buffered starts   *)
(* beyond it.                                                                *)
LEMMA DrainLeavesGap ==
  ASSUME NumbersOK, NEW P \in SUBSET Blocks,
         \A b \in P : b.len > 0 /\ b.off >= next,
         NEW n \in Offsets,
         IsLast(n, {next} \cup {End(c) : c \in Contiguous(P)}),
         NEW c \in P \ Contiguous(P)
  PROVE  c.off > n
<1>1. next \in Nat /\ n \in Nat /\ n >= next
  BY StreamAssumption DEF NumbersOK, Offsets, IsLast
<1>2. ASSUME NEW i \in next .. (n - 1)
      PROVE  \E d \in P : d.off <= i /\ i < End(d)
  <2>1. PICK d \in Contiguous(P) : n = End(d)
    BY <1>1, <1>2 DEF IsLast
  <2>2. d \in P /\ d \in Blocks
    BY <2>1 DEF Contiguous
  <2>3. CASE i < d.off
    <3>1. i \in next .. (d.off - 1)
      BY <1>1, <1>2, <2>2, <2>3, BlockType
    <3> QED
      BY <2>1, <3>1 DEF Contiguous
  <2>4. CASE i >= d.off
    BY <1>1, <1>2, <2>1, <2>2, <2>4, BlockType
  <2> QED
    BY <1>1, <1>2, <2>2, <2>3, <2>4, BlockType
<1>3. SUFFICES ASSUME c.off <= n PROVE FALSE
  BY <1>1, BlockType
<1>4. \A i \in next .. (c.off - 1) : \E d \in P : d.off <= i /\ i < End(d)
  BY <1>1, <1>2, <1>3, BlockType
<1> QED
  BY <1>4 DEF Contiguous

LEMMA DeliverIInv ==
  ASSUME IInv, NEW f \in Feeders, NEW b \in Blocks, DeliverData(f, b)
  PROVE  IInv'
<1> DEFINE P   == pending \cup {b}
           out == Contiguous(P)
<1>1. /\ P \in SUBSET Blocks /\ out \in SUBSET P
      /\ next \in Nat /\ received \in Nat /\ consumed \in Nat /\ limit \in Nat
  BY StreamAssumption DEF IInv, NumbersOK, Contiguous, Offsets
<1>2. /\ pending' = P \ out
      /\ next' \in Offsets
      /\ IsLast(next', {next} \cup {End(c) : c \in out})
      /\ received' \in Offsets
      /\ IsLast(received', {received} \cup {End(c) : c \in Credited(out)})
      /\ overrun' = (overrun \/ End(b) > limit)
      /\ consumed' = consumed /\ limit' = limit
  BY DEF DeliverData
<1>3. b.len > 0 /\ b.off >= next /\ \A c \in pending : ~Overlap(b, c)
  BY BlockType, <1>1 DEF DeliverData, Retransmit, Conflicts
<1>4. \A c \in P : c.len > 0 /\ c.off >= next
  BY <1>1, <1>3, BlockType DEF IInv, BufferDisjoint
<1>5. NumbersOK'
  BY <1>1, <1>2 DEF IInv, NumbersOK
<1>6. BufferDisjoint'
  <2>1. ASSUME NEW c \in pending' PROVE c.len > 0 /\ c.off > next'
    <3>1. c \in P \ out
      BY <1>2
    <3> QED
      BY <3>1, <1>1, <1>2, <1>4, DrainLeavesGap, Zenon DEF IInv
  <2>2. ASSUME NEW c \in pending', NEW d \in pending', Overlap(c, d)
        PROVE  c = d
    <3>1. c \in P /\ d \in P
      BY <1>2
    <3>2. Overlap(d, c)
      BY <2>2 DEF Overlap
    <3> QED
      BY <1>3, <2>2, <3>1, <3>2 DEF IInv, BufferDisjoint
  <2> QED
    BY <2>1, <2>2 DEF BufferDisjoint, Overlap, End
<1>7. received' <= limit /\ received' <= next' /\ received' >= received
  <2>1. \A c \in Credited(out) : c \in out /\ End(c) <= limit
    BY SMTT(120) DEF Credited
  <2>2. next' >= next /\ \A c \in out : End(c) <= next'
    BY <1>2 DEF IsLast
  <2>3. received' = received \/ \E c \in Credited(out) : received' = End(c)
    BY <1>2 DEF IsLast
  <2>4. received <= next /\ received <= limit
    BY DEF IInv, CreditSound
  <2> QED
    BY <1>1, <1>2, <2>1, <2>2, <2>3, <2>4, StreamAssumption
       DEF IsLast, Offsets
<1>8. CreditSound'
  BY <1>1, <1>2, <1>7, StreamAssumption DEF IInv, CreditSound, Offsets
<1>9. ASSUME ~overrun'
      PROVE  (\A c \in P : End(c) <= limit) /\ received' = next'
  <2>1. ~overrun /\ End(b) <= limit
    <3>1. ~overrun /\ ~(End(b) > limit)
      BY <1>2, <1>9, Zenon
    <3> QED
      BY <1>1, <3>1, BlockType
  <2>2. \A c \in P : End(c) <= limit
    BY <2>1 DEF IInv, PendingWithinLimit
  <2>3. received = next
    BY <2>1 DEF IInv, ConformingPeerInSync
  <2>4. Credited(out) = out
    BY <2>2, <2>3, <1>1 DEF Credited
  <2>5. received' <= next' /\ next' <= received'
    BY <1>2, <2>3, <2>4 DEF IsLast
  <2> QED
    BY <1>2, <2>2, <2>5, StreamAssumption DEF Offsets
<1>10. PendingWithinLimit' /\ ConformingPeerInSync'
  BY <1>2, <1>9 DEF PendingWithinLimit, ConformingPeerInSync, End
<1> QED
  BY <1>5, <1>6, <1>8, <1>10 DEF IInv

LEMMA ConsumeIInv ==
  ASSUME IInv, NEW bytes \in 1 .. MaxLen, Consume(bytes)
  PROVE  IInv'
<1>1. /\ consumed' = consumed + bytes /\ consumed' <= received
      /\ consumed \in Nat /\ received \in Nat /\ bytes \in Nat
      /\ limit \in Nat /\ limit = consumed + FLOW_WINDOW
      /\ UNCHANGED <<next, pending, received, overrun>>
  BY StreamAssumption
     DEF Consume, IInv, NumbersOK, CreditSound, bufferVars, Offsets
<1>2. limit' = consumed' + FLOW_WINDOW /\ limit' >= limit /\ limit' \in Nat
  BY <1>1, StreamAssumption DEF Consume
<1>3. consumed' \in Offsets
  BY <1>1, StreamAssumption DEF IInv, NumbersOK, Offsets
<1>4. NumbersOK'
  BY <1>1, <1>2, <1>3 DEF IInv, NumbersOK
<1>5. CreditSound'
  BY <1>1, <1>2 DEF IInv, CreditSound
<1>6. PendingWithinLimit'
  BY <1>1, <1>2, BlockType DEF IInv, NumbersOK, PendingWithinLimit, End
<1> QED
  BY <1>1, <1>4, <1>5, <1>6
     DEF IInv, BufferDisjoint, ConformingPeerInSync, Overlap, End

(* Dropped blocks and emitted events leave the buffer and the account alone. *)
LEMMA OtherIInv ==
  ASSUME IInv, UNCHANGED <<bufferVars, creditVars>>,
         overrun' \in BOOLEAN, overrun => overrun'
  PROVE  IInv'
BY DEF IInv, NumbersOK, BufferDisjoint, CreditSound, PendingWithinLimit,
       ConformingPeerInSync, bufferVars, creditVars, Overlap, End

LEMMA NextIInv == IInv /\ [Next]_vars => IInv'
<1> SUFFICES ASSUME IInv, [Next]_vars PROVE IInv'
  OBVIOUS
<1>1. ASSUME NEW f \in Feeders, NEW b \in Blocks, DropData(f, b) PROVE IInv'
  BY <1>1, OtherIInv DEF DropData, IInv, NumbersOK
<1>2. ASSUME NEW f \in Feeders, EmitData(f) PROVE IInv'
  BY <1>2, OtherIInv DEF EmitData, IInv, NumbersOK
<1>3. CASE UNCHANGED vars
  BY <1>3, OtherIInv DEF vars, IInv, NumbersOK
<1> QED
  BY <1>1, <1>2, <1>3, DeliverIInv, ConsumeIInv DEF Next

LEMMA Invariance == Spec => []IInv
BY InitIInv, NextIInv, PTL DEF Spec

(* The credit account: consumed <= received <= limit = consumed + window, in *)
(* every reachable state of deliver_data and consume.                        *)
THEOREM CreditIsSound == Spec => []CreditSound
<1>1. IInv => CreditSound
  BY DEF IInv
<1> QED
  BY <1>1, Invariance, PTL

(* The reorder buffer holds disjoint blocks strictly beyond next: nothing    *)
(* deliverable is ever left behind and no byte is held twice.                *)
THEOREM BufferIsDisjoint == Spec => []BufferDisjoint
<1>1. IInv => BufferDisjoint
  BY DEF IInv
<1> QED
  BY <1>1, Invariance, PTL

(* A peer that respects the limit it was granted never puts the stream into  *)
(* the state in which every further block is refused.                        *)
THEOREM ConformingPeerStaysInSync == Spec => []ConformingPeerInSync
<1>1. IInv => ConformingPeerInSync
  BY DEF IInv
<1> QED
  BY <1>1, Invariance, PTL
=============================================================================
