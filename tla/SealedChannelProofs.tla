------------------------ MODULE SealedChannelProofs ------------------------
(***************************************************************************)
(* The two ends together: what the allocator and the replay window promise *)
(* separately makes every record of a session be dispatched at most once.  *)
(***************************************************************************)
EXTENDS SealedChannel, TLAPS

-----------------------------------------------------------------------------
(* The replay window: for every window size, jump limit and range of packet  *)
(* numbers it accepts each packet_no at most once, and inside the window its *)
(* bitmap is exact.                                                          *)

(* A multiple of w that lies strictly within w of zero is zero. *)
LEMMA SmallMultiple ==
  ASSUME NEW w \in Nat, w > 0, NEW k \in Int, w * k >= 0, w * k < w
  PROVE  k = 0
<1>1. CASE k >= 1
  <2>1. w * k >= w * 1
    BY <1>1
  <2> QED
    BY <2>1
<1>2. CASE k <= -1
  <2>1. w * k <= w * (-1)
    BY <1>2
  <2> QED
    BY <2>1
<1> QED
  BY <1>1, <1>2

(* Two numbers less than a window apart share a slot only when equal. *)
LEMMA LocateInjective ==
  ASSUME NEW a \in Int, NEW b \in Int, a <= b, b - a < REPLAY_WINDOW,
         Locate(a) = Locate(b)
  PROVE  a = b
<1> DEFINE W == REPLAY_WINDOW
           qa == a \div W
           qb == b \div W
<1>1. W \in Nat /\ W > 0
  BY WindowAssumption
<1>2. /\ qa \in Int /\ qb \in Int
      /\ a = (W * qa) + (a % W)
      /\ b = (W * qb) + (b % W)
      /\ a % W \in Int /\ b % W \in Int
  BY <1>1
<1>3. a % W = b % W
  BY DEF Locate
<1> HIDE DEF W, qa, qb
<1>4. b - a = (W * qb) - (W * qa)
  BY <1>1, <1>2, <1>3
<1>5. b - a = W * (qb - qa)
  BY <1>1, <1>2, <1>4
<1>6. qb - qa = 0
  <2>1. W * (qb - qa) >= 0 /\ W * (qb - qa) < W
    BY <1>5 DEF W
  <2> QED
    BY <2>1, <1>1, <1>2, SmallMultiple
<1> QED
  BY <1>1, <1>2, <1>5, <1>6

(* A slot is always inside the bitmap. *)
LEMMA LocateType ==
  ASSUME NEW a \in Int
  PROVE  Locate(a) \in Slots
BY WindowAssumption DEF Locate, Slots

-----------------------------------------------------------------------------
(* The inductive invariant: nothing above the mark was accepted, and inside  *)
(* the window the bitmap is exact.                                           *)
WindowIInv ==
  /\ WindowTypeOK
  /\ highest = None => seen = {}
  /\ \A pn \in PacketNos : deliveries[pn] > 0 => pn <= highest
  /\ AcceptedAtMostOnce
  /\ BitmapExact
  /\ DuplicateRefusalsAreTrue

LEMMA WindowInitIInv == WindowInit => WindowIInv
BY WindowAssumption
   DEF WindowInit, WindowIInv, WindowTypeOK, AcceptedAtMostOnce, BitmapExact, InWindow,
       DuplicateRefusalsAreTrue, PacketNos, None, Slots, Results

(* An accepted number was never accepted before: it lies above the mark, or  *)
(* its exact bit is clear.                                                   *)
LEMMA AcceptsOnlyFresh ==
  ASSUME WindowIInv, NEW pn \in PacketNos, First(pn) \/ Advance(pn) \/ FillGap(pn)
  PROVE  deliveries[pn] = 0
<1> deliveries[pn] \in Nat /\ pn \in Nat /\ highest \in Int
  BY WindowAssumption DEF WindowIInv, WindowTypeOK, PacketNos, None
<1>1. CASE First(pn)
  BY <1>1, WindowAssumption DEF First, WindowIInv, None, PacketNos
<1>2. CASE Advance(pn)
  BY <1>2 DEF Advance, WindowIInv
<1>3. CASE FillGap(pn)
  BY <1>3 DEF FillGap, WindowIInv, BitmapExact, InWindow
<1> QED
  BY <1>1, <1>2, <1>3

(* What the count of accepted packets is after an accepting step. *)
LEMMA AcceptCounts ==
  ASSUME WindowTypeOK, NEW pn \in PacketNos, Accept(pn), deliveries[pn] = 0
  PROVE  /\ deliveries' \in [PacketNos -> Nat]
         /\ deliveries'[pn] = 1
         /\ \A p \in PacketNos \ {pn} : deliveries'[p] = deliveries[p]
         /\ last' \in [pn : PacketNos \cup {None}, result : Results]
         /\ last'.result = "ok"
BY DEF Accept, WindowTypeOK, Results

LEMMA FirstIInv ==
  ASSUME WindowIInv, NEW pn \in PacketNos, First(pn)
  PROVE  WindowIInv'
<1>0. deliveries[pn] = 0 /\ WindowTypeOK /\ Accept(pn)
  BY AcceptsOnlyFresh DEF WindowIInv, First
<1>1. /\ deliveries' \in [PacketNos -> Nat]
      /\ deliveries'[pn] = 1
      /\ \A p \in PacketNos \ {pn} : deliveries'[p] = deliveries[p]
      /\ last' \in [pn : PacketNos \cup {None}, result : Results]
      /\ last'.result = "ok"
  BY <1>0, AcceptCounts
<1>2. \A p \in PacketNos : p \in Int /\ p >= 0
  BY WindowAssumption DEF PacketNos
<1>3. \A p \in PacketNos : deliveries[p] = 0
  BY <1>0, <1>2 DEF First, WindowIInv, WindowTypeOK, None
<1>4. WindowTypeOK'
  BY <1>0, <1>1, <1>2, LocateType DEF First, WindowTypeOK
<1>5. BitmapExact'
  <2> SUFFICES ASSUME NEW p \in PacketNos, InWindow(p)'
               PROVE  Locate(p) \in seen' <=> deliveries'[p] > 0
    BY DEF BitmapExact, Locate
  <2>1. p <= pn /\ pn - p < REPLAY_WINDOW /\ seen' = {Locate(pn)}
    BY DEF InWindow, First, WindowIInv
  <2>2. Locate(p) = Locate(pn) => p = pn
    BY <2>1, <1>2, LocateInjective
  <2> QED
    BY <2>1, <2>2, <1>1, <1>3
<1>6. AcceptedAtMostOnce' /\ DuplicateRefusalsAreTrue'
  BY <1>1, <1>3 DEF AcceptedAtMostOnce, DuplicateRefusalsAreTrue
<1>7. \A p \in PacketNos : deliveries'[p] > 0 => p <= highest'
  BY <1>1, <1>2, <1>3 DEF First
<1> QED
  BY <1>2, <1>4, <1>5, <1>6, <1>7 DEF WindowIInv, First, None

LEMMA AdvanceIInv ==
  ASSUME WindowIInv, NEW pn \in PacketNos, Advance(pn)
  PROVE  WindowIInv'
<1>0. deliveries[pn] = 0 /\ WindowTypeOK /\ Accept(pn)
  BY AcceptsOnlyFresh DEF WindowIInv, Advance
<1>1. /\ deliveries' \in [PacketNos -> Nat]
      /\ deliveries'[pn] = 1
      /\ \A p \in PacketNos \ {pn} : deliveries'[p] = deliveries[p]
      /\ last' \in [pn : PacketNos \cup {None}, result : Results]
      /\ last'.result = "ok"
  BY <1>0, AcceptCounts
<1>2. /\ \A p \in PacketNos : p \in Int /\ p >= 0 /\ deliveries[p] \in Nat
      /\ highest \in Int /\ highest >= 0 /\ pn > highest
      /\ highest' = pn
  BY <1>0, WindowAssumption DEF PacketNos, Advance, WindowTypeOK, None
<1>3. WindowTypeOK'
  BY <1>0, <1>1, <1>2, LocateType DEF Advance, WindowTypeOK
<1>4. \A p \in PacketNos : deliveries'[p] > 0 => p <= highest'
  BY <1>1, <1>2 DEF WindowIInv
<1>5. BitmapExact'
  <2> SUFFICES ASSUME NEW p \in PacketNos, InWindow(p)', p # pn
               PROVE  Locate(p) \in seen' <=> deliveries[p] > 0
    <3>1. Locate(pn) \in seen'
      BY DEF Advance
    <3> QED
      BY <3>1, <1>1 DEF BitmapExact, Locate
  <2>1. p < pn /\ pn - p < REPLAY_WINDOW
    BY <1>2 DEF InWindow
  <2>2. Locate(p) # Locate(pn)
    BY <2>1, <1>2, LocateInjective
  <2>3. Locate(p) \in seen' <=> Locate(p) \in seen \ Cleared(highest, pn)
    BY <2>2 DEF Advance
  <2>4. CASE p > highest
    \* p was never accepted, and its slot is one of those cleared.
    <3>1. ~(deliveries[p] > 0)
      BY <2>4, <1>2 DEF WindowIInv
    <3>2. Locate(p) \in Cleared(highest, pn)
      BY <2>1, <2>4, <1>2, LocateType DEF Cleared
    <3> QED
      BY <2>3, <3>1, <3>2
  <2>5. CASE p <= highest
    \* p stays in the window, so no number of the jump shares its slot.
    <3>1. InWindow(p) /\ pn - highest < REPLAY_WINDOW
      BY <2>1, <2>5, <1>2, WindowAssumption DEF InWindow, Advance
    <3>2. ASSUME NEW n \in (highest + 1) .. pn
          PROVE  Locate(n) # Locate(p)
      BY <3>2, <2>1, <2>5, <1>2, WindowAssumption, LocateInjective
    <3>3. Locate(p) \notin Cleared(highest, pn)
      BY <3>1, <3>2, <1>2, WindowAssumption DEF Cleared
    <3>4. Locate(p) \in seen <=> deliveries[p] > 0
      BY <3>1 DEF WindowIInv, BitmapExact
    <3> QED
      BY <2>3, <3>3, <3>4
  <2> QED
    BY <2>4, <2>5, <1>2
<1>6. AcceptedAtMostOnce' /\ DuplicateRefusalsAreTrue'
  BY <1>1 DEF WindowIInv, AcceptedAtMostOnce, DuplicateRefusalsAreTrue
<1> QED
  BY <1>2, <1>3, <1>4, <1>5, <1>6 DEF WindowIInv, None

LEMMA FillGapIInv ==
  ASSUME WindowIInv, NEW pn \in PacketNos, FillGap(pn)
  PROVE  WindowIInv'
<1>0. deliveries[pn] = 0 /\ WindowTypeOK /\ Accept(pn)
  BY AcceptsOnlyFresh DEF WindowIInv, FillGap
<1>1. /\ deliveries' \in [PacketNos -> Nat]
      /\ deliveries'[pn] = 1
      /\ \A p \in PacketNos \ {pn} : deliveries'[p] = deliveries[p]
      /\ last' \in [pn : PacketNos \cup {None}, result : Results]
      /\ last'.result = "ok"
  BY <1>0, AcceptCounts
<1>2. /\ \A p \in PacketNos : p \in Int /\ p >= 0 /\ deliveries[p] \in Nat
      /\ highest \in Int /\ highest' = highest /\ highest # None
  BY <1>0, WindowAssumption DEF PacketNos, FillGap, WindowTypeOK, None
<1>3. WindowTypeOK'
  BY <1>0, <1>1, <1>2, LocateType DEF FillGap, WindowTypeOK
<1>4. BitmapExact'
  <2> SUFFICES ASSUME NEW p \in PacketNos, InWindow(p)', p # pn
               PROVE  Locate(p) \in seen' <=> deliveries[p] > 0
    <3>1. Locate(pn) \in seen'
      BY DEF FillGap
    <3> QED
      BY <3>1, <1>1 DEF BitmapExact, Locate
  <2>1. InWindow(p) /\ InWindow(pn)
    BY <1>2 DEF InWindow, FillGap
  <2>2. p - pn < REPLAY_WINDOW /\ pn - p < REPLAY_WINDOW
    BY <2>1, <1>2, WindowAssumption DEF InWindow
  <2>3. CASE p <= pn
    BY <2>1, <2>2, <2>3, <1>2, LocateInjective
       DEF FillGap, WindowIInv, BitmapExact
  <2>4. CASE pn <= p
    BY <2>1, <2>2, <2>4, <1>2, LocateInjective
       DEF FillGap, WindowIInv, BitmapExact
  <2> QED
    BY <2>3, <2>4, <1>2
<1>5. AcceptedAtMostOnce' /\ DuplicateRefusalsAreTrue'
  BY <1>1 DEF WindowIInv, AcceptedAtMostOnce, DuplicateRefusalsAreTrue
<1>6. \A p \in PacketNos : deliveries'[p] > 0 => p <= highest'
  BY <1>1, <1>2 DEF WindowIInv, FillGap
<1> QED
  BY <1>2, <1>3, <1>4, <1>5, <1>6 DEF WindowIInv

(* A refusal only reports: the bitmap, the mark and the counts stay. *)
LEMMA RefuseIInv ==
  ASSUME WindowIInv, NEW pn \in PacketNos,
         TooFarAhead(pn) \/ TooOld(pn) \/ Duplicate(pn)
  PROVE  WindowIInv'
<1>1. PICK r \in Results : Refuse(pn, r) /\ (r = "duplicate" => Duplicate(pn))
  BY DEF TooFarAhead, TooOld, Duplicate, Results
<1>2. WindowTypeOK'
  BY <1>1 DEF WindowIInv, WindowTypeOK, Refuse
<1>3. BitmapExact' /\ AcceptedAtMostOnce'
  BY <1>1 DEF WindowIInv, BitmapExact, AcceptedAtMostOnce, InWindow, Refuse, Locate
<1>4. DuplicateRefusalsAreTrue'
  <2> SUFFICES ASSUME r = "duplicate" PROVE deliveries[pn] > 0
    BY <1>1 DEF DuplicateRefusalsAreTrue, Refuse
  <2> QED
    BY <1>1 DEF Duplicate, WindowIInv, BitmapExact, InWindow
<1> QED
  BY <1>1, <1>2, <1>3, <1>4 DEF WindowIInv, Refuse

LEMMA WindowNextIInv == WindowIInv /\ [WindowNext]_windowVars => WindowIInv'
<1> SUFFICES ASSUME WindowIInv, [WindowNext]_windowVars PROVE WindowIInv'
  OBVIOUS
<1>1. ASSUME NEW pn \in PacketNos,
             \/ First(pn) \/ Advance(pn) \/ FillGap(pn)
             \/ TooFarAhead(pn) \/ TooOld(pn) \/ Duplicate(pn)
      PROVE  WindowIInv'
  BY <1>1, FirstIInv, AdvanceIInv, FillGapIInv, RefuseIInv
<1>2. CASE UNCHANGED windowVars
  BY <1>2 DEF windowVars, WindowIInv, WindowTypeOK, BitmapExact, AcceptedAtMostOnce, InWindow,
             DuplicateRefusalsAreTrue, Locate
<1> QED
  BY <1>1, <1>2 DEF WindowNext, CheckAndRecord

(* The replay filter's invariant holds in every reachable state. *)
THEOREM ReplayInvariant == WindowSpec => []WindowIInv
BY WindowInitIInv, WindowNextIInv, PTL DEF WindowSpec

(* check_and_record keeps its state well typed. *)
THEOREM ReplayTypeCorrect == WindowSpec => []WindowTypeOK
<1>1. WindowIInv => WindowTypeOK
  BY DEF WindowIInv
<1> QED
  BY <1>1, ReplayInvariant, PTL

(* check_and_record never accepts a packet_no twice, whatever the window     *)
(* size: recycling a slot cannot resurrect an old packet.                    *)
THEOREM ReplayAtMostOnce == WindowSpec => []AcceptedAtMostOnce
<1>1. WindowIInv => AcceptedAtMostOnce
  BY DEF WindowIInv
<1> QED
  BY <1>1, ReplayInvariant, PTL

(* Inside the window a bit is set exactly for an accepted packet_no, and so  *)
(* no packet is refused for a bit that another number left behind.           *)
THEOREM ReplayBitmapExact == WindowSpec => [](BitmapExact /\ DuplicateRefusalsAreTrue)
<1>1. WindowIInv => BitmapExact /\ DuplicateRefusalsAreTrue
  BY DEF WindowIInv
<1> QED
  BY <1>1, ReplayInvariant, PTL

-----------------------------------------------------------------------------
(* The allocator: for any number of tasks and any ceiling it never returns a *)
(* packet_no twice, never one above the ceiling, and stays exhausted.        *)

(* Every issued value lies below the counter.  That is what a swap relies    *)
(* on: it succeeds only if the counter still equals the value it read, so    *)
(* what it returns is at or above the counter and cannot have been issued.   *)
AllocatorIInv ==
  /\ AllocatorTypeOK
  /\ NeverIssuedTwice
  /\ \A n \in Word : issued[n] > 0 => n < next /\ n <= PACKET_NO_CEILING

LEMMA ZeroIsIssuable == 0 \in Word /\ 0 \in Issuable
BY AllocatorAssumption DEF Word, Issuable

LEMMA AllocatorInitIInv == AllocatorInit => AllocatorIInv
BY AllocatorAssumption
   DEF AllocatorInit, AllocatorIInv, AllocatorTypeOK, NeverIssuedTwice, Word, Issuable

(* Issuing a value at or above the counter, and moving the counter past it,  *)
(* keeps the invariant.                                                      *)
LEMMA IssueFresh ==
  ASSUME AllocatorIInv, NEW t \in Threads, NEW n \in Issuable, n >= next,
         next' = n + 1, Issue(n), Return(t)
  PROVE  AllocatorIInv'
<1>1. /\ n \in Word /\ n + 1 \in Word /\ next \in Nat
      /\ \A m \in Word : m \in Nat /\ issued[m] \in Nat
  BY AllocatorAssumption DEF Word, Issuable, AllocatorIInv, AllocatorTypeOK
<1>2. issued[n] = 0
  BY <1>1 DEF AllocatorIInv
<1>3. /\ issued' \in [Word -> Nat]
      /\ issued'[n] = 1
      /\ \A m \in Word \ {n} : issued'[m] = issued[m]
  BY <1>1, <1>2 DEF Issue, AllocatorIInv, AllocatorTypeOK
<1>4. AllocatorTypeOK'
  BY <1>1, <1>3, ZeroIsIssuable DEF AllocatorIInv, AllocatorTypeOK, Return
<1>5. NeverIssuedTwice'
  BY <1>3 DEF AllocatorIInv, NeverIssuedTwice
<1>6. ASSUME NEW m \in Word, issued'[m] > 0
      PROVE  m < next' /\ m <= PACKET_NO_CEILING
  BY <1>1, <1>3, <1>6 DEF AllocatorIInv, Issuable
<1> QED
  BY <1>4, <1>5, <1>6 DEF AllocatorIInv

LEMMA AllocatorNextIInv == AllocatorIInv /\ [AllocatorNext]_allocatorVars => AllocatorIInv'
<1> SUFFICES ASSUME AllocatorIInv, [AllocatorNext]_allocatorVars PROVE AllocatorIInv'
  OBVIOUS
<1> USE DEF AllocatorIInv
<1>1. ASSUME NEW t \in Threads, AllocateCall(t) PROVE AllocatorIInv'
  BY <1>1 DEF AllocateCall, Load, AllocatorTypeOK, NeverIssuedTwice
<1>2. ASSUME NEW t \in Threads, NEW v \in Issuable, ReserveCall(t, v)
      PROVE  AllocatorIInv'
  BY <1>2 DEF ReserveCall, Load, AllocatorTypeOK, NeverIssuedTwice
<1>3. ASSUME NEW t \in Threads, AllocateExhausted(t) PROVE AllocatorIInv'
  <2>1. next' \in Word /\ next' >= next
    BY <1>3, AllocatorAssumption DEF AllocateExhausted, AllocatorTypeOK, Word
  <2>2. AllocatorTypeOK'
    BY <1>3, <2>1, ZeroIsIssuable DEF AllocateExhausted, Return, AllocatorTypeOK
  <2>3. \A n \in Word : issued[n] > 0 => n < next'
    BY <2>1, AllocatorAssumption DEF AllocatorTypeOK, Word
  <2> QED
    BY <1>3, <2>2, <2>3 DEF AllocateExhausted, NeverIssuedTwice
<1>4. ASSUME NEW t \in Threads, AllocateSwap(t) PROVE AllocatorIInv'
  <2>1. current[t] \in Issuable /\ current[t] >= next
    BY <1>4, AllocatorAssumption
       DEF AllocateSwap, Spent, AllocatorTypeOK, Word, Issuable
  <2> QED
    BY <1>4, <2>1, IssueFresh DEF AllocateSwap
<1>5. ASSUME NEW t \in Threads, ReserveSwap(t) PROVE AllocatorIInv'
  <2>1. value[t] \in Issuable /\ value[t] >= next
    BY <1>5 DEF ReserveSwap, AllocatorTypeOK
  <2> QED
    BY <1>5, <2>1, IssueFresh DEF ReserveSwap
<1>6. ASSUME NEW t \in Threads, AllocateRetry(t) \/ ReserveRetry(t)
      PROVE  AllocatorIInv'
  BY <1>6 DEF AllocateRetry, ReserveRetry, Load, AllocatorTypeOK, NeverIssuedTwice
<1>7. ASSUME NEW t \in Threads, ReserveRefused(t) PROVE AllocatorIInv'
  BY <1>7, ZeroIsIssuable DEF ReserveRefused, Return, AllocatorTypeOK, NeverIssuedTwice
<1>8. CASE UNCHANGED allocatorVars
  BY <1>8 DEF allocatorVars, AllocatorTypeOK, NeverIssuedTwice
<1> QED
  BY <1>1, <1>2, <1>3, <1>4, <1>5, <1>6, <1>7, <1>8 DEF AllocatorNext, AllocatorStep

LEMMA AllocatorInvariance == AllocatorSpec => []AllocatorIInv
BY AllocatorInitIInv, AllocatorNextIInv, PTL DEF AllocatorSpec

(* Neither allocate nor reserve_exact returns a value that either of them    *)
(* returned before, to any task.                                             *)
THEOREM PacketNoUnique == AllocatorSpec => []NeverIssuedTwice
<1>1. AllocatorIInv => NeverIssuedTwice
  BY DEF AllocatorIInv
<1> QED
  BY <1>1, AllocatorInvariance, PTL

(* The allocator never hands out a value above PACKET_NO_CEILING, and its    *)
(* state stays well typed: current + 1 and value + 1 never overflow.         *)
THEOREM PacketNoBounded == AllocatorSpec => [](CeilingRespected /\ AllocatorTypeOK)
<1>1. AllocatorIInv => CeilingRespected /\ AllocatorTypeOK
  BY DEF AllocatorIInv, CeilingRespected
<1> QED
  BY <1>1, AllocatorInvariance, PTL

(* Once the counter is past the ceiling no step issues a value or brings the *)
(* counter back.                                                             *)
THEOREM PacketNoExhaustion == AllocatorSpec => ExhaustionIsTerminal
<1>1. AllocatorIInv /\ [AllocatorNext]_allocatorVars
        => [Spent(next) => Spent(next') /\ issued' = issued]_allocatorVars
  <2> SUFFICES ASSUME AllocatorIInv, AllocatorNext, Spent(next)
               PROVE  Spent(next') /\ issued' = issued
    BY DEF allocatorVars, Spent
  <2>1. PICK t \in Threads :
          \/ AllocateCall(t) \/ (\E v \in Issuable : ReserveCall(t, v))
          \/ AllocatorStep(t)
    BY DEF AllocatorNext
  <2>2. CASE AllocateSwap(t)
    BY <2>2 DEF AllocateSwap, Spent
  <2>3. CASE ReserveSwap(t)
    <3>1. value[t] <= PACKET_NO_CEILING /\ next <= value[t] /\ next # EXHAUSTED
      BY <2>3, AllocatorAssumption DEF ReserveSwap, AllocatorIInv, AllocatorTypeOK, Issuable
    <3>2. next \in Int /\ value[t] \in Int
      BY AllocatorAssumption DEF AllocatorIInv, AllocatorTypeOK, Word, Issuable
    <3> QED
      BY <3>1, <3>2, AllocatorAssumption DEF Spent
  <2>4. CASE AllocateExhausted(t)
    BY <2>4 DEF AllocateExhausted, Spent
  <2>5. CASE next' = next /\ issued' = issued
    BY <2>5
  <2> QED
    BY <2>1, <2>2, <2>3, <2>4, <2>5
       DEF AllocatorStep, AllocateCall, ReserveCall, AllocateRetry, ReserveRetry,
           ReserveRefused
<1> QED
  BY <1>1, AllocatorInvariance, PTL DEF AllocatorSpec, ExhaustionIsTerminal

-----------------------------------------------------------------------------
(* The channel. *)

(* A step of the channel is a step of the allocator, or leaves it alone, and *)
(* likewise of the window.                                                   *)
LEMMA StepRefinesParts ==
  [Next]_vars => [AllocatorNext]_allocatorVars /\ [WindowNext]_windowVars
<1> SUFFICES ASSUME [Next]_vars
             PROVE  [AllocatorNext]_allocatorVars /\ [WindowNext]_windowVars
  OBVIOUS
<1> USE DEF AllocatorNext, AllocatorStep
<1>1. ASSUME NEW t \in Threads,
             SendAllocates(t) \/ SendTakesNumber(t) \/ SendFails(t) \/ SendRetries(t)
      PROVE  AllocatorNext /\ UNCHANGED windowVars
  BY <1>1 DEF SendAllocates, SendTakesNumber, SendFails, SendRetries
<1>2. ASSUME NEW t \in Threads, Reserves(t)
      PROVE  AllocatorNext /\ UNCHANGED windowVars
  BY <1>2 DEF Reserves
<1>3. ASSUME NEW t \in Threads, SendQueues(t)
      PROVE  UNCHANGED allocatorVars /\ UNCHANGED windowVars
  BY <1>3 DEF SendQueues
<1>4. ASSUME NEW pn \in Issuable, Feed(pn)
      PROVE  UNCHANGED allocatorVars /\ WindowNext
  <2>1. pn \in PacketNos
    BY AllocatorAssumption, WindowAssumption, ChannelAssumption
       DEF Issuable, PacketNos
  <2> QED
    BY <1>4, <2>1 DEF Feed, WindowNext
<1>5. CASE UNCHANGED vars
  BY <1>5 DEF vars
<1> HIDE DEF AllocatorNext, AllocatorStep
<1> QED
  BY <1>1, <1>2, <1>3, <1>4, <1>5 DEF Next

-----------------------------------------------------------------------------
(* The invariants of the two parts, and what ties them together: a number on *)
(* its way was issued, and a number that was accepted had been on its way.   *)
IInv ==
  /\ TypeOK
  /\ AllocatorIInv
  /\ WindowIInv
  /\ \A t \in Threads : sealing[t] # None => issued[sealing[t]] > 0
  /\ \A n \in outbound : issued[n] > 0
  /\ \A n \in Issuable : deliveries[n] > 0 => n \in outbound

LEMMA InitIInv == Init => IInv
<1> SUFFICES ASSUME Init PROVE IInv
  OBVIOUS
<1>1. AllocatorIInv /\ WindowIInv
  BY AllocatorInitIInv, WindowInitIInv DEF Init
<1>2. \A n \in Issuable : n \in PacketNos
  BY AllocatorAssumption, WindowAssumption, ChannelAssumption
     DEF Issuable, PacketNos
<1> QED
  BY <1>1, <1>2 DEF Init, IInv, TypeOK, AllocatorIInv, WindowIInv, WindowInit

(* issued never decreases. *)
LEMMA IssuedGrows ==
  ASSUME AllocatorTypeOK, [AllocatorNext]_allocatorVars
  PROVE  \A n \in Word : issued[n] > 0 => issued'[n] > 0
<1>1. \A n \in Word : issued[n] \in Nat
  BY DEF AllocatorTypeOK
<1>2. ASSUME NEW m \in Word, Issue(m)
      PROVE  \A n \in Word : issued[n] > 0 => issued'[n] > 0
  BY <1>1, <1>2 DEF Issue, AllocatorTypeOK
<1>3. CASE issued' = issued
  BY <1>3
<1>4. \A t \in Threads : current[t] \in Word /\ value[t] \in Word
  BY AllocatorAssumption DEF AllocatorTypeOK, Word, Issuable
<1> QED
  BY <1>2, <1>3, <1>4
     DEF AllocatorNext, AllocatorStep, AllocateCall, AllocateExhausted,
         AllocateSwap, AllocateRetry, ReserveCall, ReserveRefused,
         ReserveSwap, ReserveRetry, allocatorVars

LEMMA NextIInv == IInv /\ [Next]_vars => IInv'
<1> SUFFICES ASSUME IInv, [Next]_vars PROVE IInv'
  OBVIOUS
<1>1. AllocatorIInv' /\ WindowIInv'
  BY StepRefinesParts, AllocatorNextIInv, WindowNextIInv DEF IInv
<1>2. \A n \in Word : issued[n] > 0 => issued'[n] > 0
  BY StepRefinesParts, IssuedGrows DEF IInv, TypeOK
<1>3. /\ Issuable \subseteq Word /\ Issuable \subseteq PacketNos
      /\ None \notin Issuable
      /\ \A n \in Issuable : deliveries[n] \in Nat
  BY AllocatorAssumption, WindowAssumption, ChannelAssumption
     DEF Issuable, Word, PacketNos, None, IInv, TypeOK, WindowTypeOK
<1>4. AllocatorTypeOK' /\ WindowTypeOK'
  BY <1>1 DEF AllocatorIInv, WindowIInv
<1> DEFINE Rest == /\ sealing' \in [Threads -> Issuable \cup {None}]
                   /\ outbound' \subseteq Issuable
                   /\ \A t \in Threads : sealing'[t] # None => issued'[sealing'[t]] > 0
                   /\ \A n \in outbound' : issued'[n] > 0
                   /\ \A n \in Issuable : deliveries'[n] > 0 => n \in outbound'
<1>5. ASSUME deliveries' = deliveries, UNCHANGED <<sealing, outbound>>
      PROVE  Rest
  BY <1>2, <1>3, <1>5 DEF IInv, TypeOK
<1>6. ASSUME NEW t \in Threads, SendTakesNumber(t)
      PROVE  Rest
  <2>1. current[t] \in Issuable
    BY <1>6, AllocatorAssumption
       DEF SendTakesNumber, AllocateSwap, Spent, IInv, TypeOK, AllocatorTypeOK,
           Word, Issuable
  <2>2. issued'[current[t]] > 0
    BY <1>3, <1>6, <2>1
       DEF SendTakesNumber, AllocateSwap, Issue, IInv, TypeOK, AllocatorTypeOK
  <2>3. deliveries' = deliveries /\ outbound' = outbound
    BY <1>6 DEF SendTakesNumber, windowVars
  <2>4. sealing' = [sealing EXCEPT ![t] = current[t]]
    BY <1>6 DEF SendTakesNumber
  <2> QED
    BY <1>2, <1>3, <2>1, <2>2, <2>3, <2>4 DEF IInv, TypeOK
<1>7. ASSUME NEW t \in Threads, SendQueues(t)
      PROVE  Rest
  <2>1. sealing[t] \in Issuable /\ issued[sealing[t]] > 0
    BY <1>7 DEF SendQueues, IInv, TypeOK
  <2>2. deliveries' = deliveries /\ issued' = issued
    BY <1>7 DEF SendQueues, windowVars, allocatorVars
  <2> QED
    BY <1>3, <1>7, <2>1, <2>2 DEF SendQueues, IInv, TypeOK
<1>8. ASSUME NEW pn \in Issuable, Feed(pn)
      PROVE  Rest
  <2>1. \A n \in Issuable \ {pn} : deliveries'[n] = deliveries[n]
    BY <1>3, <1>8
       DEF Feed, CheckAndRecord, First, Advance, FillGap, TooFarAhead, TooOld,
           Duplicate, Accept, Refuse, IInv, TypeOK, WindowTypeOK
  <2>2. pn \in outbound /\ UNCHANGED <<issued, sealing, outbound>>
    BY <1>8 DEF Feed, allocatorVars
  <2> QED
    BY <1>3, <2>1, <2>2 DEF IInv, TypeOK
<1>9. Rest
  BY <1>5, <1>6, <1>7, <1>8
     DEF Next, vars, windowVars, SendAllocates, SendFails, SendRetries, Reserves
<1> QED
  BY <1>1, <1>4, <1>9 DEF IInv, TypeOK

LEMMA Invariance == Spec => []IInv
BY InitIInv, NextIInv, PTL DEF Spec

(* For any number of sending tasks, any window and any behaviour of the      *)
(* carriers: feed dispatches every record that send sealed at most once.     *)
THEOREM ChannelAtMostOnce == Spec => []DispatchedAtMostOnce
<1>1. IInv => DispatchedAtMostOnce
  <2> SUFFICES ASSUME IInv, NEW n \in Issuable
               PROVE  deliveries[n] <= issued[n] /\ issued[n] <= 1
    BY DEF DispatchedAtMostOnce
  <2>1. /\ n \in Word /\ n \in PacketNos
        /\ deliveries[n] \in Nat /\ issued[n] \in Nat
    BY AllocatorAssumption, WindowAssumption, ChannelAssumption
       DEF Issuable, Word, PacketNos, IInv, TypeOK, WindowTypeOK, AllocatorTypeOK
  <2>2. issued[n] <= 1 /\ deliveries[n] <= 1
    BY <2>1 DEF IInv, AllocatorIInv, WindowIInv, NeverIssuedTwice,
                AcceptedAtMostOnce
  <2> QED
    BY <2>1, <2>2 DEF IInv
<1> QED
  BY <1>1, Invariance, PTL

(* The channel keeps its types, its bitmap is exact and no number above the  *)
(* ceiling is sealed.                                                        *)
THEOREM ChannelInvariants ==
  Spec => [](TypeOK /\ CeilingRespected /\ BitmapExact /\ DuplicateRefusalsAreTrue)
<1>1. IInv => TypeOK /\ CeilingRespected /\ BitmapExact /\ DuplicateRefusalsAreTrue
  BY DEF IInv, AllocatorIInv, WindowIInv, CeilingRespected
<1> QED
  BY <1>1, Invariance, PTL
=============================================================================
