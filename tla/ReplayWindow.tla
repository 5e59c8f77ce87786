---------------------------- MODULE ReplayWindow ----------------------------
(***************************************************************************)
(* The per-direction transport replay filter of wsnet-auth-store.          *)
(*                                                                         *)
(* A window is a high-water mark and a fixed bitmap with one slot per      *)
(* packet number modulo REPLAY_WINDOW.  `seen' is the set of slots whose   *)
(* bit is 1.  check_and_record runs under a mutex (engine.rs, recv_window) *)
(* and is one atomic step; each of its outcomes is an action.              *)
(***************************************************************************)
EXTENDS Integers

CONSTANTS REPLAY_WINDOW,            \* slots of the bitmap
          REPLAY_MAX_FORWARD_JUMP,  \* largest accepted jump of the mark
          MaxPacketNo               \* bound: the largest packet_no that occurs

ASSUME WindowAssumption ==
  /\ REPLAY_WINDOW \in Nat \ {0}
  /\ REPLAY_MAX_FORWARD_JUMP \in Nat
  /\ MaxPacketNo \in Nat

VARIABLES highest,     \* the high-water mark, None before the first packet
          seen,        \* slots whose bit is set
          deliveries,  \* how often each packet_no was accepted (history)
          last         \* the last call's result, and the packet_no it refused

windowVars == <<highest, seen, deliveries, last>>

None      == -1
PacketNos == 0 .. MaxPacketNo
Slots     == 0 .. (REPLAY_WINDOW - 1)
Results   == {"ok", "duplicate", "too_old", "too_far_ahead"}

WindowTypeOK ==
  /\ highest \in PacketNos \cup {None}
  /\ seen \in SUBSET Slots
  /\ deliveries \in [PacketNos -> Nat]
  /\ last \in [pn : PacketNos \cup {None}, result : Results]

WindowInit ==
  /\ highest = None
  /\ seen = {}
  /\ deliveries = [pn \in PacketNos |-> 0]
  /\ last = [pn |-> None, result |-> "ok"]

Locate(pn) == pn % REPLAY_WINDOW

\* Mutant: the first number of the jump keeps its stale bit.
Cleared_OnePacketShort(from, to) == {Locate(n) : n \in (from + 2) .. to}

(* The slots that (from, to] takes over from numbers leaving the window. *)
Cleared(from, to) ==
  IF to - from >= REPLAY_WINDOW
    THEN Slots
    ELSE {Locate(n) : n \in (from + 1) .. to}

Accept(pn) ==
  /\ deliveries' = [deliveries EXCEPT ![pn] = @ + 1]
  /\ last' = [pn |-> None, result |-> "ok"]

Refuse(pn, result) ==
  /\ last' = [pn |-> pn, result |-> result]
  /\ UNCHANGED <<highest, seen, deliveries>>

First(pn) ==
  /\ highest = None
  /\ highest' = pn
  /\ seen' = seen \cup {Locate(pn)}
  /\ Accept(pn)

Advance(pn) ==
  /\ highest # None
  /\ pn > highest
  /\ pn - highest <= REPLAY_MAX_FORWARD_JUMP
  /\ highest' = pn
  /\ seen' = (seen \ Cleared(highest, pn)) \cup {Locate(pn)}
  /\ Accept(pn)

TooFarAhead(pn) ==
  /\ highest # None
  /\ pn > highest
  /\ pn - highest > REPLAY_MAX_FORWARD_JUMP
  /\ Refuse(pn, "too_far_ahead")

TooOld(pn) ==
  /\ highest # None
  /\ pn <= highest
  /\ highest - pn >= REPLAY_WINDOW
  /\ Refuse(pn, "too_old")

Duplicate(pn) ==
  /\ highest # None
  /\ pn <= highest
  /\ highest - pn < REPLAY_WINDOW
  /\ Locate(pn) \in seen
  /\ Refuse(pn, "duplicate")

FillGap(pn) ==
  /\ highest # None
  /\ pn <= highest
  /\ highest - pn < REPLAY_WINDOW
  /\ Locate(pn) \notin seen
  /\ seen' = seen \cup {Locate(pn)}
  /\ Accept(pn)
  /\ UNCHANGED highest

(* The whole of check_and_record. *)
CheckAndRecord(pn) ==
  \/ First(pn)
  \/ Advance(pn)
  \/ TooFarAhead(pn)
  \/ TooOld(pn)
  \/ Duplicate(pn)
  \/ FillGap(pn)

WindowNext == \E pn \in PacketNos : CheckAndRecord(pn)

WindowSpec == WindowInit /\ [][WindowNext]_windowVars

-----------------------------------------------------------------------------
(* The numbers the filter can still judge. *)
InWindow(pn) ==
  /\ highest # None
  /\ pn <= highest
  /\ highest - pn < REPLAY_WINDOW

(* No packet_no is accepted twice, although slots are recycled: replay.rs    *)
(* promises that an old packet is never re-accepted because its slot was     *)
(* recycled.                                                                 *)
AcceptedAtMostOnce == \A pn \in PacketNos : deliveries[pn] <= 1

(* Inside the window a bit is set exactly when its number was accepted, so   *)
(* no stale bit of a number that left the window refuses a fresh packet.     *)
BitmapExact ==
  \A pn \in PacketNos :
    InWindow(pn) => (Locate(pn) \in seen <=> deliveries[pn] > 0)

(* A refusal as a duplicate is always right: the packet it names was         *)
(* accepted before (check_and_record's Duplicate branch).                    *)
DuplicateRefusalsAreTrue ==
  last.result = "duplicate" => deliveries[last.pn] > 0
=============================================================================
