------------------------------ MODULE PacketNo ------------------------------
(***************************************************************************)
(* The per-direction packet_no allocator of wsnet-crypto.                  *)
(*                                                                         *)
(* One AtomicU64 is shared by every task that seals a record.  allocate    *)
(* and reserve_exact are compare-and-swap loops: the load and each swap    *)
(* are separate atomic steps, and a weak swap may fail although the value  *)
(* matches.  packet_no is the AEAD nonce, so a value must never be handed  *)
(* out twice.                                                              *)
(***************************************************************************)
EXTENDS Integers

CONSTANTS Threads,            \* tasks that call the allocator
          PACKET_NO_CEILING,  \* highest value that may be allocated
          EXHAUSTED           \* u64::MAX, the "spent" sentinel

ASSUME AllocatorAssumption ==
  /\ PACKET_NO_CEILING \in Nat
  /\ EXHAUSTED \in Nat
  /\ PACKET_NO_CEILING < EXHAUSTED

VARIABLES next,     \* the shared counter
          pc,       \* where each task is: "idle", "allocate" or "reserve"
          current,  \* the task's last read of the counter
          value,    \* the argument of the task's reserve_exact call
          issued    \* how often each value was returned (history)

allocatorVars == <<next, pc, current, value, issued>>

Word       == 0 .. EXHAUSTED
Issuable   == 0 .. PACKET_NO_CEILING
Spent(n)   == n = EXHAUSTED \/ n > PACKET_NO_CEILING

AllocatorTypeOK ==
  /\ next \in Word
  /\ pc \in [Threads -> {"idle", "allocate", "reserve"}]
  /\ current \in [Threads -> Word]
  /\ value \in [Threads -> Issuable]
  /\ issued \in [Word -> Nat]

AllocatorInit ==
  /\ next = 0
  /\ pc = [t \in Threads |-> "idle"]
  /\ current = [t \in Threads |-> 0]
  /\ value = [t \in Threads |-> 0]
  /\ issued = [n \in Word |-> 0]

(* The locals of a call that returned are gone. *)
Return(t) ==
  /\ pc' = [pc EXCEPT ![t] = "idle"]
  /\ current' = [current EXCEPT ![t] = 0]
  /\ value' = [value EXCEPT ![t] = 0]

Load(t)   == current' = [current EXCEPT ![t] = next]
Issue(n)  == issued' = [issued EXCEPT ![n] = @ + 1]

-----------------------------------------------------------------------------
(* allocate *)
AllocateCall(t) ==
  /\ pc[t] = "idle"
  /\ pc' = [pc EXCEPT ![t] = "allocate"]
  /\ Load(t)
  /\ UNCHANGED <<next, value, issued>>

AllocateExhausted(t) ==
  /\ pc[t] = "allocate"
  /\ Spent(current[t])
  /\ next' = IF next = current[t] THEN EXHAUSTED ELSE next
  /\ Return(t)
  /\ UNCHANGED issued

\* Mutant: the swap is a plain store of the incremented read.
AllocateSwap_PlainStore(t) ==
  /\ pc[t] = "allocate"
  /\ ~Spent(current[t])
  /\ next' = current[t] + 1
  /\ Issue(current[t])
  /\ Return(t)

AllocateSwap(t) ==
  /\ pc[t] = "allocate"
  /\ ~Spent(current[t])
  /\ next = current[t]
  /\ next' = current[t] + 1
  /\ Issue(current[t])
  /\ Return(t)

\* Mutant: a failed swap is retried with the value already read.
AllocateRetry_StaleRead(t) ==
  /\ pc[t] = "allocate"
  /\ ~Spent(current[t])
  /\ UNCHANGED allocatorVars

(* A failed swap: another task got in, or the weak swap failed spuriously. *)
AllocateRetry(t) ==
  /\ pc[t] = "allocate"
  /\ ~Spent(current[t])
  /\ Load(t)
  /\ UNCHANGED <<next, pc, value, issued>>

-----------------------------------------------------------------------------
(* reserve_exact.  A value above the ceiling is refused before the loop. *)
ReserveCall(t, v) ==
  /\ pc[t] = "idle"
  /\ pc' = [pc EXCEPT ![t] = "reserve"]
  /\ value' = [value EXCEPT ![t] = v]
  /\ Load(t)
  /\ UNCHANGED <<next, issued>>

ReserveRefused(t) ==
  /\ pc[t] = "reserve"
  /\ current[t] = EXHAUSTED \/ value[t] < current[t]
  /\ Return(t)
  /\ UNCHANGED <<next, issued>>

\* Mutant: the counter is only advanced past the read, not past the value.
ReserveSwap_AdvanceByOne(t) ==
  /\ pc[t] = "reserve"
  /\ current[t] # EXHAUSTED
  /\ value[t] >= current[t]
  /\ next = current[t]
  /\ next' = current[t] + 1
  /\ Issue(value[t])
  /\ Return(t)

ReserveSwap(t) ==
  /\ pc[t] = "reserve"
  /\ current[t] # EXHAUSTED
  /\ value[t] >= current[t]
  /\ next = current[t]
  /\ next' = value[t] + 1
  /\ Issue(value[t])
  /\ Return(t)

ReserveRetry(t) ==
  /\ pc[t] = "reserve"
  /\ current[t] # EXHAUSTED
  /\ value[t] >= current[t]
  /\ Load(t)
  /\ UNCHANGED <<next, pc, value, issued>>

-----------------------------------------------------------------------------
AllocatorStep(t) ==
  \/ AllocateExhausted(t)
  \/ AllocateSwap(t)
  \/ AllocateRetry(t)
  \/ ReserveRefused(t)
  \/ ReserveSwap(t)
  \/ ReserveRetry(t)

AllocatorNext ==
  \E t \in Threads :
    \/ AllocateCall(t)
    \/ \E v \in Issuable : ReserveCall(t, v)
    \/ AllocatorStep(t)

AllocatorSpec == AllocatorInit /\ [][AllocatorNext]_allocatorVars

-----------------------------------------------------------------------------
(* No packet_no, and so no AEAD nonce, is ever returned twice, however       *)
(* allocate and reserve_exact calls of different tasks interleave.           *)
NeverIssuedTwice == \A n \in Word : issued[n] <= 1

(* Nothing above the ceiling is handed out: the counter stops before u64     *)
(* wraps, even while a task still holds a read from before exhaustion.       *)
CeilingRespected == \A n \in Word : issued[n] > 0 => n <= PACKET_NO_CEILING

(* Exhaustion is terminal: once the counter passed the ceiling nothing is    *)
(* issued any more and the counter never comes back.                         *)
ExhaustionIsTerminal ==
  [][Spent(next) => Spent(next') /\ issued' = issued]_allocatorVars

(* Every allocate call returns: contention can delay it only until the       *)
(* counter is spent.                                                         *)
AllocateReturns == \A t \in Threads : pc[t] = "allocate" ~> pc[t] = "idle"
=============================================================================
