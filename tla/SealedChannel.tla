---------------------------- MODULE SealedChannel ----------------------------
(***************************************************************************)
(* One direction of a session's sealed channel (engine.rs).                *)
(*                                                                         *)
(* send takes a packet_no from the shared allocator, seals the record with *)
(* it as the nonce and queues the envelope; several tasks do so at once,   *)
(* so envelopes are queued in another order than their numbers.  Carriers  *)
(* lose, repeat and reorder envelopes.  feed opens an envelope and asks    *)
(* the replay window before it dispatches the record.  An envelope is its  *)
(* packet_no: the AEAD binds the rest to it.                               *)
(***************************************************************************)
EXTENDS PacketNo, ReplayWindow

ASSUME ChannelAssumption == PACKET_NO_CEILING <= MaxPacketNo

VARIABLES sealing,  \* the number a task has taken and not yet queued, or None
          outbound  \* envelopes handed to the carriers, which may deliver each
                    \* of them any number of times, in any order, or never

vars == <<allocatorVars, windowVars, sealing, outbound>>

TypeOK ==
  /\ AllocatorTypeOK
  /\ WindowTypeOK
  /\ sealing \in [Threads -> Issuable \cup {None}]
  /\ outbound \subseteq Issuable

Init ==
  /\ AllocatorInit
  /\ WindowInit
  /\ sealing = [t \in Threads |-> None]
  /\ outbound = {}

-----------------------------------------------------------------------------
(* send: allocate, then seal and queue. *)
SendAllocates(t) ==
  /\ sealing[t] = None
  /\ AllocateCall(t)
  /\ UNCHANGED <<windowVars, sealing, outbound>>

SendTakesNumber(t) ==
  /\ AllocateSwap(t)
  /\ sealing' = [sealing EXCEPT ![t] = current[t]]
  /\ UNCHANGED <<windowVars, outbound>>

(* The allocator is spent: send returns its error and nothing is sealed. *)
SendFails(t) ==
  /\ AllocateExhausted(t)
  /\ UNCHANGED <<windowVars, sealing, outbound>>

SendRetries(t) ==
  /\ AllocateRetry(t)
  /\ UNCHANGED <<windowVars, sealing, outbound>>

SendQueues(t) ==
  /\ sealing[t] # None
  /\ outbound' = outbound \cup {sealing[t]}
  /\ sealing' = [sealing EXCEPT ![t] = None]
  /\ UNCHANGED <<allocatorVars, windowVars>>

(* reserve_exact moves the counter past a number that send will never use. *)
Reserves(t) ==
  /\ sealing[t] = None
  /\ \/ \E v \in Issuable : ReserveCall(t, v)
     \/ ReserveRefused(t)
     \/ ReserveSwap(t)
     \/ ReserveRetry(t)
  /\ UNCHANGED <<windowVars, sealing, outbound>>

(* feed: only an envelope that was sealed opens, and the window judges it. *)
Feed(pn) ==
  /\ pn \in outbound
  /\ CheckAndRecord(pn)
  /\ UNCHANGED <<allocatorVars, sealing, outbound>>

Next ==
  \/ \E t \in Threads :
       \/ SendAllocates(t)
       \/ SendTakesNumber(t)
       \/ SendFails(t)
       \/ SendRetries(t)
       \/ SendQueues(t)
       \/ Reserves(t)
  \/ \E pn \in Issuable : Feed(pn)

(* A running task keeps being scheduled, a retry re-reads the counter, and a *)
(* weak swap whose value still matches does not fail forever.                *)
Fairness ==
  \A t \in Threads :
    /\ WF_vars(SendTakesNumber(t))
    /\ WF_vars(SendFails(t))
    /\ WF_vars(SendRetries(t))

Spec     == Init /\ [][Next]_vars
FairSpec == Spec /\ Fairness

-----------------------------------------------------------------------------
(* Every record is dispatched at most once, and only if it was sealed: feed  *)
(* accepts no packet_no more often than the allocator issued it.             *)
DispatchedAtMostOnce ==
  \A n \in Issuable : deliveries[n] <= issued[n] /\ issued[n] <= 1
=============================================================================
