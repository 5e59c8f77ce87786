--------------------------- MODULE OperationTable ---------------------------
(***************************************************************************)
(* The at-most-once operation table of wsnet-operation: one per session,   *)
(* behind a mutex, so each method is one atomic step.                      *)
(*                                                                         *)
(* A table is a record of its slots, its retired ids and its exhausted     *)
(* flag; begin, settle and tick map a table to a table.  A request_id      *)
(* without a slot is "absent".  Time is the node's monotonic clock.        *)
(***************************************************************************)
EXTENDS Integers, FiniteSets

CONSTANTS RequestIds,            \* 128-bit operation ids
          Hashes,                \* SHA-256 of an operation's description
          OPERATION_MAX_PENDING, \* max_records
          OPERATION_TOMBSTONE_MAX,
          OpenTimeout,           \* open_timeout_ms
          ResultRetention,       \* result_retention_ms
          MaxTime                \* bound: the last instant of a run

ASSUME TableAssumption ==
  /\ OPERATION_MAX_PENDING \in Nat
  /\ OPERATION_TOMBSTONE_MAX \in Nat
  /\ OpenTimeout \in Nat
  /\ ResultRetention \in Nat
  /\ MaxTime \in Nat
  /\ IsFiniteSet(RequestIds)
  /\ Hashes # {}

VARIABLES table,    \* the operation table
          now,      \* monotonic time
          executed  \* how often begin answered Execute for an id (history)

tableVars == <<table, now, executed>>

SlotState == {"absent", "pending", "failed", "complete"}
Settled   == {"failed", "complete"}
Slot      == [state : SlotState, hash : Hashes, since : 0 .. MaxTime]
Table     == [slots : [RequestIds -> Slot], retired : SUBSET RequestIds,
              exhausted : BOOLEAN]

EmptyTable ==
  [slots     |-> [id \in RequestIds |->
                    [state |-> "absent", hash |-> CHOOSE h \in Hashes : TRUE,
                     since |-> 0]],
   retired   |-> {},
   exhausted |-> FALSE]

Live(t) == {id \in RequestIds : t.slots[id].state # "absent"}

-----------------------------------------------------------------------------
Retired(t, id) == t.exhausted \/ id \in t.retired

HasRoom(t) == Cardinality(Live(t)) < OPERATION_MAX_PENDING

(* begin answers Execute exactly for an id it has never seen. *)
BeginExecutes(t, id) ==
  /\ ~Retired(t, id)
  /\ t.slots[id].state = "absent"
  /\ HasRoom(t)

(* The record begin inserts when it answers Execute. *)
Begun(t, id, hash, time) ==
  [t EXCEPT !.slots[id] = [state |-> "pending", hash |-> hash, since |-> time]]

(* settle: Unknown and AlreadySettled leave the table alone. *)
Settle(t, id, outcome, time) ==
  IF t.slots[id].state = "pending"
    THEN [t EXCEPT !.slots[id].state = outcome, !.slots[id].since = time]
    ELSE t

-----------------------------------------------------------------------------
TimedOut(t, time) ==
  {id \in RequestIds : /\ t.slots[id].state = "pending"
                       /\ time - t.slots[id].since >= OpenTimeout}

(* tick's first loop: an overdue pending operation becomes a Failed result. *)
Failed(t, time) ==
  [t EXCEPT !.slots =
     [id \in RequestIds |->
        IF id \in TimedOut(t, time)
          THEN [@[id] EXCEPT !.state = "failed", !.since = time]
          ELSE @[id]]]

\* Mutant: a result expires one instant early.
Expired_OneEarly(t, time) ==
  {id \in RequestIds :
     /\ t.slots[id].state \in Settled
     /\ time - t.slots[id].since + 1 >= ResultRetention}

Expired(t, time) ==
  {id \in RequestIds : /\ t.slots[id].state \in Settled
                       /\ time - t.slots[id].since >= ResultRetention}

(* Removes the records of gone; those of kept leave a tombstone.  An id that *)
(* finds the tombstone set full exhausts the session instead.                *)
Retire(t, gone, kept) ==
  [t EXCEPT !.slots = [id \in RequestIds |->
                         IF id \in gone THEN [@[id] EXCEPT !.state = "absent"]
                                        ELSE @[id]],
            !.retired = @ \cup kept,
            !.exhausted = @ \/ gone # kept]

(* How many expired ids still find room for a tombstone; which ones depends  *)
(* on the order of the ids, which is left open.                              *)
Tombstoned(t, gone) ==
  {kept \in SUBSET gone :
     /\ Cardinality(t.retired) + Cardinality(kept) <= OPERATION_TOMBSTONE_MAX
     /\ kept # gone =>
          Cardinality(t.retired) + Cardinality(kept) = OPERATION_TOMBSTONE_MAX}

(* The tables tick may leave behind. *)
Ticked(t, time) ==
  LET f == Failed(t, time)
  IN  {Retire(f, Expired(f, time), kept) : kept \in Tombstoned(f, Expired(f, time))}

-----------------------------------------------------------------------------
TypeOK ==
  /\ table \in Table
  /\ now \in 0 .. MaxTime
  /\ executed \in [RequestIds -> Nat]

Init ==
  /\ table = EmptyTable
  /\ now = 0
  /\ executed = [id \in RequestIds |-> 0]

Execute(id, hash) ==
  /\ BeginExecutes(table, id)
  /\ table' = Begun(table, id, hash, now)
  /\ executed' = [executed EXCEPT ![id] = @ + 1]
  /\ UNCHANGED now

(* begin's other answers (AlreadyPending, Cached, Conflict, Retired and      *)
(* CapacityExceeded) change nothing.                                         *)

SettleOperation(id, outcome) ==
  /\ table.slots[id].state = "pending"
  /\ table' = Settle(table, id, outcome, now)
  /\ UNCHANGED <<now, executed>>

Tick ==
  /\ table' \in Ticked(table, now)
  /\ UNCHANGED <<now, executed>>

Advance ==
  /\ now < MaxTime
  /\ now' = now + 1
  /\ UNCHANGED <<table, executed>>

Next ==
  \/ \E id \in RequestIds, hash \in Hashes : Execute(id, hash)
  \/ \E id \in RequestIds, outcome \in Settled : SettleOperation(id, outcome)
  \/ Tick
  \/ Advance

Spec == Init /\ [][Next]_tableVars

-----------------------------------------------------------------------------
(* A request_id is executed at most once in the life of its session, through *)
(* expiry, retirement and an overflowing tombstone set.                      *)
ExecutedAtMostOnce == \A id \in RequestIds : executed[id] <= 1

(* A result is never evicted or rewritten inside its idempotency window: a   *)
(* settled record keeps its outcome until its retention has passed.          *)
ResultsAreKept ==
  [][\A id \in RequestIds :
       table.slots[id].state \in Settled =>
         \/ table'.slots[id].state = table.slots[id].state
         \/ /\ table'.slots[id].state = "absent"
            /\ now - table.slots[id].since >= ResultRetention]_tableVars

=============================================================================
