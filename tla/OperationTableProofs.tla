------------------------ MODULE OperationTableProofs ------------------------
(***************************************************************************)
(* For every set of request ids, every capacity and every window: the      *)
(* operation table executes a request_id at most once, and keeps a settled *)
(* result until its retention has passed.                                  *)
(***************************************************************************)
EXTENDS OperationTable, TLAPS

(* An executed id is remembered: by its slot, by its tombstone, or because   *)
(* the whole session is exhausted.                                           *)
Remembered(id) ==
  \/ table.slots[id].state # "absent"
  \/ id \in table.retired
  \/ table.exhausted

IInv ==
  /\ TypeOK
  /\ ExecutedAtMostOnce
  /\ \A id \in RequestIds : executed[id] > 0 => Remembered(id)

LEMMA InitIInv == Init => IInv
<1> SUFFICES ASSUME Init PROVE IInv
  OBVIOUS
<1>1. (CHOOSE h \in Hashes : TRUE) \in Hashes
  BY TableAssumption
<1>2. table \in Table
  <2>1. [id \in RequestIds |-> [state |-> "absent",
           hash |-> CHOOSE h \in Hashes : TRUE, since |-> 0]]
          \in [RequestIds -> Slot]
    BY <1>1, TableAssumption DEF Slot, SlotState
  <2> QED
    BY <2>1 DEF Init, Table, EmptyTable
<1> QED
  BY <1>2, TableAssumption DEF Init, IInv, TypeOK, ExecutedAtMostOnce

-----------------------------------------------------------------------------
(* What each operation does to one slot. *)
LEMMA BegunEffect ==
  ASSUME NEW t \in Table, NEW id \in RequestIds, NEW hash \in Hashes,
         NEW time \in 0 .. MaxTime
  PROVE  /\ Begun(t, id, hash, time) \in Table
         /\ Begun(t, id, hash, time).slots[id].state = "pending"
         /\ \A o \in RequestIds \ {id} :
              Begun(t, id, hash, time).slots[o] = t.slots[o]
         /\ Begun(t, id, hash, time).retired = t.retired
         /\ Begun(t, id, hash, time).exhausted = t.exhausted
BY DEF Begun, Table, Slot, SlotState

LEMMA SettleEffect ==
  ASSUME NEW t \in Table, NEW id \in RequestIds, NEW outcome \in Settled,
         NEW time \in 0 .. MaxTime, t.slots[id].state = "pending"
  PROVE  /\ Settle(t, id, outcome, time) \in Table
         /\ Settle(t, id, outcome, time).slots[id].state = outcome
         /\ \A o \in RequestIds \ {id} :
              Settle(t, id, outcome, time).slots[o] = t.slots[o]
         /\ Settle(t, id, outcome, time).retired = t.retired
         /\ Settle(t, id, outcome, time).exhausted = t.exhausted
BY Zenon DEF Settle, Table, Slot, SlotState, Settled

LEMMA FailedEffect ==
  ASSUME NEW t \in Table, NEW time \in 0 .. MaxTime
  PROVE  /\ Failed(t, time) \in Table
         /\ \A id \in RequestIds :
              \/ Failed(t, time).slots[id] = t.slots[id]
              \/ /\ t.slots[id].state = "pending"
                 /\ Failed(t, time).slots[id].state = "failed"
         /\ Failed(t, time).retired = t.retired
         /\ Failed(t, time).exhausted = t.exhausted
BY Zenon DEF Failed, TimedOut, Table, Slot, SlotState

(* tick: a record goes away only when it is settled and expired, and then it *)
(* leaves a tombstone or exhausts the session.                               *)
LEMMA TickEffect ==
  ASSUME NEW t \in Table, NEW time \in 0 .. MaxTime,
         NEW u \in Ticked(t, time)
  PROVE  /\ u \in Table
         /\ t.retired \subseteq u.retired
         /\ t.exhausted => u.exhausted
         /\ \A id \in RequestIds :
              (t.slots[id].state # "absent" /\ u.slots[id].state = "absent")
                => id \in u.retired \/ u.exhausted
         /\ \A id \in RequestIds :
              t.slots[id].state \in Settled =>
                \/ u.slots[id].state = t.slots[id].state
                \/ /\ u.slots[id].state = "absent"
                   /\ time - t.slots[id].since >= ResultRetention
<1> DEFINE f    == Failed(t, time)
           gone == Expired(f, time)
<1>1. PICK kept \in Tombstoned(f, gone) : u = Retire(f, gone, kept)
  BY DEF Ticked
<1>2. gone \in SUBSET RequestIds /\ kept \in SUBSET gone
  BY DEF Expired, Tombstoned
<1>3. /\ f \in Table /\ f.retired = t.retired /\ f.exhausted = t.exhausted
      /\ \A id \in RequestIds :
           \/ f.slots[id] = t.slots[id]
           \/ t.slots[id].state = "pending" /\ f.slots[id].state = "failed"
  BY FailedEffect
<1>4. \A id \in gone : f.slots[id].state \in Settled
                       /\ time - f.slots[id].since >= ResultRetention
  BY DEF Expired
<1> HIDE DEF f, gone
<1>5. /\ u \in Table
      /\ \A id \in RequestIds \ gone : u.slots[id] = f.slots[id]
      /\ \A id \in gone : u.slots[id].state = "absent"
      /\ u.retired = f.retired \cup kept
      /\ f.exhausted \/ gone # kept => u.exhausted
  <2>1. [id \in RequestIds |-> IF id \in gone
                                 THEN [f.slots[id] EXCEPT !.state = "absent"]
                                 ELSE f.slots[id]] \in [RequestIds -> Slot]
    BY <1>3 DEF Table, Slot, SlotState
  <2>2. (f.exhausted \/ gone # kept) \in BOOLEAN
    OBVIOUS
  <2>3. f.retired \cup kept \in SUBSET RequestIds
    BY <1>2, <1>3 DEF Table
  <2>4. /\ u = [slots     |-> [id \in RequestIds |-> IF id \in gone
                                 THEN [f.slots[id] EXCEPT !.state = "absent"]
                                 ELSE f.slots[id]],
                retired   |-> f.retired \cup kept,
                exhausted |-> (f.exhausted \/ gone # kept)]
    BY <1>1, <1>3, Zenon DEF Retire, Table
  <2>5. u \in Table
    BY <2>1, <2>2, <2>3, <2>4, Zenon DEF Table
  <2>6. \A id \in RequestIds \ gone : u.slots[id] = f.slots[id]
    BY <2>4
  <2>7. \A id \in gone : u.slots[id].state = "absent"
    BY <1>2, <1>3, <2>4 DEF Table, Slot
  <2>8. u.retired = f.retired \cup kept
    BY <2>4
  <2>9. f.exhausted \/ gone # kept => u.exhausted
    BY <2>4, Zenon
  <2> QED
    BY <2>5, <2>6, <2>7, <2>8, <2>9
<1>6. \A id \in gone : id \in u.retired \/ u.exhausted
  BY <1>2, <1>5
<1>7. ASSUME NEW id \in RequestIds, t.slots[id].state # "absent",
             u.slots[id].state = "absent"
      PROVE  id \in u.retired \/ u.exhausted
  BY <1>3, <1>5, <1>6, <1>7
<1>8. ASSUME NEW id \in RequestIds, t.slots[id].state \in Settled
      PROVE  \/ u.slots[id].state = t.slots[id].state
             \/ /\ u.slots[id].state = "absent"
                /\ time - t.slots[id].since >= ResultRetention
  BY <1>3, <1>4, <1>5, <1>8 DEF Settled
<1>9. t.retired \subseteq u.retired /\ (t.exhausted => u.exhausted)
  BY <1>3, <1>5
<1> QED
  BY <1>5, <1>7, <1>8, <1>9

-----------------------------------------------------------------------------
LEMMA NextIInv == IInv /\ [Next]_tableVars => IInv'
<1> SUFFICES ASSUME IInv, [Next]_tableVars PROVE IInv'
  OBVIOUS
<1>0. table \in Table /\ now \in 0 .. MaxTime /\ executed \in [RequestIds -> Nat]
  BY DEF IInv, TypeOK
<1>1. ASSUME NEW id \in RequestIds, NEW hash \in Hashes, Execute(id, hash)
      PROVE  IInv'
  <2>1. /\ table' \in Table
        /\ table'.slots[id].state = "pending"
        /\ \A o \in RequestIds \ {id} : table'.slots[o] = table.slots[o]
        /\ table'.retired = table.retired
        /\ table'.exhausted = table.exhausted
    BY <1>0, <1>1, BegunEffect DEF Execute
  <2>2. executed[id] = 0
    BY <1>0, <1>1 DEF Execute, BeginExecutes, Retired, IInv, Remembered
  <2>3. /\ executed' \in [RequestIds -> Nat] /\ executed'[id] = 1
        /\ \A o \in RequestIds \ {id} : executed'[o] = executed[o]
    BY <1>0, <1>1, <2>2 DEF Execute
  <2>4. TypeOK'
    BY <1>0, <1>1, <2>1, <2>3 DEF TypeOK, Execute
  <2>5. ExecutedAtMostOnce'
    BY <2>3 DEF IInv, ExecutedAtMostOnce
  <2>6. ASSUME NEW o \in RequestIds, executed'[o] > 0 PROVE Remembered(o)'
    BY <2>1, <2>3, <2>6 DEF IInv, Remembered
  <2> QED
    BY <2>4, <2>5, <2>6 DEF IInv
<1>2. ASSUME NEW id \in RequestIds, NEW outcome \in Settled,
             SettleOperation(id, outcome)
      PROVE  IInv'
  <2>1. /\ table' \in Table
        /\ table'.slots[id].state = outcome
        /\ \A o \in RequestIds \ {id} : table'.slots[o] = table.slots[o]
        /\ table'.retired = table.retired
        /\ table'.exhausted = table.exhausted
        /\ UNCHANGED <<now, executed>>
    BY <1>0, <1>2, SettleEffect DEF SettleOperation
  <2> QED
    BY <1>0, <2>1
       DEF IInv, TypeOK, ExecutedAtMostOnce, Remembered, Settled
<1>3. CASE Tick
  <2>1. table' \in Ticked(table, now) /\ UNCHANGED <<now, executed>>
    BY <1>3 DEF Tick
  <2>2. /\ table' \in Table
        /\ table.retired \subseteq table'.retired
        /\ table.exhausted => table'.exhausted
        /\ \A id \in RequestIds :
             (table.slots[id].state # "absent"
                /\ table'.slots[id].state = "absent")
               => id \in table'.retired \/ table'.exhausted
    BY <1>0, <2>1, TickEffect
  <2> QED
    BY <1>0, <2>1, <2>2 DEF IInv, TypeOK, ExecutedAtMostOnce, Remembered
<1>4. CASE Advance
  BY <1>0, <1>4, TableAssumption
     DEF Advance, IInv, TypeOK, ExecutedAtMostOnce, Remembered
<1>5. CASE UNCHANGED tableVars
  BY <1>5 DEF tableVars, IInv, TypeOK, ExecutedAtMostOnce, Remembered
<1> QED
  BY <1>1, <1>2, <1>3, <1>4, <1>5 DEF Next

LEMMA Invariance == Spec => []IInv
BY InitIInv, NextIInv, PTL DEF Spec

(* begin answers Execute at most once for a request_id, whatever settle,     *)
(* tick and the clock do in between.                                         *)
THEOREM AtMostOnce == Spec => []ExecutedAtMostOnce
<1>1. IInv => ExecutedAtMostOnce
  BY DEF IInv
<1> QED
  BY <1>1, Invariance, PTL

(* The table keeps its type. *)
THEOREM TableTypeCorrect == Spec => []TypeOK
<1>1. IInv => TypeOK
  BY DEF IInv
<1> QED
  BY <1>1, Invariance, PTL

(* A settled result is neither rewritten nor dropped before its retention    *)
(* has passed.                                                               *)
THEOREM ResultsKept == Spec => ResultsAreKept
<1> DEFINE Kept(id) ==
      table.slots[id].state \in Settled =>
        \/ table'.slots[id].state = table.slots[id].state
        \/ /\ table'.slots[id].state = "absent"
           /\ now - table.slots[id].since >= ResultRetention
<1>1. IInv /\ [Next]_tableVars => [\A id \in RequestIds : Kept(id)]_tableVars
  <2> SUFFICES ASSUME IInv, Next, NEW id \in RequestIds PROVE Kept(id)
    BY DEF tableVars
  <2>0. table \in Table /\ now \in 0 .. MaxTime
    BY DEF IInv, TypeOK
  <2>1. ASSUME NEW o \in RequestIds, NEW hash \in Hashes, Execute(o, hash)
        PROVE  Kept(id)
    BY <2>0, <2>1, BegunEffect DEF Execute, BeginExecutes, Settled
  <2>2. ASSUME NEW o \in RequestIds, NEW outcome \in Settled,
               SettleOperation(o, outcome)
        PROVE  Kept(id)
    BY <2>0, <2>2, SettleEffect DEF SettleOperation, Settled
  <2>3. CASE Tick
    <3>1. table' \in Ticked(table, now)
      BY <2>3 DEF Tick
    <3> QED
      BY <2>0, <3>1, TickEffect
  <2>4. CASE Advance
    BY <2>4 DEF Advance
  <2> QED
    BY <2>1, <2>2, <2>3, <2>4 DEF Next
<1> QED
  BY <1>1, Invariance, PTL DEF Spec, ResultsAreKept
=============================================================================
