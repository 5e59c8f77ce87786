-------------------------- MODULE AdmissionLemmas --------------------------
(***************************************************************************)
(* Facts about ticks, whole seconds and deadlines, and type correctness of *)
(* Admission.                                                              *)
(***************************************************************************)
EXTENDS Admission, FiniteSetTheorems, TLAPS

(* Whole seconds and ticks. *)
LEMMA DivBounds ==
  ASSUME NEW x \in Int
  PROVE  /\ x \div TICKS \in Int
         /\ (x \div TICKS) * TICKS <= x
         /\ x < ((x \div TICKS) + 1) * TICKS
<1>1. TICKS \in Nat /\ TICKS > 0
  BY AdmissionAssumption
<1> DEFINE q == x \div TICKS
           r == x % TICKS
<1>2. /\ q \in Int /\ r \in Int /\ 0 <= r /\ r < TICKS
      /\ x = (TICKS * q) + r
  BY <1>1
<1> HIDE DEF q, r
<1>3. q * TICKS = TICKS * q /\ (q + 1) * TICKS = (TICKS * q) + TICKS
  BY <1>1, <1>2
<1>4. q \in Int /\ q * TICKS <= x /\ x < (q + 1) * TICKS
  BY <1>1, <1>2, <1>3
<1> QED
  BY <1>4 DEF q

LEMMA TimesMonotone ==
  ASSUME NEW a \in Int, NEW b \in Int, a <= b
  PROVE  a * TICKS <= b * TICKS
<1>1. TICKS \in Nat /\ TICKS > 0
  BY AdmissionAssumption
<1>2. (b - a) * TICKS >= 0
  BY <1>1
<1>3. (b - a) * TICKS = (b * TICKS) - (a * TICKS)
  BY <1>1
<1> QED
  BY <1>1, <1>2, <1>3

(* A moment at or after the start of second k shows at least k. *)
LEMMA ShowsAtLeast ==
  ASSUME NEW x \in Int, NEW k \in Int, x >= k * TICKS
  PROVE  x \div TICKS >= k
<1> DEFINE q == x \div TICKS
<1>1. q \in Int /\ x < (q + 1) * TICKS
  BY DivBounds
<1>2. TICKS \in Nat
  BY AdmissionAssumption
<1> HIDE DEF q
<1>3. SUFFICES ASSUME q + 1 <= k PROVE FALSE
  BY <1>1 DEF q
<1>4. (q + 1) * TICKS <= k * TICKS
  BY <1>1, <1>3, TimesMonotone
<1> QED
  BY <1>1, <1>2, <1>4

LEMMA DivMonotone ==
  ASSUME NEW x \in Int, NEW y \in Int, x <= y
  PROVE  x \div TICKS <= y \div TICKS
<1> DEFINE q == x \div TICKS
<1>1. q \in Int /\ q * TICKS <= x
  BY DivBounds
<1>2. TICKS \in Nat
  BY AdmissionAssumption
<1> HIDE DEF q
<1>3. y >= q * TICKS
  BY <1>1, <1>2
<1>4. y \div TICKS >= q
  BY <1>1, <1>3, ShowsAtLeast
<1>5. y \div TICKS \in Int
  BY DivBounds
<1> QED
  BY <1>1, <1>4, <1>5 DEF q

(* Both registries compute a deadline from whole seconds: it never falls     *)
(* before second k begins.                                                   *)
LEMMA DeadlineLate ==
  ASSUME NEW e \in Nat, NEW m \in Nat, NEW k \in Int
  PROVE  LET d == m + MaxOf(k - ((e + m) \div TICKS), 0) * TICKS
         IN  d \in Nat /\ d >= m /\ e + d >= k * TICKS
<1> DEFINE q == (e + m) \div TICKS
           s == MaxOf(k - q, 0)
<1>1. q \in Int /\ q * TICKS <= e + m
  BY DivBounds
<1>2. TICKS \in Nat
  BY AdmissionAssumption
<1> HIDE DEF q
<1>3. s \in Nat /\ s + q >= k
  BY <1>1 DEF MaxOf
<1> HIDE DEF s
<1>4. s * TICKS \in Nat
  BY <1>2, <1>3
<1>5. (s + q) * TICKS = (s * TICKS) + (q * TICKS)
  BY <1>1, <1>2, <1>3
<1>6. (s + q) * TICKS >= k * TICKS
  BY <1>1, <1>3, TimesMonotone
<1>7. q * TICKS \in Int /\ k * TICKS \in Int
  BY <1>1, <1>2
<1>8. e + (m + s * TICKS) >= k * TICKS
  BY <1>1, <1>4, <1>5, <1>6, <1>7
<1>9. m + s * TICKS \in Nat /\ m + s * TICKS >= m
  BY <1>4
<1> QED
  BY <1>8, <1>9 DEF s, q

-----------------------------------------------------------------------------
(* Type correctness *)
LEMMA TaskTypes ==
  ASSUME TypeOK, NEW t \in Tasks
  PROVE  /\ task[t].pc \in {"idle", "auth", "bind"}
         /\ task[t] = Idle <=> task[t].pc = "idle"
         /\ task[t].pc = "auth" =>
              task[t].what \in Auths /\ task[t].wall \in Nat /\ task[t].mono \in Nat
         /\ task[t].pc = "bind" =>
              task[t].what \in Proofs /\ task[t].wall \in Nat /\ task[t].mono \in Nat
<1>1. task[t] \in Readings
  BY DEF TypeOK
<1>2. CASE task[t] = Idle
  BY <1>2 DEF Idle
<1>3. CASE task[t] \in [pc : {"auth"}, what : Auths, wall : Nat, mono : Nat]
  BY <1>3 DEF Idle
<1>4. CASE task[t] \in [pc : {"bind"}, what : Proofs, wall : Nat, mono : Nat]
  BY <1>4 DEF Idle
<1> QED
  BY <1>1, <1>2, <1>3, <1>4 DEF Readings

LEMMA WallType == TypeOK => Wall \in Nat
<1> SUFFICES ASSUME TypeOK PROVE Wall \in Nat
  OBVIOUS
<1>1. epoch + mono \in Nat /\ 0 * TICKS = 0
  BY AdmissionAssumption DEF TypeOK
<1>2. (epoch + mono) \div TICKS \in Int
  BY <1>1, DivBounds
<1>3. (epoch + mono) \div TICKS >= 0
  BY <1>1, ShowsAtLeast
<1> QED
  BY <1>2, <1>3 DEF Wall, WallAt

LEMMA StateTypes ==
  ASSUME TypeOK
  PROVE  /\ mono \in Nat /\ epoch \in Nat /\ pausedUntil \in Nat /\ lastWall \in Int
         /\ \A a \in DOMAIN entries : entries[a] \in Nat
         /\ \A p \in DOMAIN used : p \in Proofs /\ used[p] \in Nat
<1>1. /\ mono \in Nat /\ epoch \in Nat /\ pausedUntil \in Nat
      /\ lastWall \in Nat \cup {None}
      /\ \A a \in DOMAIN entries : entries[a] \in Nat
      /\ DOMAIN used \subseteq Proofs /\ \A p \in DOMAIN used : used[p] \in Nat
  BY Zenon DEF TypeOK
<1>2. lastWall \in Int
  BY <1>1 DEF None
<1> QED
  BY <1>1, <1>2, Zenon

(* Both registries hold finitely many records, each under a key of its own.  *)
Finite == IsFiniteSet(DOMAIN entries) /\ IsFiniteSet(DOMAIN used)

LEMMA CountKeptType ==
  ASSUME TypeOK, Finite, NEW m \in Nat
  PROVE  CountKept(m) \in [Nodes -> Nat]
<1>1. ASSUME NEW n \in Nodes
      PROVE  MaxOf(0, perNode[n] - Cardinality({a \in DOMAIN entries \ Kept(m) : NodeOf[a] = n})) \in Nat
  <2> DEFINE S == {a \in DOMAIN entries \ Kept(m) : NodeOf[a] = n}
  <2>1. S \in SUBSET DOMAIN entries
    OBVIOUS
  <2>2. IsFiniteSet(S)
    BY <2>1, FS_Subset DEF Finite
  <2>3. Cardinality(S) \in Nat
    BY <2>2, FS_CardinalityType
  <2> HIDE DEF S
  <2>4. MaxOf(0, perNode[n] - Cardinality(S)) \in Nat
    BY <2>3 DEF MaxOf, TypeOK
  <2> QED
    BY <2>4 DEF S
<1> QED
  BY <1>1 DEF CountKept

LEMMA DeadlineTypes ==
  ASSUME NEW a \in Nat, NEW wall \in Nat, NEW m \in Nat
  PROVE  m + MaxOf(a + 1 - wall, 0) * TICKS \in Nat
<1>1. TICKS \in Nat /\ MaxOf(a + 1 - wall, 0) \in Nat
  BY AdmissionAssumption DEF MaxOf
<1> DEFINE x == MaxOf(a + 1 - wall, 0)
<1> HIDE DEF x
<1>2. x * TICKS \in Nat
  BY <1>1 DEF x
<1> QED
  BY <1>2 DEF x

LEMMA InitTypes == Init => TypeOK /\ Finite
<1> SUFFICES ASSUME Init PROVE TypeOK /\ Finite
  OBVIOUS
<1>1. DOMAIN <<>> = {}
  OBVIOUS
<1>2. DOMAIN entries = {} /\ DOMAIN used = {}
  BY <1>1 DEF Init
<1>3. Finite
  BY <1>2, FS_EmptySet DEF Finite
<1>4. task \in [Tasks -> Readings]
  BY DEF Init, Readings
<1>5. TypeOK
  BY <1>2, <1>4, AdmissionAssumption DEF Init, TypeOK, None
<1> QED
  BY <1>3, <1>5

LEMMA DoneTypes ==
  ASSUME TypeOK, NEW t \in Tasks, Done(t)
  PROVE  task' \in [Tasks -> Readings]
BY DEF TypeOK, Done, Readings

LEMMA ReadTypes ==
  ASSUME TypeOK
  PROVE  /\ \A a \in Auths : Reading("auth", a) \in Readings
         /\ \A p \in Proofs : Reading("bind", p) \in Readings
<1>1. Wall \in Nat /\ mono \in Nat
  BY WallType DEF TypeOK
<1> QED
  BY <1>1 DEF Reading, Readings

LEMMA NextTypes ==
  ASSUME TypeOK, Finite, [Next]_vars
  PROVE  TypeOK' /\ Finite'
<1> USE DEF TypeOK, clock, nonces, binds
<1>1. ASSUME NEW t \in Tasks, NEW a \in Auths, AuthRead(t, a)
      PROVE  TypeOK' /\ Finite'
  <2>0. task' = [task EXCEPT ![t] = Reading("auth", a)]
    BY <1>1 DEF AuthRead
  <2>1. task' \in [Tasks -> Readings]
    BY <2>0, ReadTypes
  <2> QED
    BY <1>1, <2>1, SMTT(120) DEF AuthRead, Finite
<1>2. ASSUME NEW t \in Tasks, NEW p \in Proofs, BindRead(t, p)
      PROVE  TypeOK' /\ Finite'
  <2>0. task' = [task EXCEPT ![t] = Reading("bind", p)]
    BY <1>2 DEF BindRead
  <2>1. task' \in [Tasks -> Readings]
    BY <2>0, ReadTypes
  <2> QED
    BY <1>2, <2>1 DEF BindRead, Finite
<1>3. ASSUME NEW t \in Tasks, AuthOutOfTime(t)
      PROVE  TypeOK' /\ Finite'
  <2>1. task' \in [Tasks -> Readings]
    BY <1>3, DoneTypes DEF AuthOutOfTime
  <2> QED
    BY <1>3, <2>1 DEF AuthOutOfTime, Finite
<1>4. ASSUME NEW t \in Tasks, InTime(t)
      PROVE  /\ task' \in [Tasks -> Readings]
             /\ lastWall' \in Nat \cup {None}
             /\ task[t].what \in Auths /\ task[t].wall \in Nat /\ task[t].mono \in Nat
  BY <1>4, DoneTypes, TaskTypes DEF InTime, Registers, MaxOf
<1>5. ASSUME NEW t \in Tasks, AuthPaused(t)
      PROVE  TypeOK' /\ Finite'
  BY <1>4, <1>5 DEF AuthPaused, Finite
<1>6. ASSUME NEW m \in Nat
      PROVE  IsFiniteSet(Kept(m)) /\ Kept(m) \subseteq DOMAIN entries
  <2>1. Kept(m) \in SUBSET DOMAIN entries
    BY DEF Kept
  <2> QED
    BY <2>1, FS_Subset DEF Finite
<1>7. ASSUME NEW t \in Tasks, AuthRefused(t)
      PROVE  TypeOK' /\ Finite'
  <2> DEFINE r == task[t]
  <2>1. /\ InTime(t) /\ pausedUntil' = 0
        /\ entries' = [a \in Kept(r.mono) |-> entries[a]]
        /\ perNode' = CountKept(r.mono)
        /\ UNCHANGED <<clock, accepted, binds, session, steady, faults, load>>
    BY <1>7, SMTT(120) DEF AuthRefused
  <2>2. r.mono \in Nat
    BY <1>4, <2>1
  <2>3. DOMAIN entries' = Kept(r.mono) /\ \A a \in Kept(r.mono) : entries'[a] \in Nat
    BY <1>6, <2>1, <2>2
  <2>4. perNode' \in [Nodes -> Nat]
    BY <2>1, <2>2, CountKeptType
  <2> HIDE DEF r
  <2> QED
    BY <1>4, <1>6, <2>1, <2>2, <2>3, <2>4 DEF Finite
<1>8. ASSUME NEW t \in Tasks, AuthAccepted(t)
      PROVE  TypeOK' /\ Finite'
  <2> DEFINE r == task[t]
             a == r.what
             d == NonceDeadline(a, r.wall, r.mono)
  <2>1. /\ InTime(t) /\ pausedUntil' = 0
        /\ entries' = [b \in Kept(r.mono) \cup {a} |-> IF b = a THEN d ELSE entries[b]]
        /\ perNode' = [CountKept(r.mono) EXCEPT ![NodeOf[a]] = @ + 1]
        /\ accepted' = [accepted EXCEPT ![a] = @ + 1]
        /\ session' = IF accepted[a] > 0 THEN session
                      ELSE [session EXCEPT ![a] = r.wall + SessionTtl]
        /\ UNCHANGED <<clock, binds, steady, faults, load>>
    BY <1>8, SMTT(120) DEF AuthAccepted
  <2>2. r.mono \in Nat /\ r.wall \in Nat /\ a \in Auths
    BY <1>4, <2>1
  <2>3. d \in Nat
    <3>1. TsOf[a] + W \in Nat
      BY <2>2, AdmissionAssumption
    <3> QED
      BY <2>2, <3>1, DeadlineTypes, Zenon DEF NonceDeadline
  <2> HIDE DEF d, a, r
  <2>4. /\ DOMAIN entries' = Kept(r.mono) \cup {a}
        /\ \A b \in DOMAIN entries' : entries'[b] \in Nat
    BY <1>6, <2>1, <2>2, <2>3
  <2>5. IsFiniteSet(Kept(r.mono) \cup {a})
    BY <1>6, <2>2, FS_AddElement, Zenon
  <2>6. perNode' \in [Nodes -> Nat]
    <3> DEFINE c == CountKept(r.mono)
    <3>1. c \in [Nodes -> Nat] /\ NodeOf[a] \in Nodes
      BY <2>2, CountKeptType, AdmissionAssumption
    <3> HIDE DEF c
    <3>2. [c EXCEPT ![NodeOf[a]] = @ + 1] \in [Nodes -> Nat]
      BY <3>1
    <3> QED
      BY <2>1, <3>2 DEF c
  <2>7. accepted' \in [Auths -> Nat] /\ session' \in [Auths -> Nat \cup {None}]
    BY <2>1, <2>2, AdmissionAssumption
  <2>8. Finite'
    BY <2>1, <2>4, <2>5, SMTT(120) DEF Finite
  <2>9. DOMAIN entries' \subseteq Auths
    BY <1>6, <2>2, <2>4, SMTT(120)
  <2> QED
    BY <1>4, <2>1, <2>4, <2>6, <2>7, <2>8, <2>9, Zenon
<1>9. ASSUME NEW t \in Tasks, BindClaim(t)
      PROVE  TypeOK' /\ Finite'
  <2> DEFINE r    == task[t]
             p    == r.what
             kept == Unpruned(r.mono)
             wins == p \notin kept /\ Cardinality(kept) < BIND_NONCE_MAX
             d    == BindDeadline(p, r.wall, r.mono)
  <2>1. /\ r.pc = "bind"
        /\ used' = [q \in IF wins THEN kept \cup {p} ELSE kept |->
                      IF q = p /\ wins THEN d ELSE used[q]]
        /\ sincePrune' = (IF MustPrune THEN 0 ELSE sincePrune) + 1
        /\ claimed' = IF wins THEN [claimed EXCEPT ![p] = @ + 1] ELSE claimed
        /\ Done(t)
        /\ UNCHANGED <<clock, nonces, session, steady, faults, load>>
    BY <1>9, SMTT(120) DEF BindClaim
  <2>2. r.mono \in Nat /\ r.wall \in Nat /\ p \in Proofs
    BY <2>1, TaskTypes, SMTT(120)
  <2>3. d \in Nat
    BY <2>2, AdmissionAssumption, DeadlineTypes, Zenon DEF BindDeadline
  <2>4. kept \in SUBSET DOMAIN used
    BY DEF Unpruned
  <2> HIDE DEF d, wins, kept, p, r
  <2>5. IsFiniteSet(kept) /\ IsFiniteSet(kept \cup {p})
    BY <2>4, FS_Subset, FS_AddElement DEF Finite
  <2>6. /\ DOMAIN used' = IF wins THEN kept \cup {p} ELSE kept
        /\ \A q \in DOMAIN used' : used'[q] \in Nat
    BY <2>1, <2>3, <2>4
  <2>7. sincePrune' \in Nat /\ claimed' \in [Proofs -> Nat]
    BY <2>1, <2>2
  <2>8. task' \in [Tasks -> Readings]
    BY <2>1, DoneTypes
  <2>9. Finite' /\ DOMAIN used' \subseteq Proofs
    BY <2>1, <2>2, <2>4, <2>5, <2>6 DEF Finite
  <2> QED
    BY <2>1, <2>6, <2>7, <2>8, <2>9, Zenon
<1>10. CASE StorageLost
  <2>1. DOMAIN <<>> = {}
    OBVIOUS
  <2>2. (2 * W + MARGIN) * TICKS \in Nat
    BY AdmissionAssumption
  <2>3. pausedUntil' \in Nat
    BY <1>10, <2>2 DEF StorageLost
  <2>4. faults' \in Nat
    BY <1>10 DEF StorageLost, Fault
  <2>5. DOMAIN entries' = {} /\ perNode' \in [Nodes -> Nat]
    BY <1>10, <2>1 DEF StorageLost
  <2> QED
    BY <1>10, <2>3, <2>4, <2>5, FS_EmptySet DEF StorageLost, Finite
<1>11. CASE Restore
  <2> DEFINE kept == {a \in DOMAIN entries : Restored(a)}
  <2>1. kept \in SUBSET DOMAIN entries /\ DOMAIN <<>> = {}
    OBVIOUS
  <2>2. /\ entries' = [a \in kept |-> (TsOf[a] + W + 1 - Wall) * TICKS]
        /\ perNode' = [n \in Nodes |-> Cardinality({a \in kept : NodeOf[a] = n})]
        /\ mono' = 0 /\ epoch' = epoch + mono
        /\ lastWall' = Wall /\ pausedUntil' = 0
        /\ used' = <<>> /\ sincePrune' = 0
        /\ session' = [a \in Auths |-> None]
        /\ task' = [t \in Tasks |-> Idle]
        /\ faults' = faults + 1
        /\ UNCHANGED <<accepted, claimed, load>>
    BY <1>11 DEF Restore, Fault
  <2>3. steady' \in BOOLEAN
    BY <1>11 DEF Restore
  <2>4. ASSUME NEW a \in kept PROVE (TsOf[a] + W + 1 - Wall) * TICKS \in Nat
    <3>1. a \in Auths /\ Wall \in Int /\ TsOf[a] + W + 1 - Wall > 0
      BY <2>4, WallType DEF Restored
    <3>2. TsOf[a] + W + 1 - Wall \in Nat /\ TICKS \in Nat
      BY <3>1, AdmissionAssumption
    <3> DEFINE x == TsOf[a] + W + 1 - Wall
    <3> HIDE DEF x
    <3>3. x * TICKS \in Nat
      BY <3>2 DEF x
    <3> QED
      BY <3>3 DEF x
  <2> HIDE DEF kept
  <2>5. IsFiniteSet(kept)
    BY <2>1, FS_Subset DEF Finite
  <2>6. ASSUME NEW n \in Nodes
        PROVE  Cardinality({a \in kept : NodeOf[a] = n}) \in Nat
    <3>1. {a \in kept : NodeOf[a] = n} \in SUBSET kept
      OBVIOUS
    <3>2. IsFiniteSet({a \in kept : NodeOf[a] = n})
      BY <2>5, <3>1, FS_Subset
    <3> QED
      BY <3>2, FS_CardinalityType
  <2>7. DOMAIN entries' = kept /\ \A a \in DOMAIN entries' : entries'[a] \in Nat
    BY <2>2, <2>4
  <2>8. DOMAIN used' = {}
    BY <2>1, <2>2
  <2>9. perNode' \in [Nodes -> Nat] /\ task' \in [Tasks -> Readings]
    BY <2>2, <2>6 DEF Readings
  <2>10. lastWall' \in Nat \cup {None} /\ faults' \in Nat
    BY <2>2, WallType
  <2>11. Finite' /\ DOMAIN entries' \subseteq Auths
    BY <2>1, <2>5, <2>7, <2>8, FS_EmptySet DEF Finite
  <2> QED
    BY <2>2, <2>3, <2>7, <2>8, <2>9, <2>10, <2>11
<1>12. CASE Tick
  BY <1>12 DEF Tick, Finite
<1>13. ASSUME NEW d \in Steps, AdjustWall(d)
       PROVE  TypeOK' /\ Finite'
  <2>1. d \in Int /\ epoch + d >= 0 /\ epoch' = epoch + d /\ faults' = faults + 1
    BY <1>13, AdmissionAssumption DEF AdjustWall, Fault
  <2>2. epoch' \in Nat /\ faults' \in Nat
    BY <2>1
  <2> QED
    BY <1>13, <2>2, Zenon DEF AdjustWall, Finite
<1>14. CASE UNCHANGED vars
  BY <1>14, SMTT(120) DEF vars, Finite
<1> QED
  BY <1>1, <1>2, <1>3, <1>5, <1>7, <1>8, <1>9, <1>10, <1>11, <1>12, <1>13, <1>14, Zenon
     DEF Next
============================================================================
