-------------------------- MODULE AdmissionProofs --------------------------
(***************************************************************************)
(* For every set of tasks, Auths and proofs, every window and clock        *)
(* resolution: as long as nobody adjusts the wall clock, a nonce is kept   *)
(* for as long as its Auth or proof could be accepted again.               *)
(***************************************************************************)
EXTENDS AdmissionLemmas

(* The inductive invariant.  While the wall clock is steady, a reading that  *)
(* is under way shows what the wall clock showed at its monotonic moment...  *)
Clocked ==
  steady =>
    /\ lastWall <= Wall
    /\ \A t \in Tasks :
         task[t].pc # "idle" =>
           task[t].mono <= mono /\ task[t].wall = (epoch + task[t].mono) \div TICKS

(* The first second at which an Auth is too old. *)
TooLate(a) == TsOf[a] + W + 1

(* ... a record is kept until that second, and an accepted Auth without a    *)
(* record is too late for every reading not older than the newest, or will   *)
(* be when the pause ends ...                                                *)
NoncesKept ==
  steady =>
    /\ \A a \in DOMAIN entries : epoch + entries[a] >= TooLate(a) * TICKS
    /\ \A a \in Auths :
         accepted[a] > 0 =>
           /\ TsOf[a] <= Wall + W
           /\ \/ a \in DOMAIN entries
              \/ lastWall >= TooLate(a)
              \/ pausedUntil > 0 /\ epoch + pausedUntil >= TooLate(a) * TICKS

(* ... and likewise for proofs, which only count for a session that exists:   *)
(* only an accepted Auth has one, and nobody recreates it.                   *)
ProofsOwned ==
  /\ \A a \in Auths : session[a] # None => accepted[a] > 0
  /\ \A t \in Tasks : task[t].pc = "bind" => accepted[SessionOf[task[t].what]] > 0
  /\ \A p \in Proofs : claimed[p] > 0 => accepted[SessionOf[p]] > 0

ProofsKept ==
  steady =>
    /\ \A p \in DOMAIN used : epoch + used[p] >= (ExpiresOf[p] + 1) * TICKS
    /\ \A p \in Proofs :
         claimed[p] > 0 /\ session[SessionOf[p]] # None
           => p \in DOMAIN used \/ Wall >= ExpiresOf[p] + 1

IInv == TypeOK /\ Finite /\ Clocked /\ NoncesKept /\ ProofsOwned /\ ProofsKept

LEMMA InitIInv == Init => IInv
<1> SUFFICES ASSUME Init PROVE IInv
  OBVIOUS
<1>1. TypeOK /\ Finite
  BY InitTypes
<1>2. DOMAIN <<>> = {}
  OBVIOUS
<1>3. Clocked
  BY <1>1, WallType DEF Clocked, Init, Idle, None
<1>4. NoncesKept
  BY <1>2 DEF NoncesKept, Init
<1>5. ProofsOwned /\ ProofsKept
  BY <1>2 DEF ProofsOwned, ProofsKept, Init, Idle
<1> QED
  BY <1>1, <1>3, <1>4, <1>5 DEF IInv

(* A reading under way shows no more than the wall clock now. *)
LEMMA ReadingIsPast ==
  ASSUME TypeOK, Clocked, steady, NEW t \in Tasks, task[t].pc # "idle"
  PROVE  /\ task[t].wall <= Wall
         /\ task[t].mono <= mono
         /\ task[t].wall = (epoch + task[t].mono) \div TICKS
         /\ task[t].mono \in Nat /\ task[t].wall \in Nat
<1>1. task[t].mono \in Nat /\ task[t].wall \in Nat
  BY TaskTypes
<1>2. task[t].mono <= mono /\ task[t].wall = (epoch + task[t].mono) \div TICKS
  BY DEF Clocked
<1>3. (epoch + task[t].mono) \div TICKS <= (epoch + mono) \div TICKS
  BY <1>1, <1>2, DivMonotone DEF TypeOK
<1> QED
  BY <1>1, <1>2, <1>3 DEF Wall, WallAt

LEMMA NextClocked ==
  ASSUME IInv, [Next]_vars
  PROVE  Clocked'
<1> USE DEF IInv, clock, nonces, binds
<1> SUFFICES ASSUME steady' PROVE Clocked'
  BY DEF Clocked
<1>1. ASSUME NEW t \in Tasks,
             (\E a \in Auths : AuthRead(t, a)) \/ (\E p \in Proofs : BindRead(t, p))
      PROVE  Clocked'
  <2>1. PICK r \in Readings : /\ task' = [task EXCEPT ![t] = r]
                              /\ r.wall = Wall /\ r.mono = mono
    BY <1>1, ReadTypes, Zenon DEF AuthRead, BindRead, Reading
  <2>2. UNCHANGED <<mono, epoch, lastWall, steady>>
    BY <1>1, Zenon DEF AuthRead, BindRead
  <2>3. Wall' = Wall
    BY <2>2 DEF Wall, WallAt
  <2>4. ASSUME NEW u \in Tasks, task'[u].pc # "idle"
        PROVE  task'[u].mono <= mono /\ task'[u].wall = (epoch + task'[u].mono) \div TICKS
    BY <2>1, <2>2, <2>4 DEF Clocked, TypeOK, Wall, WallAt
  <2> QED
    BY <2>2, <2>3, <2>4 DEF Clocked
<1>2. ASSUME NEW t \in Tasks, Done(t), UNCHANGED <<mono, epoch, steady>>,
             lastWall' = lastWall \/ InTime(t)
      PROVE  Clocked'
  <2>1. Wall' = Wall
    BY <1>2 DEF Wall, WallAt
  <2>2. lastWall' <= Wall
    <3>1. CASE lastWall' = lastWall
      BY <1>2, <3>1 DEF Clocked
    <3>2. CASE InTime(t)
      <4>1. task[t].pc # "idle" /\ lastWall' = MaxOf(lastWall, task[t].wall)
        BY <3>2 DEF InTime, Registers
      <4> QED
        BY <1>2, <4>1, ReadingIsPast DEF MaxOf, Clocked
    <3> QED
      BY <1>2, <3>1, <3>2
  <2>3. ASSUME NEW u \in Tasks, task'[u].pc # "idle"
        PROVE  task'[u].mono <= mono /\ task'[u].wall = (epoch + task'[u].mono) \div TICKS
    BY <1>2, <2>3, SMTT(120) DEF Done, Idle, Clocked, TypeOK
  <2> QED
    BY <1>2, <2>1, <2>2, <2>3, SMTT(120) DEF Clocked
<1>3. CASE StorageLost \/ UNCHANGED vars
  BY <1>3, Zenon DEF StorageLost, vars, Clocked, Wall, WallAt
<1>4. CASE Restore
  <2>1. /\ epoch' + mono' = epoch + mono
        /\ lastWall' = Wall
        /\ task' = [t \in Tasks |-> Idle]
    BY <1>4 DEF Restore, TypeOK
  <2>2. Wall' = Wall /\ Wall \in Nat
    BY <2>1, WallType DEF Wall, WallAt
  <2> QED
    BY <2>1, <2>2 DEF Clocked, Idle
<1>5. CASE Tick
  <2>1. mono' = mono + 1 /\ UNCHANGED <<epoch, lastWall, task, steady>>
    BY <1>5, Zenon DEF Tick
  <2>2. (epoch + mono) \div TICKS <= (epoch + (mono + 1)) \div TICKS
    BY DivMonotone DEF TypeOK
  <2>3. /\ (epoch + mono) \div TICKS \in Int
        /\ (epoch + (mono + 1)) \div TICKS \in Int
    BY DivBounds DEF TypeOK
  <2>4. lastWall' <= Wall'
    <3>1. lastWall <= (epoch + mono) \div TICKS /\ lastWall \in Int
      BY <2>1 DEF Clocked, Wall, WallAt, TypeOK, None
    <3>2. Wall' = (epoch + (mono + 1)) \div TICKS
      BY <2>1 DEF Wall, WallAt
    <3> QED
      BY <2>1, <2>2, <2>3, <3>1, <3>2
  <2>5. ASSUME NEW u \in Tasks, task[u].pc # "idle"
        PROVE  task[u].mono <= mono' /\ task[u].wall = (epoch + task[u].mono) \div TICKS
    BY <2>1, <2>5, TaskTypes, SMTT(120) DEF Clocked, TypeOK
  <2> QED
    BY <2>1, <2>4, <2>5 DEF Clocked
<1>6. ASSUME NEW d \in Steps, AdjustWall(d) PROVE Clocked'
  BY <1>6 DEF AdjustWall
<1>7. ASSUME NEW t \in Tasks,
             \/ AuthOutOfTime(t) \/ AuthPaused(t) \/ AuthRefused(t)
             \/ AuthAccepted(t) \/ BindClaim(t)
      PROVE  Clocked'
  <2>1. Done(t) /\ UNCHANGED <<mono, epoch, steady>>
    BY <1>7, Zenon DEF AuthOutOfTime, AuthPaused, AuthRefused, AuthAccepted, BindClaim, InTime
  <2>2. lastWall' = lastWall \/ InTime(t)
    BY <1>7, Zenon DEF AuthOutOfTime, AuthPaused, AuthRefused, AuthAccepted, BindClaim
  <2> QED
    BY <1>2, <2>1, <2>2, Zenon
<1> QED
  BY <1>1, <1>3, <1>4, <1>5, <1>6, <1>7 DEF Next

(* A deadline that has passed at a moment puts the wall clock past it too.   *)
LEMMA PassedDeadline ==
  ASSUME NEW e \in Nat, NEW d \in Nat, NEW m \in Nat, NEW k \in Int,
         e + d >= k * TICKS, d <= m
  PROVE  (e + m) \div TICKS >= k
<1>1. k * TICKS \in Int
  BY AdmissionAssumption
<1>2. e + m >= k * TICKS
  BY <1>1
<1> QED
  BY <1>2, ShowsAtLeast

LEMMA TooLateType ==
  ASSUME NEW a \in Auths
  PROVE  TooLate(a) \in Nat /\ TooLate(a) = TsOf[a] + W + 1 /\ TsOf[a] \in Nat /\ W \in Nat
BY AdmissionAssumption DEF TooLate

(* purge_expired drops only records of Auths that are too late for the       *)
(* reading it purges with, and clearing the pause loses nothing either.      *)
LEMMA PurgeIsSafe ==
  ASSUME IInv, steady, NEW t \in Tasks, InTime(t), task[t].mono >= pausedUntil,
         NEW a \in Auths, accepted[a] > 0, a \notin Kept(task[t].mono)
  PROVE  lastWall' >= TooLate(a)
<1> DEFINE r == task[t]
<1>1. r.pc # "idle" /\ lastWall' = MaxOf(lastWall, r.wall)
  BY Zenon DEF InTime, Registers
<1>2. /\ r.wall \in Nat /\ r.mono \in Nat
      /\ r.wall = (epoch + r.mono) \div TICKS
  BY <1>1, ReadingIsPast, Zenon DEF IInv
<1> HIDE DEF r
<1>3. lastWall \in Int /\ epoch \in Nat /\ pausedUntil \in Nat /\ TooLate(a) \in Nat
  BY TooLateType, StateTypes, Zenon DEF IInv
<1>5. CASE a \in DOMAIN entries
  <2>0. entries[a] \in Nat /\ ~(entries[a] > r.mono)
    BY <1>5, StateTypes, Zenon DEF Kept, r, IInv
  <2>1. entries[a] \in Nat /\ entries[a] <= r.mono
    BY <1>2, <2>0
  <2>2. epoch + entries[a] >= TooLate(a) * TICKS
    BY <1>5, Zenon DEF IInv, NoncesKept
  <2>3. TooLate(a) \in Int
    BY <1>3
  <2>4. (epoch + r.mono) \div TICKS >= TooLate(a)
    BY <1>2, <1>3, <2>1, <2>2, <2>3, PassedDeadline, Zenon
  <2>5. r.wall >= TooLate(a)
    BY <1>2, <2>4, Zenon
  <2> QED
    BY <1>2, <1>3, <2>5, <1>1 DEF MaxOf
<1>6. CASE lastWall >= TooLate(a)
  BY <1>1, <1>2, <1>3, <1>6 DEF MaxOf
<1>7. CASE epoch + pausedUntil >= TooLate(a) * TICKS
  <2>1. pausedUntil <= r.mono
    BY DEF r
  <2>2. TooLate(a) \in Int
    BY <1>3
  <2>3. (epoch + r.mono) \div TICKS >= TooLate(a)
    BY <1>2, <1>3, <1>7, <2>1, <2>2, PassedDeadline, Zenon
  <2>4. r.wall >= TooLate(a)
    BY <1>2, <2>3, Zenon
  <2> QED
    BY <1>1, <1>2, <1>3, <2>4 DEF MaxOf
<1> QED
  BY <1>5, <1>6, <1>7, SMTT(120) DEF IInv, NoncesKept

LEMMA NextNoncesKept ==
  ASSUME IInv, [Next]_vars
  PROVE  NoncesKept'
<1> USE DEF clock, nonces, binds
<1> SUFFICES ASSUME steady' PROVE NoncesKept'
  BY DEF NoncesKept
<1>0. /\ TypeOK /\ Clocked /\ NoncesKept /\ Finite
      /\ Wall \in Nat /\ epoch \in Nat /\ mono \in Nat /\ pausedUntil \in Nat
      /\ lastWall \in Int /\ DOMAIN entries \subseteq Auths
      /\ accepted \in [Auths -> Nat]
  BY WallType DEF IInv, TypeOK, None
<1>1. ASSUME UNCHANGED <<mono, epoch, entries, pausedUntil, accepted, steady>>,
             lastWall' >= lastWall, lastWall' \in Int
      PROVE  NoncesKept'
  <2>1. Wall' = Wall
    BY <1>1 DEF Wall, WallAt
  <2>2. ASSUME NEW a \in Auths, accepted[a] > 0, lastWall >= TooLate(a)
        PROVE  lastWall' >= TooLate(a)
    BY <1>0, <1>1, <2>2, TooLateType
  <2> QED
    BY <1>0, <1>1, <2>1, <2>2, SMTT(120) DEF NoncesKept, TooLate
<1>2. ASSUME NEW t \in Tasks, AuthPaused(t) PROVE NoncesKept'
  <2>1. lastWall' = MaxOf(lastWall, task[t].wall) /\ task[t].pc # "idle"
    BY <1>2, SMTT(120) DEF AuthPaused, InTime, Registers
  <2>2. UNCHANGED <<mono, epoch, entries, pausedUntil, accepted, steady>>
    BY <1>2, Zenon DEF AuthPaused
  <2>3. task[t].wall \in Nat
    BY <1>0, <2>1, TaskTypes
  <2>4. lastWall' >= lastWall /\ lastWall' \in Int
    BY <1>0, <2>1, <2>3 DEF MaxOf
  <2> QED
    BY <1>1, <2>2, <2>4, Zenon
<1>3. ASSUME NEW t \in Tasks, AuthRefused(t) PROVE NoncesKept'
  <2> DEFINE kept == Kept(task[t].mono)
  <2>1. /\ InTime(t) /\ task[t].mono >= pausedUntil
        /\ entries' = [a \in kept |-> entries[a]]
        /\ UNCHANGED <<mono, epoch, accepted, steady>>
    BY <1>3, Zenon DEF AuthRefused
  <2>2. kept \subseteq DOMAIN entries
    BY DEF Kept
  <2>3. Wall' = Wall
    BY <2>1 DEF Wall, WallAt
  <2>4. ASSUME NEW a \in Auths, accepted[a] > 0, a \notin kept
        PROVE  lastWall' >= TooLate(a)
    BY <2>1, <2>4, PurgeIsSafe, SMTT(120)
  <2> HIDE DEF kept
  <2>5. \A a \in DOMAIN entries' : epoch + entries'[a] >= TooLate(a) * TICKS
    BY <1>0, <2>1, <2>2 DEF NoncesKept
  <2>6. ASSUME NEW a \in Auths, accepted'[a] > 0
        PROVE  TsOf[a] <= Wall' + W /\ (a \in DOMAIN entries' \/ lastWall' >= TooLate(a))
    BY <1>0, <2>1, <2>3, <2>4, <2>6, SMTT(120) DEF NoncesKept
  <2> QED
    BY <2>1, <2>5, <2>6 DEF NoncesKept, TooLate
<1>4. ASSUME NEW t \in Tasks, AuthAccepted(t) PROVE NoncesKept'
  <2> DEFINE kept == Kept(task[t].mono)
             a == task[t].what
             d == NonceDeadline(a, task[t].wall, task[t].mono)
  <2>1. /\ InTime(t) /\ task[t].mono >= pausedUntil
        /\ entries' = [b \in kept \cup {a} |-> IF b = a THEN d ELSE entries[b]]
        /\ accepted' = [accepted EXCEPT ![a] = @ + 1]
        /\ UNCHANGED <<mono, epoch, steady>>
    BY <1>4, Zenon DEF AuthAccepted
  <2>2. /\ kept \subseteq DOMAIN entries
        /\ task[t].pc = "auth" /\ a \in Auths
        /\ Acceptable(TsOf[a], task[t].wall)
    BY <1>0, <2>1, TaskTypes, Zenon DEF Kept, InTime, Registers
  <2>3. /\ task[t].mono \in Nat /\ task[t].wall \in Nat /\ task[t].wall <= Wall
        /\ task[t].wall = (epoch + task[t].mono) \div TICKS
    BY <1>0, <2>1, <2>2, ReadingIsPast, Zenon
  <2>4. Wall' = Wall
    BY <2>1, Zenon DEF Wall, WallAt
  <2>5. epoch + d >= TooLate(a) * TICKS
    <3> DEFINE k == TooLate(a)
               m == task[t].mono
    <3>1. k \in Int
      BY <2>2, TooLateType
    <3>2. d = m + MaxOf(k - task[t].wall, 0) * TICKS
      <4>1. TsOf[a] + W + 1 - task[t].wall = k - task[t].wall
        BY <2>2, <2>3, TooLateType, SMTT(120)
      <4> QED
        BY <4>1, Zenon DEF NonceDeadline
    <3> HIDE DEF k, d, m
    <3>3. m \in Nat /\ task[t].wall = (epoch + m) \div TICKS
      BY <2>3 DEF m
    <3>4. epoch + (m + MaxOf(k - ((epoch + m) \div TICKS), 0) * TICKS) >= k * TICKS
      BY <1>0, <3>1, <3>3, DeadlineLate, Zenon
    <3>5. epoch + d >= k * TICKS
      BY <3>2, <3>3, <3>4, Zenon
    <3> QED
      BY <3>5 DEF k
  <2>6. TsOf[a] <= Wall + W
    BY <1>0, <2>2, <2>3, TooLateType, SMTT(120) DEF Acceptable
  <2>7. ASSUME NEW b \in Auths, accepted[b] > 0, b \notin kept
        PROVE  lastWall' >= TooLate(b)
    BY <2>1, <2>7, PurgeIsSafe, SMTT(120)
  <2> HIDE DEF kept, d, a
  <2>8. \A b \in DOMAIN entries' : epoch + entries'[b] >= TooLate(b) * TICKS
    BY <1>0, <2>1, <2>2, <2>5, SMTT(120) DEF NoncesKept
  <2>9. ASSUME NEW b \in Auths, accepted'[b] > 0
        PROVE  TsOf[b] <= Wall' + W /\ (b \in DOMAIN entries' \/ lastWall' >= TooLate(b))
    <3>1. CASE b = a
      BY <2>1, <2>4, <2>6, <3>1
    <3>2. CASE b # a
      <4>1. accepted[b] > 0
        BY <1>0, <2>1, <2>2, <2>9, <3>2, SMTT(120)
      <4> QED
        BY <1>0, <2>1, <2>4, <2>7, <4>1, SMTT(120) DEF NoncesKept
    <3> QED
      BY <3>1, <3>2
  <2> QED
    BY <2>1, <2>8, <2>9, Zenon DEF NoncesKept, TooLate
<1>5. CASE StorageLost
  <2>1. /\ entries' = <<>>
        /\ pausedUntil' = mono + (2 * W + MARGIN) * TICKS
        /\ UNCHANGED <<mono, epoch, accepted, steady>>
    BY <1>5, Zenon DEF StorageLost
  <2>2. Wall' = Wall
    BY <2>1 DEF Wall, WallAt
  <2>3. DOMAIN <<>> = {}
    OBVIOUS
  <2> DEFINE k == Wall + 2 * W + MARGIN
  <2>4. k \in Nat /\ MaxOf(k - Wall, 0) = 2 * W + MARGIN /\ 2 * W + MARGIN > 0
    BY <1>0, AdmissionAssumption DEF MaxOf
  <2> HIDE DEF k
  <2>5. /\ mono + MaxOf(k - ((epoch + mono) \div TICKS), 0) * TICKS \in Nat
        /\ epoch + (mono + MaxOf(k - ((epoch + mono) \div TICKS), 0) * TICKS) >= k * TICKS
    <3>1. k \in Int
      BY <2>4
    <3> QED
      BY <1>0, <3>1, DeadlineLate, Zenon
  <2>6. pausedUntil' \in Nat /\ epoch + pausedUntil' >= k * TICKS
    BY <2>1, <2>4, <2>5 DEF Wall, WallAt
  <2>7. pausedUntil' > 0
    <3>1. (2 * W + MARGIN) * TICKS > 0
      <4>1. TICKS \in Nat /\ TICKS >= 1 /\ 2 * W + MARGIN \in Nat /\ 2 * W + MARGIN >= 1
        BY AdmissionAssumption
      <4> DEFINE x == 2 * W + MARGIN
      <4> HIDE DEF x
      <4>2. x * TICKS >= 1 * TICKS
        BY <4>1, TimesMonotone DEF x
      <4> QED
        BY <4>1, <4>2 DEF x
    <3> DEFINE x == (2 * W + MARGIN) * TICKS
    <3>2. x \in Int
      BY AdmissionAssumption
    <3> HIDE DEF x
    <3>3. pausedUntil' = mono + x /\ x > 0
      BY <2>1, <3>1 DEF x
    <3> QED
      BY <1>0, <3>2, <3>3
  <2>8. ASSUME NEW a \in Auths, accepted'[a] > 0
        PROVE  TsOf[a] <= Wall' + W /\ epoch + pausedUntil' >= TooLate(a) * TICKS
    <3>1. TsOf[a] <= Wall + W
      BY <1>0, <2>1, <2>8 DEF NoncesKept
    <3>2. TooLate(a) <= k /\ TooLate(a) \in Int
      BY <1>0, <3>1, TooLateType, AdmissionAssumption DEF k
    <3>3. TooLate(a) * TICKS <= k * TICKS
      BY <2>4, <3>2, TimesMonotone
    <3>4. TooLate(a) * TICKS \in Int /\ k * TICKS \in Int
      BY <2>4, <3>2, AdmissionAssumption
    <3> QED
      BY <1>0, <2>2, <2>6, <3>1, <3>3, <3>4
  <2> QED
    BY <2>1, <2>3, <2>7, <2>8, SMTT(120) DEF NoncesKept, TooLate
<1>6. CASE Restore
  <2> DEFINE kept == {a \in DOMAIN entries : Restored(a)}
  <2>1. /\ mono' = 0 /\ epoch' = epoch + mono
        /\ entries' = [a \in kept |-> (TsOf[a] + W + 1 - Wall) * TICKS]
        /\ lastWall' = Wall /\ accepted' = accepted
        /\ steady /\ pausedUntil <= mono
    BY <1>6, Zenon DEF Restore
  <2>2. epoch' + mono' = epoch + mono
    BY <1>0, <2>1
  <2>3. Wall' = Wall
    BY <2>2 DEF Wall, WallAt
  <2>4. ASSUME NEW a \in kept
        PROVE  epoch' + entries'[a] >= TooLate(a) * TICKS
    <3>1. a \in Auths /\ TooLate(a) - Wall > 0 /\ TooLate(a) \in Nat
      BY <1>0, <2>4, TooLateType DEF Restored, TooLate
    <3>2. MaxOf(TooLate(a) - Wall, 0) = TooLate(a) - Wall
      BY <1>0, <3>1 DEF MaxOf
    <3>3. entries'[a] = (TooLate(a) - Wall) * TICKS
      <4> HIDE DEF kept
      <4>1. entries'[a] = (TsOf[a] + W + 1 - Wall) * TICKS
        BY <2>1, <2>4, Zenon
      <4>2. TsOf[a] + W + 1 - Wall = TooLate(a) - Wall
        BY <1>0, <3>1, TooLateType
      <4> QED
        BY <4>1, <4>2, Zenon
    <3>4. epoch + mono \in Nat /\ (epoch + mono) + 0 = epoch + mono /\ 0 \in Nat
      BY <1>0
    <3>5. (epoch + mono) + (0 + MaxOf(TooLate(a) - (((epoch + mono) + 0) \div TICKS), 0) * TICKS)
            >= TooLate(a) * TICKS
      BY <3>1, <3>4, DeadlineLate
    <3>6. ((epoch + mono) + 0) \div TICKS = Wall
      BY <3>4 DEF Wall, WallAt
    <3>7. (TooLate(a) - Wall) * TICKS \in Int
      BY <1>0, <3>1, AdmissionAssumption
    <3>8. (epoch + mono) + (0 + (TooLate(a) - Wall) * TICKS) >= TooLate(a) * TICKS
      BY <3>2, <3>5, <3>6
    <3> QED
      BY <1>0, <2>1, <3>3, <3>7, <3>8
  <2>5. ASSUME NEW a \in Auths, accepted[a] > 0, a \notin kept
        PROVE  Wall >= TooLate(a)
    <3>1. CASE a \in DOMAIN entries
      BY <1>0, <2>5, <3>1, TooLateType DEF Restored
    <3>2. CASE lastWall >= TooLate(a)
      BY <1>0, <2>1, <3>2, TooLateType, SMTT(120) DEF Clocked
    <3>3. CASE epoch + pausedUntil >= TooLate(a) * TICKS
      <4>1. TooLate(a) \in Int /\ a \in Auths
        BY <2>5, TooLateType
      <4>2. (epoch + mono) \div TICKS >= TooLate(a)
        BY <1>0, <2>1, <3>3, <4>1, PassedDeadline, Zenon
      <4> QED
        BY <4>2 DEF Wall, WallAt
    <3> QED
      BY <1>0, <2>1, <2>5, <3>1, <3>2, <3>3, Zenon DEF NoncesKept
  <2>6. DOMAIN entries' = kept
    BY <2>1
  <2> HIDE DEF kept
  <2>7. ASSUME NEW a \in Auths, accepted'[a] > 0
        PROVE  TsOf[a] <= Wall' + W /\ (a \in DOMAIN entries' \/ lastWall' >= TooLate(a))
    BY <1>0, <2>1, <2>3, <2>5, <2>6, <2>7 DEF NoncesKept
  <2> QED
    BY <2>4, <2>6, <2>7 DEF NoncesKept, TooLate
<1>7. CASE Tick
  <2>1. mono' = mono + 1
        /\ UNCHANGED <<epoch, entries, pausedUntil, accepted, lastWall, steady>>
    BY <1>7, Zenon DEF Tick
  <2>2. (epoch + mono) \div TICKS <= (epoch + (mono + 1)) \div TICKS
    BY <1>0, DivMonotone
  <2>3. (epoch + (mono + 1)) \div TICKS \in Int
    BY <1>0, DivBounds
  <2>4. Wall' \in Int /\ Wall <= Wall'
    BY <2>1, <2>2, <2>3 DEF Wall, WallAt
  <2>5. ASSUME NEW a \in Auths, accepted[a] > 0
        PROVE  TsOf[a] <= Wall' + W
    BY <1>0, <2>1, <2>4, <2>5, TooLateType, SMTT(120) DEF NoncesKept
  <2> QED
    BY <1>0, <2>1, <2>5, SMTT(120) DEF NoncesKept, TooLate
<1>8. ASSUME NEW d \in Steps, AdjustWall(d) PROVE NoncesKept'
  BY <1>8 DEF AdjustWall
<1>9. ASSUME NEW t \in Tasks,
             \/ (\E a \in Auths : AuthRead(t, a)) \/ AuthOutOfTime(t)
             \/ (\E p \in Proofs : BindRead(t, p)) \/ BindClaim(t)
      PROVE  NoncesKept'
  <2>1. UNCHANGED <<mono, epoch, entries, pausedUntil, accepted, lastWall, steady>>
    BY <1>9, Zenon DEF AuthRead, AuthOutOfTime, BindRead, BindClaim
  <2>2. lastWall' >= lastWall /\ lastWall' \in Int
    BY <1>0, <2>1
  <2>3. UNCHANGED <<mono, epoch, entries, pausedUntil, accepted, steady>>
    BY <2>1, Zenon
  <2> QED
    BY <1>1, <2>2, <2>3, Zenon
<1>10. CASE UNCHANGED vars
  <2>1. UNCHANGED <<mono, epoch, entries, pausedUntil, accepted, lastWall, steady>>
    BY <1>10, Zenon DEF vars
  <2>2. lastWall' >= lastWall /\ lastWall' \in Int
    BY <1>0, <2>1
  <2>3. UNCHANGED <<mono, epoch, entries, pausedUntil, accepted, steady>>
    BY <2>1, Zenon
  <2> QED
    BY <1>1, <2>2, <2>3, Zenon
<1> QED
  BY <1>2, <1>3, <1>4, <1>5, <1>6, <1>7, <1>8, <1>9, <1>10 DEF Next

LEMMA NextProofsOwned ==
  ASSUME IInv, [Next]_vars
  PROVE  ProofsOwned'
<1> USE DEF clock, nonces, binds
<1>0. /\ TypeOK /\ ProofsOwned /\ SessionOf \in [Proofs -> Auths]
      /\ accepted \in [Auths -> Nat] /\ claimed \in [Proofs -> Nat]
      /\ session \in [Auths -> Nat \cup {None}] /\ task \in [Tasks -> Readings]
  BY AdmissionAssumption, Zenon DEF IInv, TypeOK
<1>a. \A t \in Tasks : task[t].pc = "bind" => task[t].what \in Proofs
  BY <1>0, TaskTypes
<1>1. ASSUME NEW t \in Tasks, Done(t), UNCHANGED <<session, accepted, claimed>>
      PROVE  ProofsOwned'
  <2>1. \A u \in Tasks : task'[u].pc = "bind" => task'[u] = task[u]
    BY <1>0, <1>1 DEF Done, Idle
  <2> QED
    BY <1>0, <1>1, <2>1, SMTT(120) DEF ProofsOwned
<1>2. ASSUME NEW t \in Tasks, NEW a \in Auths, AuthRead(t, a) PROVE ProofsOwned'
  <2>1. /\ task' = [task EXCEPT ![t] = Reading("auth", a)]
        /\ UNCHANGED <<session, accepted, claimed>>
    BY <1>2, Zenon DEF AuthRead
  <2>2. \A u \in Tasks : task'[u].pc = "bind" => task'[u] = task[u]
    BY <1>0, <2>1 DEF Reading
  <2> QED
    BY <1>0, <2>1, <2>2 DEF ProofsOwned
<1>3. ASSUME NEW t \in Tasks, AuthOutOfTime(t) \/ AuthPaused(t) \/ AuthRefused(t)
      PROVE  ProofsOwned'
  BY <1>1, <1>3, SMTT(120) DEF AuthOutOfTime, AuthPaused, AuthRefused, InTime
<1>4. ASSUME NEW t \in Tasks, AuthAccepted(t) PROVE ProofsOwned'
  <2> DEFINE a == task[t].what
  <2>1. /\ Done(t) /\ a \in Auths /\ claimed' = claimed
        /\ accepted' = [accepted EXCEPT ![a] = @ + 1]
        /\ \/ session' = session
           \/ session' = [session EXCEPT ![a] = task[t].wall + SessionTtl]
    BY <1>0, <1>4, TaskTypes, Zenon DEF AuthAccepted, InTime, Registers
  <2>2. \A u \in Tasks : task'[u].pc = "bind" => task'[u] = task[u]
    BY <1>0, <2>1, Zenon DEF Done, Idle
  <2> HIDE DEF a
  <2>3. \A b \in Auths : accepted'[b] \in Nat /\ (accepted[b] > 0 \/ b = a => accepted'[b] > 0)
    BY <1>0, <2>1
  <2>4. \A b \in Auths : session'[b] # None => session[b] # None \/ b = a
    BY <1>0, <2>1
  <2> QED
    BY <1>0, <1>a, <2>1, <2>2, <2>3, <2>4, SMTT(120) DEF ProofsOwned
<1>5. ASSUME NEW t \in Tasks, NEW p \in Proofs, BindRead(t, p) PROVE ProofsOwned'
  <2>1. /\ task' = [task EXCEPT ![t] = Reading("bind", p)]
        /\ session[SessionOf[p]] # None
        /\ UNCHANGED <<session, accepted, claimed>>
    BY <1>5, Zenon DEF BindRead
  <2>2. accepted[SessionOf[p]] > 0
    BY <1>0, <2>1 DEF ProofsOwned
  <2>3. \A u \in Tasks : u # t => task'[u] = task[u]
    BY <1>0, <2>1
  <2>4. task'[t].what = p
    BY <1>0, <2>1 DEF Reading
  <2> QED
    BY <1>0, <2>1, <2>2, <2>3, <2>4 DEF ProofsOwned
<1>6. ASSUME NEW t \in Tasks, BindClaim(t) PROVE ProofsOwned'
  <2> DEFINE p == task[t].what
  <2>1. /\ Done(t) /\ p \in Proofs /\ UNCHANGED <<session, accepted>>
        /\ claimed' = claimed \/ claimed' = [claimed EXCEPT ![p] = @ + 1]
        /\ accepted[SessionOf[p]] > 0
    BY <1>0, <1>6, TaskTypes, Zenon DEF BindClaim, ProofsOwned
  <2>2. \A u \in Tasks : task'[u].pc = "bind" => task'[u] = task[u]
    BY <1>0, <2>1, Zenon DEF Done, Idle
  <2> HIDE DEF p
  <2>3. \A q \in Proofs : claimed'[q] > 0 => claimed[q] > 0 \/ q = p
    BY <1>0, <2>1
  <2> QED
    BY <1>0, <2>1, <2>2, <2>3, SMTT(120) DEF ProofsOwned
<1>7. CASE StorageLost \/ Tick \/ (\E d \in Steps : AdjustWall(d)) \/ UNCHANGED vars
  <2>1. UNCHANGED <<session, accepted, claimed, task>>
    BY <1>7, SMTT(120) DEF StorageLost, Tick, AdjustWall, vars
  <2> QED
    BY <1>0, <2>1 DEF ProofsOwned
<1>8. CASE Restore
  <2>1. /\ session' = [a \in Auths |-> None] /\ task' = [t \in Tasks |-> Idle]
        /\ UNCHANGED <<accepted, claimed>>
    BY <1>8, Zenon DEF Restore
  <2> QED
    BY <1>0, <2>1, Zenon DEF ProofsOwned, Idle
<1> QED
  BY <1>2, <1>3, <1>4, <1>5, <1>6, <1>7, <1>8 DEF Next

LEMMA NextProofsKept ==
  ASSUME IInv, [Next]_vars
  PROVE  ProofsKept'
<1> USE DEF clock, nonces, binds
<1> SUFFICES ASSUME steady' PROVE ProofsKept'
  BY Zenon DEF ProofsKept
<1>0. /\ TypeOK /\ Clocked /\ ProofsOwned /\ ProofsKept
      /\ SessionOf \in [Proofs -> Auths] /\ ExpiresOf \in [Proofs -> Nat]
      /\ Wall \in Nat /\ epoch \in Nat /\ mono \in Nat
      /\ DOMAIN used \subseteq Proofs
      /\ accepted \in [Auths -> Nat] /\ claimed \in [Proofs -> Nat]
      /\ session \in [Auths -> Nat \cup {None}]
  BY AdmissionAssumption, WallType, Zenon DEF IInv, TypeOK
<1>1. ASSUME UNCHANGED <<epoch, used, claimed, session, steady>>,
             Wall' \in Int, Wall' >= Wall
      PROVE  ProofsKept'
  <2>1. ASSUME NEW p \in Proofs, Wall >= ExpiresOf[p] + 1
        PROVE  Wall' >= ExpiresOf[p] + 1
    BY <1>0, <1>1, <2>1
  <2> QED
    BY <1>0, <1>1, <2>1 DEF ProofsKept
<1>2. ASSUME UNCHANGED <<mono, epoch>>
      PROVE  Wall' = Wall /\ Wall' \in Int /\ Wall' >= Wall
  <2>1. Wall' = Wall
    BY <1>2 DEF Wall, WallAt
  <2> QED
    BY <1>0, <2>1
<1>3. ASSUME NEW t \in Tasks, AuthAccepted(t) PROVE ProofsKept'
  <2> DEFINE a == task[t].what
  <2>1. /\ UNCHANGED <<mono, epoch, used, claimed, steady>>
        /\ \/ session' = session
           \/ /\ ~(accepted[a] > 0)
              /\ session' = [session EXCEPT ![a] = task[t].wall + SessionTtl]
    BY <1>3, Zenon DEF AuthAccepted
  <2> HIDE DEF a
  <2>2. ASSUME NEW p \in Proofs, claimed[p] > 0
        PROVE  session'[SessionOf[p]] = session[SessionOf[p]]
    BY <1>0, <2>1, <2>2, Zenon DEF ProofsOwned
  <2> QED
    BY <1>0, <1>2, <2>1, <2>2, Zenon DEF ProofsKept
<1>4. ASSUME NEW t \in Tasks, BindClaim(t) PROVE ProofsKept'
  <2> DEFINE r    == task[t]
             p    == r.what
             kept == Unpruned(r.mono)
             wins == p \notin kept /\ Cardinality(kept) < BIND_NONCE_MAX
             d    == BindDeadline(p, r.wall, r.mono)
  <2>1. /\ r.pc = "bind"
        /\ used' = [q \in IF wins THEN kept \cup {p} ELSE kept |->
                      IF q = p /\ wins THEN d ELSE used[q]]
        /\ claimed' = IF wins THEN [claimed EXCEPT ![p] = @ + 1] ELSE claimed
        /\ UNCHANGED <<mono, epoch, session, steady>>
    BY <1>4, Zenon DEF BindClaim
  <2>2. /\ p \in Proofs /\ r.mono \in Nat /\ r.wall \in Nat /\ r.wall <= Wall
        /\ r.wall = (epoch + r.mono) \div TICKS
    BY <1>0, <2>1, TaskTypes, ReadingIsPast, Zenon
  <2>3. Wall' = Wall
    BY <1>2, <2>1, SMTT(120)
  <2>4. kept \subseteq DOMAIN used /\ \A q \in DOMAIN used : q \notin kept => ~(used[q] > r.mono)
    BY DEF Unpruned
  <2>5. epoch + d >= (ExpiresOf[p] + 1) * TICKS
    <3> DEFINE k == ExpiresOf[p] + 1
               m == r.mono
    <3>1. k \in Int
      BY <1>0, <2>2, SMTT(120)
    <3>2. d = m + MaxOf(k - r.wall, 0) * TICKS
      <4>1. ExpiresOf[p] + 1 - r.wall = k - r.wall
        BY <1>0, <2>2
      <4> QED
        BY <4>1, Zenon DEF BindDeadline
    <3> HIDE DEF k, d, m
    <3>3. m \in Nat /\ r.wall = (epoch + m) \div TICKS
      BY <2>2 DEF m
    <3>4. epoch + (m + MaxOf(k - ((epoch + m) \div TICKS), 0) * TICKS) >= k * TICKS
      BY <1>0, <3>1, <3>3, DeadlineLate, Zenon
    <3>5. epoch + d >= k * TICKS
      BY <3>2, <3>3, <3>4, Zenon
    <3> QED
      BY <3>5 DEF k
  <2>6. ASSUME NEW q \in DOMAIN used, q \notin kept
        PROVE  Wall >= ExpiresOf[q] + 1
    <3> DEFINE k == ExpiresOf[q] + 1
    <3>0. /\ q \in Proofs /\ used[q] \in Nat /\ ~(used[q] > r.mono)
          /\ epoch + used[q] >= k * TICKS
      BY <1>0, <2>1, <2>4, <2>6, StateTypes, Zenon DEF ProofsKept
    <3>1. k \in Int /\ used[q] \in Nat /\ epoch + used[q] >= k * TICKS
      <4>1. ExpiresOf[q] \in Nat
        BY <1>0, <3>0, Zenon
      <4>2. k \in Int
        BY <4>1
      <4> QED
        BY <3>0, <4>2, Zenon
    <3> HIDE DEF k
    <3>2. used[q] <= r.mono
      <4> DEFINE u == used[q]
                 m == r.mono
      <4>1. u \in Nat /\ m \in Nat /\ ~(u > m)
        BY <2>2, <3>0, Zenon
      <4> HIDE DEF u, m
      <4>2. u <= m
        BY <4>1
      <4> QED
        BY <4>2 DEF u, m
    <3>3. (epoch + r.mono) \div TICKS >= k
      BY <1>0, <2>2, <3>1, <3>2, PassedDeadline, Zenon
    <3>4. r.wall >= k
      BY <2>2, <3>3, Zenon
    <3>5. Wall >= k
      BY <1>0, <2>2, <3>1, <3>4, SMTT(120)
    <3> QED
      BY <3>5 DEF k
  <2> HIDE DEF wins, kept, d, p
  <2>7. \A q \in DOMAIN used' : epoch + used'[q] >= (ExpiresOf[q] + 1) * TICKS
    BY <1>0, <2>1, <2>2, <2>4, <2>5, SMTT(120) DEF ProofsKept
  <2>8. ASSUME NEW q \in Proofs, claimed'[q] > 0, session[SessionOf[q]] # None
        PROVE  q \in DOMAIN used' \/ Wall >= ExpiresOf[q] + 1
    <3>1. CASE wins /\ q = p
      BY <2>1, <3>1, SMTT(120)
    <3>2. CASE ~(wins /\ q = p)
      <4>1. claimed[q] > 0
        BY <1>0, <2>1, <2>2, <2>8, <3>2, SMTT(120)
      <4>2. q \in DOMAIN used \/ Wall >= ExpiresOf[q] + 1
        BY <1>0, <2>1, <2>8, <4>1, SMTT(120) DEF ProofsKept
      <4>3. q \in kept => q \in DOMAIN used'
        BY <2>1, Zenon
      <4> QED
        BY <2>6, <4>2, <4>3
    <3> QED
      BY <3>1, <3>2
  <2> QED
    BY <2>1, <2>3, <2>7, <2>8, SMTT(120) DEF ProofsKept
<1>5. CASE Restore
  <2>1. used' = <<>> /\ session' = [a \in Auths |-> None]
    BY <1>5, Zenon DEF Restore
  <2>2. DOMAIN <<>> = {}
    OBVIOUS
  <2> QED
    BY <1>0, <2>1, <2>2, SMTT(120) DEF ProofsKept
<1>6. CASE Tick
  <2>1. mono' = mono + 1 /\ UNCHANGED <<epoch, used, claimed, session, steady>>
    BY <1>6, Zenon DEF Tick
  <2>2. (epoch + mono) \div TICKS <= (epoch + (mono + 1)) \div TICKS
    BY <1>0, DivMonotone
  <2>3. (epoch + (mono + 1)) \div TICKS \in Int
    BY <1>0, DivBounds
  <2>4. Wall' \in Int /\ Wall <= Wall'
    BY <2>1, <2>2, <2>3 DEF Wall, WallAt
  <2>5. Wall' >= Wall
    BY <1>0, <2>4
  <2> QED
    BY <1>1, <2>1, <2>4, <2>5, Zenon
<1>7. ASSUME NEW d \in Steps, AdjustWall(d) PROVE ProofsKept'
  BY <1>7 DEF AdjustWall
<1>8. ASSUME NEW t \in Tasks,
             \/ (\E a \in Auths : AuthRead(t, a))
             \/ AuthOutOfTime(t) \/ AuthPaused(t) \/ AuthRefused(t)
             \/ (\E p \in Proofs : BindRead(t, p))
      PROVE  ProofsKept'
  <2>1. UNCHANGED <<mono, epoch, used, claimed, session, steady>>
    BY <1>8, Zenon DEF AuthRead, AuthOutOfTime, AuthPaused, AuthRefused, BindRead
  <2>2. UNCHANGED <<mono, epoch>> /\ UNCHANGED <<epoch, used, claimed, session, steady>>
    BY <2>1, Zenon
  <2> QED
    BY <1>1, <1>2, <2>2, Zenon
<1>9. CASE StorageLost \/ UNCHANGED vars
  <2>1. UNCHANGED <<mono, epoch, used, claimed, session, steady>>
    BY <1>9, Zenon DEF StorageLost, vars
  <2>2. UNCHANGED <<mono, epoch>> /\ UNCHANGED <<epoch, used, claimed, session, steady>>
    BY <2>1, Zenon
  <2> QED
    BY <1>1, <1>2, <2>2, Zenon
<1> QED
  BY <1>3, <1>4, <1>5, <1>6, <1>7, <1>8, <1>9 DEF Next

-----------------------------------------------------------------------------
LEMMA Invariance == Spec => []IInv
<1>1. ASSUME IInv, [Next]_vars
      PROVE  IInv'
  BY <1>1, NextTypes, NextClocked, NextNoncesKept, NextProofsOwned, NextProofsKept DEF IInv
<1> QED
  BY InitIInv, <1>1, PTL DEF Spec

(* The types of the two registries, their clocks and the calls under way.    *)
THEOREM AdmissionTypes == Spec => []TypeOK
BY Invariance, PTL DEF IInv

LEMMA RememberedByIInv == IInv => AcceptableIsRemembered
<1> SUFFICES ASSUME IInv, steady, NEW a \in Auths,
                    accepted[a] > 0, Wall <= TsOf[a] + W, a \notin DOMAIN entries
             PROVE  mono < pausedUntil
  BY DEF AcceptableIsRemembered
<1>1. /\ Wall \in Nat /\ epoch \in Nat /\ mono \in Nat /\ pausedUntil \in Nat
      /\ lastWall \in Int /\ lastWall <= Wall
  BY WallType, SMTT(120) DEF IInv, TypeOK, Clocked, None
<1>2. TooLate(a) \in Int /\ Wall < TooLate(a)
  BY <1>1, TooLateType
<1>3. epoch + pausedUntil >= TooLate(a) * TICKS
  BY <1>1, <1>2, SMTT(120) DEF IInv, NoncesKept
<1>4. SUFFICES ASSUME pausedUntil <= mono PROVE FALSE
  BY <1>1, SMTT(120)
<1>5. (epoch + mono) \div TICKS >= TooLate(a)
  BY <1>1, <1>2, <1>3, <1>4, PassedDeadline, Zenon
<1> QED
  BY <1>1, <1>2, <1>5 DEF Wall, WallAt

(* The nonce store forgets no Auth that the timestamp check still lets       *)
(* through, for every window, capacity, number of nodes and tick length.     *)
THEOREM NoncesAreRemembered == Spec => []AcceptableIsRemembered
BY Invariance, RememberedByIInv, PTL

(* register accepts an Auth again only for a call whose clock reading is     *)
(* older than the newest the store has seen.                                 *)
THEOREM AcceptedTwiceOnlyStale == Spec => AcceptedAgainOnlyWhenStale
<1> DEFINE Again(a) ==
             accepted[a] > 0 /\ accepted'[a] > accepted[a] =>
               \E t \in Tasks : task[t] # Idle /\ task[t].what = a /\ task[t].wall < lastWall
<1>1. ASSUME IInv, [Next]_vars, steady, NEW a \in Auths,
             accepted[a] > 0, accepted'[a] > accepted[a]
      PROVE  \E t \in Tasks : task[t] # Idle /\ task[t].what = a /\ task[t].wall < lastWall
  <2>0. /\ accepted \in [Auths -> Nat] /\ lastWall \in Int /\ epoch \in Nat
        /\ pausedUntil \in Nat /\ TypeOK /\ Clocked
    BY <1>1, SMTT(120) DEF IInv, TypeOK, None
  <2>1. accepted' # accepted
    BY <1>1, <2>0
  <2>2. PICK t \in Tasks : AuthAccepted(t)
    BY <1>1, <2>1, Zenon DEF Next, vars, clock, nonces, binds, AuthRead, AuthOutOfTime, AuthPaused,
       AuthRefused, BindRead, BindClaim, StorageLost, Restore, Tick, AdjustWall
  <2> DEFINE r == task[t]
  <2>3. /\ accepted' = [accepted EXCEPT ![r.what] = @ + 1]
        /\ InTime(t) /\ r.mono >= pausedUntil /\ r.what \notin Kept(r.mono)
        /\ r.pc = "auth" /\ Acceptable(TsOf[r.what], r.wall)
        /\ lastWall' = MaxOf(lastWall, r.wall)
    BY <2>2, Zenon DEF AuthAccepted, InTime, Registers
  <2>4. r.what = a
    <3>1. SUFFICES ASSUME r.what # a PROVE FALSE
      OBVIOUS
    <3> DEFINE b == r.what
    <3>2. accepted' = [accepted EXCEPT ![b] = @ + 1] /\ b # a
      BY <2>3, <3>1, Zenon
    <3> HIDE DEF b
    <3>3. accepted'[a] = accepted[a]
      BY <1>1, <2>0, <3>2
    <3> QED
      BY <1>1, <2>0, <3>3
  <2>5. lastWall' >= TooLate(a)
    <3>1. InTime(t) /\ task[t].mono >= pausedUntil /\ a \notin Kept(task[t].mono)
      BY <2>3, <2>4, Zenon
    <3> QED
      BY <1>1, <3>1, PurgeIsSafe, Zenon
  <2>6. /\ r.wall \in Nat /\ r # Idle /\ Acceptable(TsOf[a], r.wall)
        /\ TooLate(a) \in Nat /\ TooLate(a) = TsOf[a] + W + 1 /\ TsOf[a] \in Nat /\ W \in Nat
    BY <2>0, <2>3, <2>4, TaskTypes, TooLateType, Zenon
  <2>7. r.wall < lastWall
    <3> DEFINE w == r.wall
               k == TooLate(a)
               s == TsOf[a]
    <3>1. /\ w \in Nat /\ k \in Nat /\ s \in Nat /\ W \in Nat /\ k = s + W + 1
          /\ Acceptable(s, w) /\ lastWall \in Int
          /\ lastWall' = MaxOf(lastWall, w) /\ lastWall' >= k
      BY <2>0, <2>3, <2>5, <2>6, Zenon
    <3> HIDE DEF w, k, s
    <3>2. w < k
      BY <3>1 DEF Acceptable
    <3>3. w < lastWall
      BY <3>1, <3>2 DEF MaxOf
    <3> QED
      BY <3>3, Zenon DEF w
  <2> QED
    BY <2>4, <2>6, <2>7, Zenon
<1>2. ASSUME IInv, [Next]_vars
      PROVE  [steady => \A a \in Auths : Again(a)]_vars
  BY <1>1, <1>2, Zenon
<1> QED
  BY Invariance, <1>2, PTL DEF Spec, AcceptedAgainOnlyWhenStale

LEMMA ProofRememberedByIInv == IInv => ValidProofIsRemembered
<1> SUFFICES ASSUME IInv, steady, NEW p \in Proofs, claimed[p] > 0,
                    Wall <= ExpiresOf[p], session[SessionOf[p]] # None
             PROVE  p \in DOMAIN used
  BY DEF ValidProofIsRemembered
<1>1. Wall \in Nat /\ ExpiresOf[p] \in Nat
  BY WallType, AdmissionAssumption, Zenon DEF IInv
<1>2. p \in DOMAIN used \/ Wall >= ExpiresOf[p] + 1
  BY Zenon DEF IInv, ProofsKept
<1>3. ~(Wall >= ExpiresOf[p] + 1)
  BY <1>1
<1> QED
  BY <1>2, <1>3, Zenon

(* The bind registry forgets no accepted proof that verify_binding would     *)
(* still let through to claim.                                               *)
THEOREM ProofsAreRemembered == Spec => []ValidProofIsRemembered
BY Invariance, ProofRememberedByIInv, PTL
=============================================================================
