------------------------------ MODULE Admission ------------------------------
(***************************************************************************)
(* How the Hub admits a node and its requests: authenticate with the       *)
(* NonceStore of wsnet-auth-store, verify_binding with the                 *)
(* BindProofRegistry.                                                      *)
(*                                                                         *)
(* Both read the clock first and take the registry's lock later, so calls  *)
(* reach the registries in another order than their clock readings.  An    *)
(* Auth or a proof may be presented any number of times (a candidate is    *)
(* raced on several carriers, a POST is retried).  Whatever is presented   *)
(* here is authentic: a bad MAC is refused before any registry is touched. *)
(*                                                                         *)
(* Time passes in ticks, TICKS to a second.  `mono' is the monotonic clock *)
(* of the process, and the wall clock shows whole seconds.                 *)
(***************************************************************************)
EXTENDS Integers, FiniteSets

CONSTANTS Tasks,            \* carrier tasks of the Hub
          Auths,            \* Auth messages; each has its own nonce
          Nodes,
          NodeOf,           \* the node an Auth names
          TsOf,             \* the timestamp an Auth carries
          Proofs,           \* bind proofs; each has its own bind_nonce
          SessionOf,        \* the Auth whose session a proof names
          ExpiresOf,        \* the expiry a proof carries
          TICKS,            \* clock ticks in a second
          W,                \* NonceStoreConfig::window_secs
          TOLERANCE,        \* rollback_tolerance_secs
          MARGIN,           \* STORAGE_RECOVERY_MARGIN_SECS
          PerNodeMax, GlobalMax,
          BIND_NONCE_MAX, PRUNE_INTERVAL,
          BIND_PROOF_TTL_SECS, SessionTtl,
          Loads,            \* bounds: the Auths and proofs that occur
                            \* together, and how many faults with them
          Steps,            \* adjustments of the wall clock, in ticks
          Start, MaxTime    \* bounds: the wall clock at first and at last

ASSUME AdmissionAssumption ==
  /\ NodeOf \in [Auths -> Nodes]
  /\ TsOf \in [Auths -> Nat]
  /\ SessionOf \in [Proofs -> Auths]
  /\ ExpiresOf \in [Proofs -> Nat]
  /\ TICKS \in Nat \ {0}
  /\ W \in Nat /\ TOLERANCE \in Nat /\ MARGIN \in Nat \ {0}
  /\ PerNodeMax \in Nat /\ GlobalMax \in Nat
  /\ BIND_NONCE_MAX \in Nat /\ PRUNE_INTERVAL \in Nat
  /\ BIND_PROOF_TTL_SECS \in Nat /\ SessionTtl \in Nat
  /\ Loads \subseteq [what : SUBSET (Auths \cup Proofs), faults : Nat]
  /\ Steps \subseteq Int /\ Start \in Nat /\ MaxTime \in Nat

VARIABLES load,         \* what may happen in this behaviour
          mono,         \* ticks since the process started
          epoch,        \* the wall clock at that moment, in ticks
          entries,      \* NonceStore: retained nonce |-> deadline
          perNode,      \* NonceStore: retained records of each node
          lastWall,     \* NonceStore: the highest wall time seen
          pausedUntil,  \* NonceStore: deadline of the pause, 0 for none
          used,         \* BindProofRegistry: retained nonce |-> deadline
          sincePrune,   \* BindProofRegistry: claims since the last prune
          session,      \* expiry of the session an Auth created, or None
          task,         \* what each task carries between clock and lock
          accepted,     \* how often each Auth was accepted (history)
          claimed,      \* how often each proof was accepted (history)
          steady,       \* the registries could rely on the clock (history)
          faults        \* losses, restarts and adjustments so far

clock   == <<mono, epoch>>
nonces  == <<entries, perNode, lastWall, pausedUntil, accepted>>
binds   == <<used, sincePrune, claimed>>
vars    == <<clock, nonces, binds, session, task, steady, faults, load>>

None == -1

(* What the wall clock shows, and showed or will show at another moment of   *)
(* the same process if nobody adjusts it.                                    *)
WallAt(m) == (epoch + m) \div TICKS
Wall      == WallAt(mono)

Idle    == [pc |-> "idle"]
Reading(pc, what) == [pc |-> pc, what |-> what, wall |-> Wall, mono |-> mono]
MaxOf(a, b) == IF a >= b THEN a ELSE b

Init ==
  /\ mono = 0 /\ epoch = Start
  /\ entries = <<>> /\ perNode = [n \in Nodes |-> 0]
  /\ lastWall = None /\ pausedUntil = 0
  /\ used = <<>> /\ sincePrune = 0
  /\ session = [a \in Auths |-> None]
  /\ task = [t \in Tasks |-> Idle]
  /\ accepted = [a \in Auths |-> 0]
  /\ claimed = [p \in Proofs |-> 0]
  /\ steady = TRUE /\ faults = 0
  /\ load \in Loads

-----------------------------------------------------------------------------
(* NonceStore *)
Acceptable(ts, wall) == ts - wall <= W /\ wall - ts <= W

RolledBack(wall) == lastWall # None /\ wall < lastWall - TOLERANCE

\* Mutant: the extra second is forgotten.
NonceDeadline_NoExtraSecond(a, wall, m) ==
  m + MaxOf(TsOf[a] + W - wall, 0) * TICKS

NonceDeadline(a, wall, m) == m + MaxOf(TsOf[a] + W + 1 - wall, 0) * TICKS

(* The records that purge_expired leaves. *)
Kept(m) == {a \in DOMAIN entries : entries[a] > m}

(* The count of each node, less its records that purge_expired drops. *)
CountKept(m) ==
  [n \in Nodes |->
     MaxOf(0, perNode[n] - Cardinality({a \in DOMAIN entries \ Kept(m) : NodeOf[a] = n}))]

Full(a, m) ==
  \/ Cardinality(Kept(m)) >= GlobalMax
  \/ CountKept(m)[NodeOf[a]] >= PerNodeMax

-----------------------------------------------------------------------------
(* authenticate: read the clock, check the MAC, then register the nonce. *)
AuthRead(t, a) ==
  /\ task[t] = Idle
  /\ a \in load.what
  /\ task' = [task EXCEPT ![t] = Reading("auth", a)]
  /\ UNCHANGED <<clock, nonces, binds, session, steady, faults, load>>

Registers(t) == task[t].pc = "auth"
Done(t)      == task' = [task EXCEPT ![t] = Idle]

(* TimestampOutOfWindow, ClockRollback *)
AuthOutOfTime(t) ==
  /\ Registers(t)
  /\ \/ ~Acceptable(TsOf[task[t].what], task[t].wall)
     \/ RolledBack(task[t].wall)
  /\ Done(t)
  /\ UNCHANGED <<clock, nonces, binds, session, steady, faults, load>>

InTime(t) ==
  /\ Registers(t)
  /\ Acceptable(TsOf[task[t].what], task[t].wall)
  /\ ~RolledBack(task[t].wall)
  /\ lastWall' = MaxOf(lastWall, task[t].wall)
  /\ Done(t)

(* StorageUnavailable *)
AuthPaused(t) ==
  /\ InTime(t)
  /\ task[t].mono < pausedUntil
  /\ UNCHANGED <<clock, entries, perNode, pausedUntil, accepted, binds, session, steady, faults, load>>

(* Duplicate, CapacityExceeded: only what expired was dropped. *)
AuthRefused(t) ==
  LET r == task[t] IN
  /\ InTime(t)
  /\ r.mono >= pausedUntil
  /\ r.what \in Kept(r.mono) \/ Full(r.what, r.mono)
  /\ pausedUntil' = 0
  /\ entries' = [a \in Kept(r.mono) |-> entries[a]]
  /\ perNode' = CountKept(r.mono)
  /\ UNCHANGED <<clock, accepted, binds, session, steady, faults, load>>

(* The nonce is registered and its session created.  A session's id is       *)
(* random, so a second session of one Auth is none that a proof names.       *)
AuthAccepted(t) ==
  LET r == task[t]
      a == r.what IN
  /\ InTime(t)
  /\ r.mono >= pausedUntil
  /\ a \notin Kept(r.mono)
  /\ ~Full(a, r.mono)
  /\ pausedUntil' = 0
  /\ entries' = [b \in Kept(r.mono) \cup {a} |->
                   IF b = a THEN NonceDeadline(a, r.wall, r.mono) ELSE entries[b]]
  /\ perNode' = [CountKept(r.mono) EXCEPT ![NodeOf[a]] = @ + 1]
  /\ accepted' = [accepted EXCEPT ![a] = @ + 1]
  /\ session' = IF accepted[a] > 0 THEN session
                ELSE [session EXCEPT ![a] = r.wall + SessionTtl]
  /\ UNCHANGED <<clock, binds, steady, faults, load>>

-----------------------------------------------------------------------------
(* verify_binding: session, clock, expiry and MAC, then claim the nonce. *)
BindRead(t, p) ==
  LET expires == session[SessionOf[p]] IN
  /\ task[t] = Idle
  /\ p \in load.what
  /\ expires # None
  /\ ExpiresOf[p] >= Wall
  /\ ExpiresOf[p] <= expires
  /\ ExpiresOf[p] - Wall <= BIND_PROOF_TTL_SECS
  /\ task' = [task EXCEPT ![t] = Reading("bind", p)]
  /\ UNCHANGED <<clock, nonces, binds, session, steady, faults, load>>

\* Mutant: the extra second is forgotten.
BindDeadline_NoExtraSecond(p, wall, m) == m + MaxOf(ExpiresOf[p] - wall, 0) * TICKS

BindDeadline(p, wall, m) == m + MaxOf(ExpiresOf[p] + 1 - wall, 0) * TICKS

MustPrune == Cardinality(DOMAIN used) >= BIND_NONCE_MAX \/ sincePrune >= PRUNE_INTERVAL

Unpruned(m) ==
  IF MustPrune THEN {p \in DOMAIN used : used[p] > m} ELSE DOMAIN used

BindClaim(t) ==
  LET r    == task[t]
      p    == r.what
      kept == Unpruned(r.mono)
      wins == p \notin kept /\ Cardinality(kept) < BIND_NONCE_MAX
  IN
  /\ r.pc = "bind"
  /\ used' = [q \in IF wins THEN kept \cup {p} ELSE kept |->
                IF q = p /\ wins THEN BindDeadline(p, r.wall, r.mono) ELSE used[q]]
  /\ sincePrune' = (IF MustPrune THEN 0 ELSE sincePrune) + 1
  /\ claimed' = IF wins THEN [claimed EXCEPT ![p] = @ + 1] ELSE claimed
  /\ Done(t)
  /\ UNCHANGED <<clock, nonces, session, steady, faults, load>>

-----------------------------------------------------------------------------
Fault == faults < load.faults /\ faults' = faults + 1

(* mark_storage_lost *)
StorageLost ==
  /\ Fault
  /\ entries' = <<>>
  /\ perNode' = [n \in Nodes |-> 0]
  /\ pausedUntil' = mono + (2 * W + MARGIN) * TICKS
  /\ UNCHANGED <<clock, lastWall, accepted, binds, session, task, steady, load>>

(* The records that restore does not skip. *)
Restored(a) == TsOf[a] + W + 1 - Wall > 0

(* A restart with snapshot and restore: the monotonic clock begins again,    *)
(* records are kept by their wall time, sessions and calls are gone.  A      *)
(* pause is not part of a snapshot.                                          *)
Restore ==
  LET kept == {a \in DOMAIN entries : Restored(a)} IN
  /\ Fault
  /\ mono' = 0
  /\ epoch' = epoch + mono
  /\ entries' = [a \in kept |-> (TsOf[a] + W + 1 - Wall) * TICKS]
  /\ perNode' = [n \in Nodes |-> Cardinality({a \in kept : NodeOf[a] = n})]
  /\ lastWall' = Wall
  /\ pausedUntil' = 0
  /\ used' = <<>> /\ sincePrune' = 0
  /\ session' = [a \in Auths |-> None]
  /\ task' = [t \in Tasks |-> Idle]
  /\ steady' = (steady /\ pausedUntil <= mono)
  /\ UNCHANGED <<accepted, claimed, load>>

(* The environment: time passes, and somebody sets the wall clock. *)
Tick ==
  /\ epoch + mono < MaxTime
  /\ mono' = mono + 1
  /\ UNCHANGED <<epoch, nonces, binds, session, task, steady, faults, load>>

AdjustWall(d) ==
  /\ Fault
  /\ epoch + d >= 0
  /\ epoch' = epoch + d
  /\ steady' = FALSE
  /\ UNCHANGED <<mono, nonces, binds, session, task, load>>

Next ==
  \/ \E t \in Tasks :
       \/ \E a \in Auths : AuthRead(t, a)
       \/ AuthOutOfTime(t)
       \/ AuthPaused(t)
       \/ AuthRefused(t)
       \/ AuthAccepted(t)
       \/ \E p \in Proofs : BindRead(t, p)
       \/ BindClaim(t)
  \/ StorageLost
  \/ Restore
  \/ Tick
  \/ \E d \in Steps : AdjustWall(d)

Spec == Init /\ [][Next]_vars

-----------------------------------------------------------------------------
Readings ==
  {Idle} \cup [pc : {"auth"}, what : Auths, wall : Nat, mono : Nat]
         \cup [pc : {"bind"}, what : Proofs, wall : Nat, mono : Nat]

TypeOK ==
  /\ mono \in Nat /\ epoch \in Nat
  /\ DOMAIN entries \subseteq Auths /\ \A a \in DOMAIN entries : entries[a] \in Nat
  /\ perNode \in [Nodes -> Nat]
  /\ lastWall \in Nat \cup {None} /\ pausedUntil \in Nat
  /\ DOMAIN used \subseteq Proofs /\ \A p \in DOMAIN used : used[p] \in Nat
  /\ sincePrune \in Nat
  /\ session \in [Auths -> Nat \cup {None}]
  /\ task \in [Tasks -> Readings]
  /\ accepted \in [Auths -> Nat] /\ claimed \in [Proofs -> Nat]
  /\ steady \in BOOLEAN /\ faults \in Nat /\ load \in Loads

(* A full store never evicts a valid record, and no record goes before its   *)
(* time: while an accepted Auth would still pass the timestamp check, its    *)
(* nonce is retained or authentication is paused.  register, purge_expired,  *)
(* mark_storage_lost and restore keep this together.                         *)
AcceptableIsRemembered ==
  steady =>
    \A a \in Auths :
      accepted[a] > 0 /\ Wall <= TsOf[a] + W
        => a \in DOMAIN entries \/ mono < pausedUntil

(* "exactly one caller observes Ok": register accepts an Auth a second time  *)
(* at most for a call that read the clock before a later reading reached the *)
(* store, and then only inside the rollback tolerance.                       *)
AcceptedAgainOnlyWhenStale ==
  [][steady =>
       \A a \in Auths :
         accepted[a] > 0 /\ accepted'[a] > accepted[a] =>
           \E t \in Tasks : task[t] # Idle /\ task[t].what = a
                              /\ task[t].wall < lastWall]_vars

(* A proof that was accepted stays registered for as long as it could be     *)
(* presented again, although claim prunes only now and then and refuses when *)
(* the registry is full.                                                     *)
ValidProofIsRemembered ==
  steady =>
    \A p \in Proofs :
      claimed[p] > 0 /\ Wall <= ExpiresOf[p] /\ session[SessionOf[p]] # None
        => p \in DOMAIN used
=============================================================================
