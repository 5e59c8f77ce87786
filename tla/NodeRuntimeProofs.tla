-------------------------- MODULE NodeRuntimeProofs --------------------------
(***************************************************************************)
(* Proofs about NodeRuntime, for any number of Hubs, callers, sessions and *)
(* faults: a Hub has at most one supervisor loop, and what a loop          *)
(* withdraws from selection is dead.  NodeRuntimeLemmas has the invariant. *)
(***************************************************************************)
EXTENDS NodeRuntimeLemmas

LEMMA MoveTypes ==
  ASSUME TypeOK, NEW t \in Tasks, NEW pc \in TaskStates, NEW cur \in 0 .. made', Goto(t, pc, cur),
         made' \in 0 .. MaxSessions, made <= made', sess' \in [Sessions -> SessionRecords],
         hubs' \in [Hubs -> 0 .. made'],
         up' \subseteq Hubs, known' \subseteq 1 .. made', faults' \in Nat,
         UNCHANGED <<supervised, place, stop, flow, load>>
  PROVE  TypeOK' /\ Moved(t, pc, cur)
<1>1. made \in Nat /\ made' \in Nat /\ 0 .. made \subseteq 0 .. made'
  BY TaskNumbers, SMTT(120) DEF TypeOK
<1>2. task' \in [Tasks -> TaskRecords(made')] /\ Moved(t, pc, cur)
  BY <1>1, GotoMoves
<1>3. flow' \in [pc : {"none", "gather", "chosen", "open"}, seen : Seq(Candidates),
                hub : Hubs \cup {NoHub}, cur : 0 .. made']
  BY <1>1, SMTT(120) DEF TypeOK
<1> QED
  BY <1>2, <1>3, SMTT(120) DEF TypeOK, TaskRecords

(* establish: what each of its outcomes does to the task and to hubs. *)
LEMMA EstablishEffect ==
  ASSUME IInv, NEW t \in Tasks,
         SecretUnreadable(t) \/ DialFails(t) \/ Dialed(t) \/ HelloFails(t) \/ Established(t)
  PROVE  /\ TypeOK' /\ task[t].pc \in {"dial", "hello"}
         /\ UNCHANGED <<supervised, place, load, stop>> /\ SessionsKept /\ StayDead
         /\ \E pc \in TaskStates, cur \in 0 .. made' :
              /\ Moved(t, pc, cur)
              /\ \/ pc = "hello" /\ hubs' = hubs
                 \/ /\ IF t \in Loops THEN pc \in {"lost", "ended"}
                                      ELSE pc = (IF t = Start THEN "retry" ELSE "done")
                    /\ hubs' = hubs
                 \/ /\ pc = (IF t \in Loops THEN "watch" ELSE "supervise")
                    /\ hubs' = [hubs EXCEPT ![task[t].hub] = cur]
              /\ pc \in {"hello", "watch", "supervise"} =>
                   cur # None /\ sess'[cur].hub = task[t].hub
<1> USE DEF world, runtime
<1>0. /\ TypeOK /\ made \in Nat /\ made <= MaxSessions /\ MaxSessions \in Nat /\ 0 \in 0 .. made
      /\ hubs \in [Hubs -> 0 .. made] /\ up \subseteq Hubs /\ known \subseteq 1 .. made /\ faults \in Nat
      /\ sess \in [Sessions -> SessionRecords] /\ made <= made /\ made \in 0 .. MaxSessions
  BY TaskNumbers, SMTT(120) DEF IInv, TypeOK
<1>1. CASE SecretUnreadable(t) \/ DialFails(t) \/ HelloFails(t)
  <2>1. PICK terminal \in BOOLEAN : EstablishFails(t, terminal)
    BY <1>1, Zenon DEF SecretUnreadable, DialFails, HelloFails
  <2>2. /\ UNCHANGED <<up, known, sess, made, hubs, supervised, stop, place, flow, load>>
        /\ task[t].pc \in {"dial", "hello"} /\ faults' \in Nat
    <3>1. Fault \/ UNCHANGED faults
      BY <1>1, Zenon DEF SecretUnreadable, DialFails, HelloFails
    <3>2. faults' \in Nat
      BY <1>0, <3>1 DEF Fault
    <3>3. task[t].pc \in {"dial", "hello"}
      BY <1>1, Zenon DEF SecretUnreadable, DialFails, HelloFails, At
    <3>4. UNCHANGED <<up, known, sess, made, hubs, supervised, stop, place, flow, load>>
      BY <1>1, Zenon DEF SecretUnreadable, DialFails, HelloFails
    <3> QED
      BY <3>2, <3>3, <3>4, Zenon
  <2> DEFINE pc == AfterError(t, terminal)
  <2>3. /\ pc \in TaskStates /\ pc \notin {"hello", "watch", "supervise"}
        /\ IF t \in Loops THEN pc \in {"lost", "ended"}
                          ELSE pc = (IF t = Start THEN "retry" ELSE "done")
    BY DEF AfterError, TaskStates
  <2>4. Goto(t, pc, None)
    BY <2>1 DEF EstablishFails
  <2> HIDE DEF pc
  <2>5. None \in 0 .. made' /\ made' = made
    BY <1>0, <2>2, Zenon DEF None
  <2>6. TypeOK' /\ Moved(t, pc, None)
    BY <1>0, <2>2, <2>3, <2>4, <2>5, MoveTypes, Zenon
  <2>7. SessionsKept /\ StayDead
    BY <1>0, <2>2, StillSessions, Zenon
  <2> QED
    BY <2>2, <2>3, <2>5, <2>6, <2>7, SMTT(120)
<1>2. CASE Dialed(t)
  <2> DEFINE n == made + 1
             h == task[t].hub
             m == [NoSession EXCEPT !.hub = h]
             r == [m EXCEPT !.st = "pending"]
  <2>1. /\ task[t].pc = "dial" /\ made' = n /\ n <= MaxSessions /\ n \in Nat /\ n \in Sessions
        /\ sess' = [sess EXCEPT ![n] = r] /\ known' = known \cup {n} /\ Goto(t, "hello", n)
        /\ UNCHANGED <<up, faults, hubs, supervised, stop, place, flow, load>>
    BY <1>0, <1>2 DEF Dialed, At, Sessions
  <2>2. h \in Hubs
    BY <2>1 DEF IInv, Shaped
  <2>3. r \in SessionRecords /\ r.hub = h
    <3>1. 0 \in 0 .. MaxLists
      BY TaskNumbers
    <3>2. m \in SessionRecords /\ m.hub = h
      BY <2>2, <3>1, Zenon DEF NoSession, SessionRecords
    <3> HIDE DEF m
    <3> QED
      BY <3>2 DEF SessionRecords
  <2> HIDE DEF r, h
  <2>4. sess' \in [Sessions -> SessionRecords] /\ sess'[n].hub = h
    BY <1>0, <2>1, <2>3, SMTT(120)
  <2>5. /\ known' \subseteq 1 .. made' /\ made' \in 0 .. MaxSessions /\ made <= made'
        /\ n \in 0 .. made' /\ n # None /\ hubs' \in [Hubs -> 0 .. made']
    <3>1. /\ made' \in 0 .. MaxSessions /\ made <= made' /\ n \in 0 .. made' /\ n # None
          /\ n \in 1 .. made' /\ 1 .. made \subseteq 1 .. made' /\ 0 .. made \subseteq 0 .. made'
      <4>1. made \in Nat /\ MaxSessions \in Nat /\ made' = made + 1 /\ made + 1 <= MaxSessions
        BY <1>0, <2>1, Zenon
      <4> QED
        BY <4>1, SMT DEF None
    <3> HIDE DEF n
    <3>2. known' \subseteq 1 .. made'
      BY <1>0, <2>1, <3>1, Zenon
    <3>3. hubs' \in [Hubs -> 0 .. made']
      <4>1. hubs' = hubs /\ hubs \in [Hubs -> 0 .. made] /\ 0 .. made \subseteq 0 .. made'
        BY <1>0, <2>1, <3>1, Zenon
      <4> HIDE <1>0, <2>1, <3>1
      <4> QED
        BY <4>1, SMT
    <3> QED
      BY <3>1, <3>2, <3>3, Zenon
  <2>6. TypeOK' /\ Moved(t, "hello", n)
    <3>1. "hello" \in TaskStates
      BY Zenon DEF TaskStates
    <3>2. /\ up' \subseteq Hubs /\ faults' \in Nat /\ Goto(t, "hello", n)
          /\ UNCHANGED <<supervised, place, stop, flow, load>>
      BY <1>0, <2>1, Zenon
    <3> HIDE DEF n
    <3> QED
      BY <1>0, <2>4, <2>5, <3>1, <3>2, MoveTypes, Zenon
  <2>7. \A s \in 1 .. made : sess'[s] = sess[s]
    BY <1>0, <2>1, SessionRange, SMTT(120)
  <2>8. SessionsKept /\ StayDead
    BY <2>7, SMTT(120) DEF SessionsKept, StayDead, Dead
  <2> QED
    BY <2>1, <2>4, <2>5, <2>6, <2>8, SMTT(120) DEF h, TaskStates
<1>3. CASE Established(t)
  <2> DEFINE c  == task[t].cur
             pc == IF t \in Loops THEN "watch" ELSE "supervise"
  <2>1. /\ task[t].pc = "hello" /\ Goto(t, pc, c)
        /\ hubs' = [hubs EXCEPT ![task[t].hub] = c]
        /\ UNCHANGED <<up, known, faults, sess, made, supervised, stop, place, flow, load>>
    BY <1>3, SMTT(120) DEF Established, At
  <2>2. c \in 0 .. made /\ c # None /\ sess[c].hub = task[t].hub /\ task[t].hub \in Hubs
    BY <2>1, SMTT(120) DEF IInv, Shaped, TypeOK, TaskRecords
  <2>3. hubs' \in [Hubs -> 0 .. made'] /\ pc \in TaskStates
    BY <1>0, <2>1, <2>2, Zenon DEF TaskStates
  <2> HIDE DEF pc, c
  <2>4. TypeOK' /\ Moved(t, pc, c)
    BY <1>0, <2>1, <2>2, <2>3, MoveTypes, Zenon
  <2>5. SessionsKept /\ StayDead
    BY <1>0, <2>1, StillSessions, SMTT(120)
  <2> QED
    BY <2>1, <2>2, <2>3, <2>4, <2>5, Zenon DEF pc
<1> QED
  BY <1>1, <1>2, <1>3, SMTT(120)

LEMMA EstablishInv ==
  ASSUME IInv, NEW t \in Tasks,
         SecretUnreadable(t) \/ DialFails(t) \/ Dialed(t) \/ HelloFails(t) \/ Established(t)
  PROVE  IInv'
<1>1. /\ TypeOK' /\ task[t].pc \in {"dial", "hello"}
      /\ UNCHANGED <<supervised, place, load, stop>> /\ SessionsKept /\ StayDead
  BY EstablishEffect, Zenon
<1>2. PICK pc \in TaskStates, cur \in 0 .. made' :
        /\ Moved(t, pc, cur)
        /\ \/ pc = "hello" /\ hubs' = hubs
           \/ /\ IF t \in Loops THEN pc \in {"lost", "ended"}
                                ELSE pc = (IF t = Start THEN "retry" ELSE "done")
              /\ hubs' = hubs
           \/ /\ pc = (IF t \in Loops THEN "watch" ELSE "supervise")
              /\ hubs' = [hubs EXCEPT ![task[t].hub] = cur]
        /\ pc \in {"hello", "watch", "supervise"} =>
             cur # None /\ sess'[cur].hub = task[t].hub
  BY EstablishEffect, Zenon
<1>3. task[t].hub \in Hubs /\ hubs \in [Hubs -> 0 .. made]
  BY <1>1, Zenon DEF IInv, Shaped, TypeOK
<1>4. CASE t \in Loops
  <2> DEFINE h == task[t].hub
  <2>1. pc \in LoopStates \ {"none"} /\ task[t].pc # "none"
    BY <1>1, <1>2, <1>4, SMTT(120) DEF LoopStates
  <2>2. Alone => hubs[h] = None
    BY <1>1, <1>3, <1>4, OwnLoop, SMTT(120)
  <2>3. \A g \in Hubs : g # h => hubs'[g] = hubs[g]
    BY <1>2, <1>3, SMTT(120)
  <2>4. hubs'[h] = hubs[h] \/ (pc = "watch" /\ hubs'[h] = cur)
    BY <1>2, <1>3, <1>4, SMTT(120)
  <2>5. hubs[h] # None => sess'[hubs[h]].hub = h
    <3>1. hubs[h] # None => hubs[h] \in 1 .. made
      BY <1>3, SessionRange, SMTT(120) DEF None, IInv
    <3> QED
      BY <1>1, <1>3, <3>1, SMTT(120) DEF IInv, Shaped, SessionsKept
  <2>6. hubs'[h] # None => sess'[hubs'[h]].hub = h
    BY <1>2, <2>4, <2>5, SMTT(120)
  <2>7. pc \in {"hello", "watch", "check"} => cur # None /\ sess'[cur].hub = h
    BY <1>2, <1>4, SMTT(120)
  <2>8. Alone /\ hubs'[h] # None => pc \in {"watch", "check"} /\ cur = hubs'[h]
    BY <2>2, <2>4, SMTT(120)
  <2>9. \A s \in 1 .. made : sess[s].hub # h /\ Dead(s) => Dead(s)'
    BY <1>1, SMTT(120) DEF StayDead
  <2>10. Placed' /\ Shaped' /\ Single' /\ Solo' /\ SelectableIsWatched'
    BY <1>1, <1>2, <1>4, <2>1, <2>3, <2>6, <2>7, <2>8, <2>9, LoopMoves, Zenon
  <2> QED
    BY <1>1, <2>10, SMTT(120) DEF IInv
<1>5. CASE t \notin Loops
  <2>1. Placed' /\ Shaped' /\ Single' /\ Solo' /\ SelectableIsWatched'
    BY <1>1, <1>2, <1>5, CallerMoves, SMTT(120)
  <2> QED
    BY <1>1, <2>1, SMTT(120) DEF IInv
<1> QED
  BY <1>4, <1>5, SMTT(120)

(* The loop waits, stops, tries again or withdraws: the sessions stay. *)
LEMMA LoopQuiet ==
  ASSUME IInv, NEW l \in Loops,
         LoopStops(l) \/ KeepaliveDue(l) \/ Withdraw(l) \/ BackoffDue(l)
  PROVE  /\ IInv'
         /\ \A h \in Hubs : Alone /\ hubs'[h] = None /\ hubs[h] # None => Dead(hubs[h])
<1> USE DEF world, runtime
<1> DEFINE h == task[l].hub
<1>0. /\ TypeOK /\ made \in Nat /\ made \in 0 .. MaxSessions /\ 0 \in 0 .. made /\ l \in Tasks
      /\ hubs \in [Hubs -> 0 .. made] /\ up \subseteq Hubs /\ known \subseteq 1 .. made /\ faults \in Nat
      /\ sess \in [Sessions -> SessionRecords] /\ made <= made
  BY TaskNumbers, SMTT(120) DEF IInv, TypeOK
<1>1. /\ UNCHANGED <<up, known, faults, sess, made, supervised, stop, place, flow, load>>
      /\ task[l].pc \in {"watch", "pause", "lost"}
  BY SMTT(120) DEF LoopStops, KeepaliveDue, Withdraw, BackoffDue, At
<1>2. h \in Hubs /\ task[l].cur \in 0 .. made
  BY <1>0, <1>1, SMTT(120) DEF IInv, Shaped, TypeOK, TaskRecords
<1>3. task[l].pc = "watch" => task[l].cur # None /\ sess[task[l].cur].hub = h
  BY <1>0, SMTT(120) DEF IInv, Shaped
<1>4. SessionsKept /\ StayDead
  BY <1>0, <1>1, StillSessions, SMTT(120)
<1>5. Alone /\ hubs[h] # None =>
        \/ task[l].pc = "watch" /\ task[l].cur = hubs[h]
        \/ task[l].pc = "lost" /\ Dead(hubs[h])
  BY <1>1, <1>2, OwnLoop, SMTT(120)
<1>6. hubs[h] # None => sess[hubs[h]].hub = h
  BY <1>2, SMTT(120) DEF IInv, Shaped
<1>7. ASSUME NEW pc \in TaskStates, NEW cur \in 0 .. made, Goto(l, pc, cur),
             pc \in LoopStates \ {"none"},
             hubs' = hubs \/ hubs' = [hubs EXCEPT ![h] = None],
             pc \in {"hello", "watch", "check"} => cur # None /\ sess[cur].hub = h,
             Alone /\ hubs'[h] # None =>
               \/ pc \in {"watch", "check"} /\ cur = hubs'[h]
               \/ pc = "lost" /\ Dead(hubs'[h])
               \/ pc = "ended" /\ stop # Running
      PROVE  IInv'
  <2>1. hubs' \in [Hubs -> 0 .. made'] /\ cur \in 0 .. made'
    BY <1>0, <1>1, <1>2, <1>7, SMTT(120) DEF None
  <2>2. TypeOK' /\ Moved(l, pc, cur)
    BY <1>0, <1>1, <1>7, <2>1, MoveTypes, Zenon
  <2>3. \A g \in Hubs : g # h => hubs'[g] = hubs[g]
    BY <1>0, <1>2, <1>7, Zenon
  <2>4. hubs'[h] = hubs[h] \/ hubs'[h] = None
    BY <1>0, <1>2, <1>7, Zenon
  <2>5. hubs'[h] # None => sess'[hubs'[h]].hub = h
    BY <1>1, <1>6, <2>4, SMTT(120)
  <2>6. Dead(hubs'[h]) => Dead(hubs[h])'
    <3>1. task'[l].hub = task[l].hub
      BY <2>2, SMTT(120) DEF Moved
    <3> QED
      BY <1>1, <3>1, SMTT(120) DEF Dead
  <2>7. \A s \in 1 .. made : sess[s].hub # h /\ Dead(s) => Dead(s)'
    BY <1>4, SMTT(120) DEF StayDead
  <2>8. pc \in {"hello", "watch", "check"} => cur # None /\ sess'[cur].hub = h
    BY <1>1, <1>7, Zenon
  <2>9. Alone /\ hubs'[h] # None =>
          \/ pc \in {"watch", "check"} /\ cur = hubs'[h]
          \/ pc = "lost" /\ Dead(hubs[h])'
          \/ pc = "ended" /\ stop # Running
    BY <1>7, <2>6, Zenon
  <2>10. task[l].pc # "none"
    BY <1>1, SMTT(120)
  <2>11. Placed' /\ Shaped' /\ Single' /\ Solo' /\ SelectableIsWatched'
    BY <1>1, <1>4, <1>7, <2>2, <2>3, <2>5, <2>7, <2>8, <2>9, <2>10, LoopMoves, Zenon
  <2> QED
    BY <2>2, <2>11 DEF IInv
<1>8. "ended" \in TaskStates /\ "lost" \in TaskStates /\ "check" \in TaskStates
      /\ "pause" \in TaskStates /\ "dial" \in TaskStates
      /\ {"ended", "lost", "check", "pause", "dial"} \subseteq LoopStates \ {"none"}
      /\ None \in 0 .. made
  BY <1>0, SMTT(120) DEF TaskStates, LoopStates, None
<1>9. CASE LoopStops(l)
  <2>1. Goto(l, "ended", None) /\ hubs' = hubs /\ stop # Running
    BY <1>9, SMTT(120) DEF LoopStops
  <2> QED
    BY <1>7, <1>8, <2>1, Zenon
<1>10. CASE KeepaliveDue(l)
  <2>1. task[l].pc = "watch" /\ hubs' = hubs
    BY <1>10, SMTT(120) DEF KeepaliveDue, At
  <2>2. CASE sess[task[l].cur].st = "closed"
    <3>1. Goto(l, "lost", None)
      BY <1>10, <2>2, Zenon DEF KeepaliveDue
    <3>2. Dead(task[l].cur)
      BY <2>2, SMTT(120) DEF Dead
    <3>3. Alone /\ hubs'[h] # None => Dead(hubs'[h])
      BY <1>5, <2>1, <3>2, SMTT(120)
    <3> QED
      BY <1>7, <1>8, <2>1, <3>1, <3>3, Zenon
  <2>3. CASE sess[task[l].cur].st # "closed"
    <3>1. Goto(l, "check", task[l].cur)
      BY <1>10, <2>3, Zenon DEF KeepaliveDue
    <3> QED
      BY <1>2, <1>3, <1>5, <1>7, <1>8, <2>1, <3>1, SMTT(120)
  <2> QED
    BY <2>1, <2>2, <2>3, SMTT(120)
<1>11. CASE Withdraw(l)
  <2>1. task[l].pc = "lost"
    BY <1>11, Zenon DEF Withdraw, At
  <2>2. CASE stop # Running
    <3>1. Goto(l, "ended", None) /\ hubs' = hubs
      BY <1>11, <2>2, SMTT(120) DEF Withdraw
    <3> QED
      BY <1>7, <1>8, <2>2, <3>1, SMTT(120)
  <2>3. CASE stop = Running
    <3>1. Goto(l, "pause", None) /\ hubs' = [hubs EXCEPT ![h] = None]
      BY <1>11, <2>3, SMTT(120) DEF Withdraw
    <3>2. hubs'[h] = None /\ \A g \in Hubs : g # h => hubs'[g] = hubs[g]
      BY <1>0, <1>2, <3>1, SMTT(120)
    <3>3. IInv'
      BY <1>7, <1>8, <3>1, <3>2, SMTT(120)
    <3> QED
      BY <1>5, <2>1, <3>2, <3>3, SMTT(120)
  <2> QED
    BY <2>2, <2>3, Zenon
<1>12. CASE BackoffDue(l)
  <2>1. task[l].pc = "pause" /\ Goto(l, "dial", None) /\ hubs' = hubs
    BY <1>12, Zenon DEF BackoffDue, At
  <2> QED
    BY <1>5, <1>7, <1>8, <2>1, SMTT(120)
<1> QED
  BY <1>9, <1>10, <1>11, <1>12, SMTT(120)

(* The loop checks its session. *)
LEMMA LoopChecks ==
  ASSUME IInv, NEW l \in Loops, CheckPasses(l) \/ CheckFails(l)
  PROVE  IInv' /\ hubs' = hubs
<1> USE DEF world, runtime
<1> DEFINE h == task[l].hub
           c == task[l].cur
<1>0. /\ TypeOK /\ Shaped /\ made \in Nat /\ made \in 0 .. MaxSessions /\ 0 \in 0 .. made /\ l \in Tasks
      /\ hubs \in [Hubs -> 0 .. made] /\ up \subseteq Hubs /\ known \subseteq 1 .. made /\ faults \in Nat
      /\ sess \in [Sessions -> SessionRecords] /\ made <= made /\ 1 .. made \subseteq Sessions
  <2>1. TypeOK /\ Shaped
    BY DEF IInv
  <2>2. made \in Nat /\ 1 .. made \subseteq Sessions
    BY <2>1, SessionRange
  <2>3. /\ hubs \in [Hubs -> 0 .. made] /\ up \subseteq Hubs /\ known \subseteq 1 .. made /\ faults \in Nat
        /\ sess \in [Sessions -> SessionRecords] /\ made \in 0 .. MaxSessions
    BY <2>1, Zenon DEF TypeOK
  <2>4. 0 \in 0 .. made /\ made <= made
    BY <2>2, SMT
  <2>5. l \in Tasks
    BY TaskNumbers, Zenon
  <2> QED
    BY <2>1, <2>2, <2>3, <2>4, <2>5, Zenon
<1>1. PICK x \in SessionRecords :
        /\ c \in 1 .. made /\ c \in Sessions
        /\ sess' = [sess EXCEPT ![c] = x]
        /\ x.hub = sess[c].hub /\ x.st = sess[c].st
        /\ AfterCheck(l, x)
  BY <1>0, CheckEffect, SMTT(120)
<1>2. /\ UNCHANGED <<up, known, made, hubs, supervised, stop, place, flow, load>>
      /\ task[l].pc = "check"
  BY SMTT(120) DEF CheckPasses, CheckFails, At
<1>3. faults' \in Nat
  <2>1. Fault \/ UNCHANGED faults
    BY SMTT(120) DEF CheckPasses, CheckFails
  <2> QED
    BY <1>0, <2>1 DEF Fault
<1>4. h \in Hubs /\ c # None /\ sess[c].hub = h
  BY <1>0, <1>2, SMTT(120) DEF Shaped
<1>5. /\ sess' \in [Sessions -> SessionRecords] /\ sess'[c] = x
      /\ \A s \in Sessions : s # c => sess'[s] = sess[s]
  BY <1>0, <1>1, SMTT(120)
<1>6. SessionsKept /\ \A s \in 1 .. made : sess[s].hub # h /\ Dead(s) => Dead(s)'
  <2>1. SessionsKept
    BY <1>0, <1>1, <1>5, SMTT(120) DEF SessionsKept
  <2>2. ASSUME NEW s \in 1 .. made, sess[s].hub # h, Dead(s) PROVE Dead(s)'
    BY <1>0, <1>4, <1>5, <2>2, SMTT(120) DEF Dead
  <2> QED
    BY <2>1, <2>2, SMTT(120)
<1>7. hubs'[h] # None => sess'[hubs'[h]].hub = h
  <2>1. hubs[h] # None => hubs[h] \in 1 .. made /\ sess[hubs[h]].hub = h
    BY <1>0, <1>4, SMTT(120) DEF Shaped, None
  <2> QED
    BY <1>2, <1>6, <2>1, SMTT(120) DEF SessionsKept
<1>8. Alone /\ hubs[h] # None => c = hubs[h]
  BY <1>2, <1>4, OwnLoop, SMTT(120)
<1>9. CASE x.healthy
  <2>1. Goto(l, "watch", c)
    BY <1>1, <1>9, Zenon DEF AfterCheck
  <2>2. TypeOK' /\ Moved(l, "watch", c)
    <3>1. "watch" \in TaskStates
      BY Zenon DEF TaskStates
    <3>2. /\ c \in 0 .. made' /\ made' = made
      BY <1>0, <1>1, <1>2, SMT
    <3>3. /\ made' \in 0 .. MaxSessions /\ made <= made' /\ hubs' \in [Hubs -> 0 .. made']
          /\ up' \subseteq Hubs /\ known' \subseteq 1 .. made'
          /\ UNCHANGED <<supervised, place, stop, flow, load>>
      BY <1>0, <1>2, Zenon
    <3> HIDE DEF c
    <3> QED
      BY <1>0, <1>3, <1>5, <2>1, <3>1, <3>2, <3>3, MoveTypes, Zenon
  <2>3. sess'[c].hub = h
    BY <1>1, <1>4, <1>5, Zenon
  <2>4. Placed' /\ Shaped' /\ Single' /\ Solo' /\ SelectableIsWatched'
    BY <1>2, <1>4, <1>6, <1>7, <1>8, <2>2, <2>3, LoopMoves, SMTT(120) DEF LoopStates
  <2> QED
    BY <1>2, <2>2, <2>4, Zenon DEF IInv
<1>10. CASE ~x.healthy
  <2>1. Goto(l, "lost", None)
    BY <1>1, <1>10, SMTT(120) DEF AfterCheck
  <2>2. None \in 0 .. made'
    BY <1>0, <1>2, Zenon DEF None
  <2>3. TypeOK' /\ Moved(l, "lost", None)
    BY <1>0, <1>2, <1>3, <1>5, <2>1, <2>2, MoveTypes, Zenon DEF TaskStates
  <2>4. Alone /\ hubs'[h] # None => Dead(hubs[h])'
    <3>1. task'[l].hub = h
      BY <2>3, SMTT(120) DEF Moved
    <3>2. Alone /\ hubs'[h] # None => hubs'[h] = c /\ ~sess'[c].healthy
      BY <1>2, <1>5, <1>8, <1>10, SMTT(120)
    <3> QED
      BY <3>1, <3>2, SMTT(120) DEF Dead
  <2>5. Placed' /\ Shaped' /\ Single' /\ Solo' /\ SelectableIsWatched'
    BY <1>2, <1>6, <1>7, <2>3, <2>4, LoopMoves, Zenon DEF LoopStates
  <2> QED
    BY <1>2, <2>3, <2>5, Zenon DEF IInv
<1> QED
  BY <1>9, <1>10

(* Another caller of connect_hub: the behaviour is not Alone. *)
LEMMA CallInv ==
  ASSUME IInv, NEW t \in Tasks, NEW h \in Hubs, Call(t, h)
  PROVE  IInv' /\ hubs' = hubs
<1> USE DEF world, runtime
<1>0. /\ t < Start /\ -t <= load.callers /\ t \in Int
      /\ task' = [task EXCEPT ![t] = Dialing(h)]
      /\ UNCHANGED <<up, known, faults, sess, made, hubs, supervised, stop, place, flow, load>>
  BY TaskNumbers, SMTT(120) DEF Call
<1>1. /\ TypeOK /\ Placed /\ Shaped /\ Single /\ task \in [Tasks -> TaskRecords(made)]
      /\ 0 \in 0 .. made /\ Start \in Tasks /\ Loops \subseteq Tasks /\ t \notin Loops
  <2>1. TypeOK /\ Placed /\ Shaped /\ Single
    BY SMTT(120) DEF IInv
  <2>2. made \in Nat /\ 0 \in 0 .. made
    BY <2>1, SessionRange
  <2>3. task \in [Tasks -> TaskRecords(made)]
    BY <2>1, SMTT(120) DEF TypeOK
  <2>4. Start \in Tasks /\ Loops \subseteq Tasks /\ t \notin Loops
    BY <1>0, TaskNumbers, SMTT(120)
  <2> QED
    BY <2>1, <2>2, <2>3, <2>4, SMTT(120)
<1>2. ~Alone /\ t # Start
  BY <1>0, SMTT(120) DEF Alone, Start
<1>3. Dialing(h) \in TaskRecords(made) /\ Dialing(h).pc = "dial" /\ Dialing(h).hub = h
  BY <1>1, SMTT(120) DEF Dialing, TaskRecords, TaskStates, None
<1> DEFINE d == Dialing(h)
<1> HIDE DEF d
<1>4. /\ task' \in [Tasks -> TaskRecords(made)] /\ task'[t].pc = "dial" /\ task'[t].hub = h
      /\ \A u \in Tasks : u # t => task'[u] = task[u]
      /\ \A k \in Loops : task'[k] = task[k]
      /\ task'[Start] = task[Start]
  BY <1>0, <1>1, <1>2, <1>3, SMTT(120)
<1>5. TypeOK'
  BY <1>0, <1>1, <1>4, SMTT(120) DEF TypeOK
<1>6. Placed'
  BY <1>0, <1>1, <1>4, Zenon DEF Placed
<1>7. Shaped'
  BY <1>0, <1>1, <1>4, Zenon DEF Shaped, CallerStates
<1>8. Single'
  BY <1>0, <1>1, <1>4, SMTT(120) DEF Single
<1>9. Solo' /\ SelectableIsWatched'
  BY <1>0, <1>2, Zenon DEF Solo, SelectableIsWatched, Alone
<1> QED
  BY <1>0, <1>5, <1>6, <1>7, <1>8, <1>9, SMTT(120) DEF IInv

(* supervise: the caller goes on, and its Hub has a loop. *)
LEMMA SuperviseInv ==
  ASSUME IInv, NEW t \in Tasks, Supervise(t)
  PROVE  IInv' /\ hubs' = hubs
<1> DEFINE h == task[t].hub
<1>0. TypeOK /\ Placed /\ Shaped /\ Single /\ Solo /\ SelectableIsWatched
  BY SMTT(120) DEF IInv
<1>1. /\ t \notin Loops /\ h \in Hubs /\ task[t].pc \in {"supervise", "retry"}
      /\ task[t].pc = "retry" => t = Start
      /\ task' \in [Tasks -> TaskRecords(made)] /\ task'[t] = AfterConnect(t)
      /\ supervised' = supervised \cup {h}
      /\ place' = IF t = Start THEN place + 1 ELSE place
      /\ UNCHANGED <<up, known, faults, sess, made, hubs, stop, flow, load>>
  BY <1>0, SuperviseEffect, SMTT(120) DEF world
<1>2. \/ h \in supervised /\ \A u \in Tasks : u # t => task'[u] = task[u]
      \/ /\ h \notin supervised
         /\ \E l \in Loops :
              /\ task[l].pc = "none"
              /\ task'[l].pc = IF task[t].pc = "supervise" THEN "watch" ELSE "lost"
              /\ task'[l].hub = h /\ task'[l].cur = task[t].cur
              /\ \A u \in Tasks : u # t /\ u # l => task'[u] = task[u]
  BY <1>0, SuperviseEffect, Zenon
<1>3. /\ place \in 1 .. Len(HubOrder) + 1 /\ Len(HubOrder) \in Nat /\ Start \in Tasks
      /\ Loops \subseteq Tasks /\ Start \notin Loops /\ ~(Start < Start)
      /\ t = Start \/ t < Start
      /\ \A i \in 1 .. Len(HubOrder) : HubOrder[i] \in Hubs
  <2>1. ~(Start < Start)
    BY SMTT(120) DEF Start
  <2> QED
    BY <1>0, <1>1, <2>1, TaskNumbers, SMTT(120) DEF TypeOK
<1>4. t = Start => place \in 1 .. Len(HubOrder) /\ h = HubOrder[place]
  BY <1>0, <1>1, <1>3, SMTT(120) DEF Placed
<1>5. /\ task'[t].pc \in {"dial", "done"}
      /\ task'[t].pc = "dial" =>
           t = Start /\ place + 1 <= Len(HubOrder) /\ task'[t].hub = HubOrder[place + 1]
  <2>1. AfterConnect(t) = Returned \/
        (t = Start /\ place < Len(HubOrder) /\ AfterConnect(t) = Dialing(HubOrder[place + 1]))
    BY SMTT(120) DEF AfterConnect, MovesOn
  <2> QED
    BY <1>1, <1>3, <2>1, SMTT(120) DEF Returned, Dialing
<1>6. TypeOK'
  <2>1. place' \in 1 .. Len(HubOrder) + 1
    BY <1>1, <1>3, <1>4, SMTT(120)
  <2> QED
    BY <1>0, <1>1, <2>1, Zenon DEF TypeOK
<1>7. t # Start => task'[Start] = task[Start]
  BY <1>2, <1>3, SMTT(120)
<1>8. Placed'
  <2>1. CASE t = Start
    BY <1>1, <1>3, <1>5, <2>1, Zenon DEF Placed
  <2>2. CASE t # Start
    BY <1>0, <1>1, <1>7, <2>2, SMTT(120) DEF Placed
  <2> QED
    BY <2>1, <2>2
<1>9. \A u \in Tasks : u # t => task'[u] = task[u] \/
          /\ u \in Loops /\ task[u].pc = "none" /\ h \notin supervised
          /\ task'[u].pc = IF task[t].pc = "supervise" THEN "watch" ELSE "lost"
          /\ task'[u].hub = h /\ task'[u].cur = task[t].cur
  BY <1>2, SMTT(120)
<1>10. task[t].pc = "supervise" => task[t].cur # None /\ sess[task[t].cur].hub = h
  BY <1>0, SMTT(120) DEF Shaped
<1>11. Shaped'
  <2>1. (\A k \in Loops : task[k].pc \in LoopStates)'
    BY <1>0, <1>1, <1>3, <1>9, SMTT(120) DEF Shaped, LoopStates
  <2>2. (\A u \in Tasks : u < Start => task[u].pc \in CallerStates)'
    <3> SUFFICES ASSUME NEW u \in Tasks, u < Start PROVE task'[u].pc \in CallerStates
      BY SMTT(120)
    <3>1. u \notin Loops
      BY TaskNumbers
    <3> QED
      BY <1>0, <1>5, <1>9, <3>1, SMTT(120) DEF Shaped, CallerStates
  <2>3. (\A u \in Tasks : task[u].pc \notin {"none", "done"} => task[u].hub \in Hubs)'
    <3> SUFFICES ASSUME NEW u \in Tasks, task'[u].pc \notin {"none", "done"}
                 PROVE  task'[u].hub \in Hubs
      OBVIOUS
    <3>1. CASE u = t
      BY <1>3, <1>5, <3>1
    <3>2. CASE u # t
      BY <1>0, <1>1, <1>9, <3>2, SMTT(120) DEF Shaped
    <3> QED
      BY <3>1, <3>2
  <2>4. (\A u \in Tasks :
           task[u].pc \in {"hello", "supervise", "watch", "check"} =>
             task[u].cur # None /\ sess[task[u].cur].hub = task[u].hub)'
    <3> SUFFICES ASSUME NEW u \in Tasks,
                        task'[u].pc \in {"hello", "supervise", "watch", "check"}
                 PROVE  task'[u].cur # None /\ sess[task'[u].cur].hub = task'[u].hub
      BY <1>1, SMTT(120)
    <3>1. u # t
      BY <1>5, SMTT(120)
    <3>2. CASE task'[u] = task[u]
      BY <1>0, <3>2, SMTT(120) DEF Shaped
    <3>3. CASE task'[u] # task[u]
      BY <1>9, <1>10, <3>1, <3>3, SMTT(120)
    <3> QED
      BY <3>2, <3>3, SMTT(120)
  <2>5. (\A g \in Hubs : hubs[g] # None => sess[hubs[g]].hub = g)'
    BY <1>0, <1>1, SMTT(120) DEF Shaped
  <2> QED
    BY <2>1, <2>2, <2>3, <2>4, <2>5, Zenon DEF Shaped
<1>12. Single'
  <2>1. (\A l \in Loops : task[l].pc # "none" => task[l].hub \in supervised)'
    BY <1>0, <1>1, <1>3, <1>9, SMTT(120) DEF Single
  <2>2. ASSUME NEW k \in Loops, NEW l \in Loops, task'[k].pc # "none", task'[l].pc # "none",
               task'[k].hub = task'[l].hub
        PROVE  k = l
    <3>1. k # t /\ l # t /\ k \in Tasks /\ l \in Tasks
      BY <1>1, <1>3, SMTT(120)
    <3>2. CASE task'[k] = task[k] /\ task'[l] = task[l]
      BY <1>0, <2>2, <3>2, SMTT(120) DEF Single
    <3>3. CASE task'[k] # task[k] /\ task'[l] # task[l]
      BY <1>2, <3>1, <3>3, SMTT(120)
    <3>4. CASE task'[k] = task[k] /\ task'[l] # task[l]
      BY <1>0, <1>9, <2>2, <3>1, <3>4, SMTT(120) DEF Single
    <3>5. CASE task'[k] # task[k] /\ task'[l] = task[l]
      BY <1>0, <1>9, <2>2, <3>1, <3>5, SMTT(120) DEF Single
    <3> QED
      BY <3>2, <3>3, <3>4, <3>5, SMTT(120)
  <2> QED
    BY <2>1, <2>2, SMTT(120) DEF Single
<1>13. Alone => t = Start /\ h \notin supervised
  BY <1>0, <1>1, <1>3, <1>4, SMTT(120) DEF Solo
<1>14. Solo'
  <2> SUFFICES ASSUME Alone
               PROVE  /\ \A u \in Tasks : u < Start => task'[u].pc = "none"
                      /\ \A i \in DOMAIN HubOrder : i >= place' => HubOrder[i] \notin supervised'
    BY <1>1, SMTT(120) DEF Solo, Alone
  <2>1. ASSUME NEW u \in Tasks, u < Start PROVE task'[u].pc = "none"
    <3>1. u \notin Loops /\ u # t
      BY <1>3, <1>13, <2>1, TaskNumbers, SMTT(120)
    <3> QED
      BY <1>0, <1>9, <2>1, <3>1, SMTT(120) DEF Solo
  <2>2. ASSUME NEW i \in DOMAIN HubOrder, i >= place' PROVE HubOrder[i] \notin supervised'
    <3>1. i \in 1 .. Len(HubOrder) /\ DOMAIN HubOrder = 1 .. Len(HubOrder)
      BY TaskNumbers, SMTT(120)
    <3>2. place' = place + 1 /\ h = HubOrder[place] /\ place \in DOMAIN HubOrder
      BY <1>1, <1>4, <1>13, <3>1, SMTT(120)
    <3>3. i >= place /\ i # place
      BY <1>3, <2>2, <3>1, <3>2, SMTT(120)
    <3>4. HubOrder[i] # h
      BY <3>2, <3>3, RuntimeAssumption, SMTT(120)
    <3> QED
      BY <1>0, <1>1, <3>3, <3>4, SMTT(120) DEF Solo
  <2> QED
    BY <2>1, <2>2
<1>15. SelectableIsWatched'
  <2> SUFFICES ASSUME Alone, NEW g \in Hubs, hubs[g] # None
               PROVE  \E k \in Loops :
                        /\ task'[k].hub = g
                        /\ \/ task'[k].pc \in {"watch", "check"} /\ task'[k].cur = hubs[g]
                           \/ task'[k].pc = "lost" /\ Dead(hubs[g])
                           \/ task'[k].pc = "ended" /\ stop # Running
    BY <1>1, SMTT(120) DEF SelectableIsWatched, At, Alone, Dead
  <2>1. CASE At(Start, "supervise") /\ task[Start].hub = g /\ task[Start].cur = hubs[g]
    BY <1>2, <1>13, <2>1, SMTT(120) DEF At
  <2>2. ASSUME NEW k \in Loops, task[k].hub = g,
               \/ task[k].pc \in {"watch", "check"} /\ task[k].cur = hubs[g]
               \/ task[k].pc = "lost" /\ Dead(hubs[g])
               \/ task[k].pc = "ended" /\ stop # Running
        PROVE  task'[k] = task[k]
    BY <1>1, <1>3, <1>9, <2>2, Zenon
  <2> QED
    BY <1>0, <2>1, <2>2, SMTT(120) DEF SelectableIsWatched, At
<1> QED
  BY <1>1, <1>6, <1>8, <1>11, <1>12, <1>14, <1>15, Zenon DEF IInv

-----------------------------------------------------------------------------
LEMMA InitIInv == Init => IInv
<1> SUFFICES ASSUME Init PROVE IInv
  BY SMTT(120)
<1>0. /\ MaxSessions \in Nat /\ MaxLists \in Nat /\ Len(HubOrder) \in Nat /\ Len(HubOrder) > 0
      /\ HubOrder[1] \in Hubs /\ Start \in Tasks /\ Start \notin Loops /\ Loops \subseteq Tasks
      /\ ~(Start < Start)
  <2>1. ~(Start < Start)
    BY DEF Start
  <2> QED
    BY <2>1, TaskNumbers, SMTT(120)
<1>1. /\ task = [t \in Tasks |-> IF t = Start THEN Dialing(HubOrder[1]) ELSE NoTask]
      /\ hubs = [h \in Hubs |-> None] /\ made = 0 /\ supervised = {} /\ place = 1
      /\ stop = Running /\ sess = [s \in Sessions |-> NoSession] /\ flow = NoFlow
      /\ known = {} /\ up \subseteq Hubs /\ load \in Loads /\ faults = load.faults
  BY SMTT(120) DEF Init
<1>2. /\ task[Start].pc = "dial" /\ task[Start].hub = HubOrder[1]
      /\ \A t \in Tasks : t # Start => task[t].pc = "none"
  BY <1>0, <1>1, SMTT(120) DEF Dialing, NoTask
<1>3. TypeOK
  <2>1. faults \in Nat
    BY <1>1, RuntimeAssumption, SMTT(120)
  <2>2. NoSession \in SessionRecords
    BY <1>0, SMTT(120) DEF NoSession, SessionRecords
  <2>3. Dialing(HubOrder[1]) \in TaskRecords(0) /\ NoTask \in TaskRecords(0)
    BY <1>0, SMTT(120) DEF Dialing, NoTask, TaskRecords, TaskStates, None
  <2>4. task \in [Tasks -> TaskRecords(made)]
    BY <1>1, <2>3
  <2>5. flow \in [pc : {"none", "gather", "chosen", "open"}, seen : Seq(Candidates),
                  hub : Hubs \cup {NoHub}, cur : 0 .. made]
    <3>1. <<>> \in Seq(Candidates) /\ 0 \in 0 .. made
      BY <1>1
    <3> QED
      BY <1>1, <3>1, SMTT(120) DEF NoFlow, None
  <2>6. hubs \in [Hubs -> 0 .. made]
    BY <1>1 DEF None
  <2> QED
    BY <1>0, <1>1, <2>1, <2>2, <2>4, <2>5, <2>6, SMTT(120) DEF TypeOK, Running
<1>4. Placed
  BY <1>0, <1>1, <1>2, SMTT(120) DEF Placed
<1>5. Shaped
  BY <1>0, <1>1, <1>2, SMTT(120) DEF Shaped, LoopStates, CallerStates
<1>6. Single
  BY <1>0, <1>2, SMTT(120) DEF Single
<1>7. Solo
  BY <1>0, <1>1, <1>2, SMTT(120) DEF Solo
<1>8. SelectableIsWatched
  BY <1>1, SMTT(120) DEF SelectableIsWatched
<1> QED
  BY <1>3, <1>4, <1>5, <1>6, <1>7, <1>8 DEF IInv

(* The inductive step, and what a step may take out of hubs. *)
LEMMA NextIInv ==
  ASSUME IInv, [Next]_vars
  PROVE  IInv' /\ (\A h \in Hubs : Alone /\ hubs'[h] = None /\ hubs[h] # None => Dead(hubs[h]))
<1>1. CASE StillStep
  <2>1. TypeOK' /\ Still
    BY <1>1, StillRest DEF IInv
  <2> QED
    BY <2>1, StillInv, SMTT(120) DEF Still
<1>2. ASSUME NEW t \in Tasks,
             SecretUnreadable(t) \/ DialFails(t) \/ Dialed(t) \/ HelloFails(t) \/ Established(t)
      PROVE  IInv' /\ (\A h \in Hubs : hubs'[h] = None => hubs[h] = None)
  <2>1. PICK pc \in TaskStates, cur \in 0 .. made' :
          \/ hubs' = hubs
          \/ hubs' = [hubs EXCEPT ![task[t].hub] = cur] /\ cur # None
    BY <1>2, EstablishEffect, SMTT(120)
  <2>2. hubs \in [Hubs -> 0 .. made]
    BY SMTT(120) DEF IInv, TypeOK
  <2> QED
    BY <1>2, <2>1, <2>2, EstablishInv, SMTT(120)
<1>3. ASSUME NEW t \in Tasks, Supervise(t) PROVE IInv' /\ hubs' = hubs
  BY <1>3, SuperviseInv
<1>4. ASSUME NEW l \in Loops, LoopStep(l)
      PROVE  /\ IInv'
             /\ \A h \in Hubs : Alone /\ hubs'[h] = None /\ hubs[h] # None => Dead(hubs[h])
  BY <1>4, LoopQuiet, LoopChecks, SMTT(120) DEF LoopStep
<1>5. ASSUME NEW t \in Tasks, NEW h \in Hubs, Call(t, h) PROVE IInv' /\ hubs' = hubs
  BY <1>5, CallInv
<1>6. \/ StillStep
      \/ \E t \in Tasks : TaskStep(t)
      \/ \E l \in Loops : LoopStep(l)
      \/ \E t \in Tasks, h \in Hubs : Call(t, h)
  BY SMTT(120) DEF Next, StillStep
<1> QED
  BY <1>1, <1>2, <1>3, <1>4, <1>5, <1>6, SMTT(120) DEF TaskStep

LEMMA Invariance == Spec => []IInv
<1>1. IInv /\ [Next]_vars => IInv'
  BY NextIInv, SMTT(120)
<1> QED
  BY InitIInv, <1>1, PTL DEF Spec

(* node.rs NodeRuntime: its state keeps its shape. *)
THEOREM RuntimeTypes == Spec => []TypeOK
<1>1. IInv => TypeOK
  BY DEF IInv
<1> QED
  BY Invariance, <1>1, PTL

(* supervise: "At most one supervisor exists per Hub id", for any number of  *)
(* Hubs and of concurrent callers of connect_hub.                            *)
THEOREM OneSupervisor == Spec => []OneLoopPerHub
<1>1. IInv => OneLoopPerHub
  BY SMTT(120) DEF IInv, Single, OneLoopPerHub, Alive
<1> QED
  BY Invariance, <1>1, PTL

(* establish, supervise and the loop: a session in hubs is being watched.    *)
THEOREM SelectableWatched == Spec => []SelectableIsWatched
<1>1. IInv => SelectableIsWatched
  BY DEF IInv
<1> QED
  BY Invariance, <1>1, PTL

(* The loop withdraws a Hub from selection only once its session is dead.    *)
THEOREM WithdrawnAreDead == Spec => WithdrawsOnlyDead
<1>1. IInv /\ [Next]_vars =>
        [Alone => \A h \in Hubs : hubs'[h] = None /\ hubs[h] # None => Dead(hubs[h])]_vars
  BY NextIInv, SMTT(120)
<1> QED
  BY Invariance, <1>1, PTL DEF Spec, WithdrawsOnlyDead
=============================================================================
