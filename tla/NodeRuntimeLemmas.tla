-------------------------- MODULE NodeRuntimeLemmas --------------------------
(***************************************************************************)
(* The inductive invariant of NodeRuntime, and what the steps of its tasks *)
(* preserve of it.                                                         *)
(***************************************************************************)
EXTENDS NodeRuntime, SequenceTheorems, TLAPS

(* start works on the Hub at its place in the failover order. *)
Placed ==
  /\ task[Start].pc \in {"dial", "hello", "supervise", "retry", "done"}
  /\ task[Start].pc # "done" => place <= Len(HubOrder) /\ task[Start].hub = HubOrder[place]

(* Each kind of task has its own states; a task that works on a session      *)
(* works on one of its own Hub.                                              *)
LoopStates   == {"none", "dial", "hello", "watch", "check", "lost", "pause", "ended"}
CallerStates == {"none", "dial", "hello", "supervise", "done"}

Shaped ==
  /\ \A l \in Loops : task[l].pc \in LoopStates
  /\ \A t \in Tasks : t < Start => task[t].pc \in CallerStates
  /\ \A t \in Tasks : task[t].pc \notin {"none", "done"} => task[t].hub \in Hubs
  /\ \A t \in Tasks :
       task[t].pc \in {"hello", "supervise", "watch", "check"} =>
         task[t].cur # None /\ sess[task[t].cur].hub = task[t].hub
  /\ \A h \in Hubs : hubs[h] # None => sess[hubs[h]].hub = h

(* A Hub is never unsupervised again, so it gets one loop, ever. *)
Single ==
  /\ \A l \in Loops : task[l].pc # "none" => task[l].hub \in supervised
  /\ \A k, l \in Loops :
       task[k].pc # "none" /\ task[l].pc # "none" /\ task[k].hub = task[l].hub => k = l

(* Without other callers only start supervises, in failover order. *)
Solo ==
  Alone =>
    /\ \A t \in Tasks : t < Start => task[t].pc = "none"
    /\ \A i \in DOMAIN HubOrder : i >= place => HubOrder[i] \notin supervised

IInv == TypeOK /\ Placed /\ Shaped /\ Single /\ Solo /\ SelectableIsWatched

-----------------------------------------------------------------------------
(* Task t goes to pc with session cur, and no other task moves. *)
Moved(t, pc, cur) ==
  /\ task'[t].pc = pc /\ task'[t].cur = cur /\ task'[t].hub = task[t].hub
  /\ \A u \in Tasks : u # t => task'[u] = task[u]

LEMMA TaskNumbers ==
  /\ Tasks \subseteq Int /\ Loops \subseteq Tasks /\ Start \in Tasks /\ Start \notin Loops
  /\ \A t \in Tasks : t \in Loops \/ t = Start \/ t < Start
  /\ \A t \in Loops : ~(t < Start)
  /\ MaxSessions \in Nat /\ MaxLists \in Nat
  /\ HubOrder \in Seq(Hubs) /\ Len(HubOrder) \in Nat /\ Len(HubOrder) > 0
  /\ \A i \in 1 .. Len(HubOrder) : HubOrder[i] \in Hubs
BY RuntimeAssumption DEF Tasks, Loops, Start

LEMMA GotoMoves ==
  ASSUME TypeOK, NEW t \in Tasks, NEW pc \in TaskStates, NEW n \in Nat, NEW cur \in 0 .. n,
         made <= n, Goto(t, pc, cur)
  PROVE  task' \in [Tasks -> TaskRecords(n)] /\ Moved(t, pc, cur)
<1>1. task \in [Tasks -> TaskRecords(n)]
  BY TaskNumbers, SMTT(120) DEF TypeOK, TaskRecords
<1> DEFINE r == [pc |-> pc, hub |-> task[t].hub, cur |-> cur, late |-> task[t].late]
<1>2. r \in TaskRecords(n)
  BY <1>1 DEF TaskRecords
<1>3. r.pc = pc /\ r.cur = cur /\ r.hub = task[t].hub
  OBVIOUS
<1>4. task' = [task EXCEPT ![t] = r]
  BY DEF Goto
<1> HIDE DEF r
<1> QED
  BY <1>1, <1>2, <1>3, <1>4 DEF Moved

-----------------------------------------------------------------------------
(* What a step does to the sessions: it keeps their Hubs, and brings none    *)
(* back from the dead that dead names.                                       *)
SessionsKept == \A s \in 1 .. made : sess'[s].hub = sess[s].hub
StayDead     == \A s \in 1 .. made : Dead(s) => Dead(s)'

LEMMA SessionRange == TypeOK => made \in Nat /\ 1 .. made \subseteq Sessions /\ 0 .. made \subseteq Nat
BY TaskNumbers DEF TypeOK, Sessions

LEMMA CloseEffect ==
  ASSUME TypeOK, NEW s \in 0 .. made, Close(s)
  PROVE  sess' \in [Sessions -> SessionRecords] /\ SessionsKept /\ StayDead
<1>0. /\ sess \in [Sessions -> SessionRecords] /\ made \in Nat /\ 1 .. made \subseteq Sessions
  BY SessionRange, SMTT(120) DEF TypeOK
<1>1. CASE s = None
  BY <1>0, <1>1 DEF Close, SessionsKept, StayDead, Dead
<1>2. CASE s # None
  <2>1. s \in Sessions
    BY <1>0, <1>2 DEF None
  <2> DEFINE r == [sess[s] EXCEPT !.st = "closed"]
  <2>2. r \in SessionRecords /\ r.hub = sess[s].hub /\ r.st = "closed"
    BY <1>0, <2>1 DEF SessionRecords
  <2>3. sess' = [sess EXCEPT ![s] = r]
    BY <1>2 DEF Close
  <2> HIDE DEF r
  <2> QED
    BY <1>0, <2>1, <2>2, <2>3 DEF SessionsKept, StayDead, Dead
<1> QED
  BY <1>1, <1>2

(* HelloOk, PeerList: the session was not closed and its tracker stays. *)
LEMMA TouchEffect ==
  ASSUME TypeOK, NEW s \in Sessions, NEW r \in SessionRecords,
         r.hub = sess[s].hub, r.healthy = sess[s].healthy, sess[s].st # "closed",
         sess' = [sess EXCEPT ![s] = r]
  PROVE  sess' \in [Sessions -> SessionRecords] /\ SessionsKept /\ StayDead
<1>0. /\ sess \in [Sessions -> SessionRecords] /\ made \in Nat /\ 1 .. made \subseteq Sessions
  BY SessionRange DEF TypeOK
<1> QED
  BY <1>0 DEF SessionsKept, StayDead, Dead

LEMMA HelloOkEffect ==
  ASSUME TypeOK, NEW s \in Sessions, HelloOk(s)
  PROVE  sess' \in [Sessions -> SessionRecords] /\ SessionsKept /\ StayDead
<1>0. sess[s] \in SessionRecords
  BY DEF TypeOK
<1> DEFINE r == [sess[s] EXCEPT !.st = "ready"]
<1>1. r \in SessionRecords /\ r.hub = sess[s].hub /\ r.healthy = sess[s].healthy
  BY <1>0 DEF SessionRecords
<1>2. sess' = [sess EXCEPT ![s] = r] /\ sess[s].st # "closed"
  BY DEF HelloOk
<1> HIDE DEF r
<1> QED
  BY <1>1, <1>2, TouchEffect, Zenon

LEMMA PeerListEffect ==
  ASSUME TypeOK, NEW s \in Sessions, NEW v \in 1 .. MaxLists, PeerList(s, v)
  PROVE  sess' \in [Sessions -> SessionRecords] /\ SessionsKept /\ StayDead
<1>0. sess[s] \in SessionRecords /\ MaxLists \in Nat
  BY TaskNumbers DEF TypeOK
<1> DEFINE x == IF v <= sess[s].list THEN sess[s].list ELSE v
           r == [sess[s] EXCEPT !.list = x]
<1>1. x \in 0 .. MaxLists
  BY <1>0 DEF SessionRecords
<1>2. sess' = [sess EXCEPT ![s] = r] /\ sess[s].st # "closed"
  BY Zenon DEF PeerList
<1> HIDE DEF x
<1>3. r \in SessionRecords /\ r.hub = sess[s].hub /\ r.healthy = sess[s].healthy
  BY <1>0, <1>1 DEF SessionRecords
<1> HIDE DEF r
<1> QED
  BY <1>2, <1>3, TouchEffect, Zenon

(* A health check writes the tracker of the session it probed. *)
LEMMA CheckEffect ==
  ASSUME TypeOK, Shaped, NEW l \in Loops, CheckPasses(l) \/ CheckFails(l)
  PROVE  \E x \in SessionRecords :
           /\ task[l].cur \in 1 .. made /\ task[l].cur \in Sessions
           /\ sess' = [sess EXCEPT ![task[l].cur] = x]
           /\ x.hub = sess[task[l].cur].hub /\ x.st = sess[task[l].cur].st
           /\ AfterCheck(l, x)
<1> DEFINE c == task[l].cur
<1>1. l \in Tasks /\ task[l].pc = "check"
  BY TaskNumbers DEF CheckPasses, CheckFails, At
<1>2. c \in 0 .. made /\ c # None
  BY <1>1 DEF TypeOK, Shaped, TaskRecords
<1>3. c \in 1 .. made /\ c \in Sessions
  BY <1>2, SessionRange DEF None
<1>4. sess[c] \in SessionRecords
  BY <1>3 DEF TypeOK
<1>5. CASE CheckPasses(l)
  <2>1. PICK x \in RecordSuccess(sess[c]) : sess' = [sess EXCEPT ![c] = x] /\ AfterCheck(l, x)
    BY <1>5, Zenon DEF CheckPasses
  <2>2. x \in SessionRecords /\ x.hub = sess[c].hub /\ x.st = sess[c].st
    <3>1. CASE x = [sess[c] EXCEPT !.failures = 0]
      BY <1>4, <3>1 DEF SessionRecords
    <3>2. CASE x = [sess[c] EXCEPT !.failures = 0, !.healthy = TRUE]
      <4> DEFINE m == [sess[c] EXCEPT !.failures = 0]
      <4>1. m \in SessionRecords /\ m.hub = sess[c].hub /\ m.st = sess[c].st
        BY <1>4 DEF SessionRecords
      <4>2. x = [m EXCEPT !.healthy = TRUE]
        BY <3>2
      <4> HIDE DEF m
      <4> QED
        BY <4>1, <4>2, Zenon DEF SessionRecords
    <3> QED
      BY <2>1, <3>1, <3>2 DEF RecordSuccess
  <2> QED
    BY <1>3, <2>1, <2>2, Zenon
<1>6. CASE CheckFails(l)
  <2> DEFINE b == sess[c].healthy /\ sess[c].failures + 1 < HEALTH_FAILURES_BEFORE_FAILOVER
             m == [sess[c] EXCEPT !.failures = @ + 1]
             x == RecordFailure(sess[c])
  <2>1. m \in SessionRecords /\ m.hub = sess[c].hub /\ m.st = sess[c].st /\ m.healthy = sess[c].healthy
    BY <1>4 DEF SessionRecords
  <2>2. x = [m EXCEPT !.healthy = b]
    BY <2>1 DEF RecordFailure
  <2>3. b \in BOOLEAN
    OBVIOUS
  <2>4. sess' = [sess EXCEPT ![c] = x] /\ AfterCheck(l, x)
    BY <1>6 DEF CheckFails
  <2> HIDE DEF m, b, x
  <2>5. x \in SessionRecords /\ x.hub = sess[c].hub /\ x.st = sess[c].st
    BY <2>1, <2>2, <2>3 DEF SessionRecords
  <2> QED
    BY <1>3, <2>4, <2>5, Zenon
<1> QED
  BY <1>5, <1>6

(* supervise: the caller goes on, and a Hub without a loop gets one. *)
LEMMA SuperviseEffect ==
  ASSUME TypeOK, Placed, Shaped, NEW t \in Tasks, Supervise(t)
  PROVE  /\ t \notin Loops /\ task[t].hub \in Hubs /\ task[t].pc \in {"supervise", "retry"}
         /\ task[t].pc = "retry" => t = Start
         /\ task' \in [Tasks -> TaskRecords(made)]
         /\ task'[t] = AfterConnect(t)
         /\ supervised' = supervised \cup {task[t].hub}
         /\ place' = IF t = Start THEN place + 1 ELSE place
         /\ UNCHANGED <<world, sess, made, hubs, stop, flow, load>>
         /\ \/ task[t].hub \in supervised /\ \A u \in Tasks : u # t => task'[u] = task[u]
            \/ /\ task[t].hub \notin supervised
               /\ \E l \in Loops :
                    /\ task[l].pc = "none"
                    /\ task'[l].pc = IF task[t].pc = "supervise" THEN "watch" ELSE "lost"
                    /\ task'[l].hub = task[t].hub /\ task'[l].cur = task[t].cur
                    /\ \A u \in Tasks : u # t /\ u # l => task'[u] = task[u]
<1> DEFINE h    == task[t].hub
           next == AfterConnect(t)
           new  == [pc |-> IF At(t, "supervise") THEN "watch" ELSE "lost", hub |-> h,
                    cur |-> task[t].cur, late |-> stop # Running]
<1>1. task[t].pc \in {"supervise", "retry"}
  BY DEF Supervise, At
<1>2. t \notin Loops /\ h \in Hubs /\ (task[t].pc = "retry" => t = Start)
  BY <1>1, TaskNumbers DEF Shaped, LoopStates, CallerStates
<1>3. task \in [Tasks -> TaskRecords(made)] /\ task[t].cur \in 0 .. made /\ made \in Nat
  BY SessionRange DEF TypeOK, TaskRecords
<1>4. next \in TaskRecords(made)
  <2>1. 0 \in 0 .. made
    BY <1>3
  <2>2. Returned \in TaskRecords(made) /\ \A g \in Hubs : Dialing(g) \in TaskRecords(made)
    BY <2>1 DEF Returned, Dialing, TaskRecords, TaskStates, None
  <2>3. place < Len(HubOrder) => HubOrder[place + 1] \in Hubs
    BY TaskNumbers DEF TypeOK
  <2> QED
    BY <2>2, <2>3 DEF AfterConnect, MovesOn
<1>5. new \in TaskRecords(made)
  BY <1>2, <1>3 DEF TaskRecords, TaskStates
<1>6. /\ new.pc = (IF task[t].pc = "supervise" THEN "watch" ELSE "lost")
      /\ new.hub = h /\ new.cur = task[t].cur
  BY DEF At
<1>7. /\ supervised' = supervised \cup {h}
      /\ place' = IF t = Start THEN place + 1 ELSE place
      /\ UNCHANGED <<world, sess, made, hubs, stop, flow, load>>
      /\ \/ h \in supervised /\ task' = [task EXCEPT ![t] = next]
         \/ /\ h \notin supervised
            /\ \E l \in Loops : task[l].pc = "none" /\ task' = [task EXCEPT ![t] = next, ![l] = new]
  BY DEF Supervise, At
<1> HIDE DEF next, new
<1>8. CASE h \in supervised
  BY <1>1, <1>2, <1>3, <1>4, <1>7, <1>8 DEF next
<1>9. CASE h \notin supervised
  <2>1. PICK l \in Loops : task[l].pc = "none" /\ task' = [task EXCEPT ![t] = next, ![l] = new]
    BY <1>7, <1>9
  <2>2. l # t /\ l \in Tasks
    BY <1>2, TaskNumbers
  <2>3. /\ task' \in [Tasks -> TaskRecords(made)] /\ task'[t] = next /\ task'[l] = new
        /\ \A u \in Tasks : u # t /\ u # l => task'[u] = task[u]
    BY <1>3, <1>4, <1>5, <2>1, <2>2
  <2> QED
    BY <1>1, <1>2, <1>6, <1>7, <1>9, <2>1, <2>3, SMTT(120) DEF next
<1> QED
  BY <1>8, <1>9, SMTT(120)

-----------------------------------------------------------------------------
(* The steps that move no task: flows, shutdown, drivers and Hubs. *)
StillStep ==
  \/ Gather \/ Choose \/ FlowEnds
  \/ \E h \in Hubs : Lookup(h) \/ mark_hub_offline(h) \/ HubDown(h) \/ HubUp(h)
  \/ \E s \in Sessions :
       HelloOk(s) \/ CarriersEnd(s) \/ Dropped(s) \/ HubForgets(s)
  \/ \E s \in Sessions, v \in 1 .. MaxLists : PeerList(s, v)
  \/ Shutdown \/ ShutdownCloses
  \/ UNCHANGED vars

Still ==
  /\ UNCHANGED <<task, hubs, supervised, place, load, made>>
  /\ stop # Running => stop' # Running
  /\ sess' \in [Sessions -> SessionRecords] /\ SessionsKept /\ StayDead

LEMMA StillSessions ==
  ASSUME TypeOK, sess' = sess
  PROVE  sess' \in [Sessions -> SessionRecords] /\ SessionsKept /\ StayDead
BY DEF TypeOK, SessionsKept, StayDead, Dead

LEMMA StillFlow ==
  ASSUME TypeOK, Gather \/ Choose \/ FlowEnds \/ (\E h \in Hubs : Lookup(h))
  PROVE  TypeOK' /\ Still
<1> USE DEF world, runtime
<1>1. /\ UNCHANGED <<world, sess, made, runtime, task, place, load>>
      /\ sess' = sess
  BY Zenon DEF Gather, Choose, FlowEnds, Lookup
<1>2. Still
  BY <1>1, StillSessions DEF Still
<1> DEFINE Flows == [pc : {"none", "gather", "chosen", "open"}, seen : Seq(Candidates),
                     hub : Hubs \cup {NoHub}, cur : 0 .. made]
<1>3. flow \in Flows /\ made \in Nat
  BY SessionRange DEF TypeOK
<1>4. NoFlow \in Flows
  <2>1. <<>> \in Seq(Candidates) /\ 0 \in 0 .. made
    BY <1>3
  <2> QED
    BY <2>1 DEF NoFlow, None
<1>5. flow' \in Flows
  <2>1. CASE Gather
    <3> DEFINE h   == HubOrder[Len(flow.seen) + 1]
               new == Append(flow.seen, Candidate(h))
               m   == [flow EXCEPT !.pc = "gather"]
    <3>1. flow' = [m EXCEPT !.seen = new]
      BY <2>1 DEF Gather
    <3>2. Candidate(h) \in Candidates
      BY DEF Candidate, Candidates
    <3>3. new \in Seq(Candidates)
      BY <1>3, <3>2
    <3>4. m \in Flows
      BY <1>3
    <3> HIDE DEF m, new
    <3> QED
      BY <3>1, <3>3, <3>4, SMTT(120)
  <2>2. CASE Choose
    <3>1. CASE flow' = NoFlow
      BY <1>4, <3>1
    <3>2. CASE \E i \in select_hub(flow.seen) :
                 flow' = [NoFlow EXCEPT !.pc = "chosen", !.hub = HubOrder[i]]
      <4>1. PICK i \in select_hub(flow.seen) :
                 flow' = [NoFlow EXCEPT !.pc = "chosen", !.hub = HubOrder[i]]
        BY <3>2, Zenon
      <4>2. i \in DOMAIN flow.seen /\ Len(flow.seen) = Len(HubOrder)
        BY <2>2, <4>1, Zenon DEF select_hub, FirstOf, Choose
      <4>3. HubOrder[i] \in Hubs
        BY <1>3, <4>2, TaskNumbers
      <4> DEFINE g == HubOrder[i]
                 m == [NoFlow EXCEPT !.pc = "chosen"]
      <4>4. m \in Flows
        BY <1>4
      <4>5. flow' = [m EXCEPT !.hub = g]
        BY <4>1
      <4> HIDE DEF m, g
      <4> QED
        BY <4>3, <4>4, <4>5 DEF g
    <3> QED
      BY <2>2, <3>1, <3>2, Zenon DEF Choose
  <2>3. CASE FlowEnds
    BY <1>4, <2>3 DEF FlowEnds
  <2>4. ASSUME NEW h \in Hubs, Lookup(h) PROVE flow' \in Flows
    <3> DEFINE c == hubs[h]
               m == [NoFlow EXCEPT !.pc = "open"]
    <3>1. c \in 0 .. made
      BY DEF TypeOK
    <3>2. flow' = NoFlow \/ flow' = [m EXCEPT !.cur = c]
      BY <2>4, Zenon DEF Lookup
    <3>3. m \in Flows
      BY <1>4
    <3> HIDE DEF m, c
    <3> QED
      BY <1>4, <3>1, <3>2, <3>3
  <2> QED
    BY <2>1, <2>2, <2>3, <2>4
<1> HIDE DEF Flows
<1>6. TypeOK'
  BY <1>1, <1>5, SMTT(120) DEF TypeOK, Flows
<1> QED
  BY <1>2, <1>6

LEMMA StillRest ==
  ASSUME TypeOK, Shaped, StillStep
  PROVE  TypeOK' /\ Still
<1> USE DEF world, runtime
<1>0. /\ up \subseteq Hubs /\ known \subseteq 1 .. made /\ faults \in Nat
      /\ stop \in 0 .. Len(HubOrder) + 1 /\ made \in Nat /\ 1 .. made \subseteq Sessions
      /\ hubs \in [Hubs -> 0 .. made] /\ Len(HubOrder) \in Nat /\ Len(HubOrder) > 0
  BY SessionRange, TaskNumbers, SMTT(120) DEF TypeOK
<1>1. ASSUME sess' \in [Sessions -> SessionRecords], SessionsKept, StayDead,
             UNCHANGED <<made, hubs, supervised, task, place, flow, load>>,
             up' \subseteq Hubs, known' \subseteq 1 .. made, faults' \in Nat,
             stop' \in 0 .. Len(HubOrder) + 1, stop # Running => stop' # Running
      PROVE  TypeOK' /\ Still
  BY <1>1, SMTT(120) DEF TypeOK, Still
<1>2. Fault => faults' \in Nat
  BY <1>0 DEF Fault
<1>3. ASSUME NEW h \in Hubs, mark_hub_offline(h) PROVE TypeOK' /\ Still
  <2>1. hubs[h] \in 0 .. made /\ Close(hubs[h])
    BY <1>0, <1>3, SMTT(120) DEF mark_hub_offline
  <2>2. sess' \in [Sessions -> SessionRecords] /\ SessionsKept /\ StayDead
    BY <2>1, CloseEffect
  <2> QED
    BY <1>0, <1>1, <1>2, <1>3, <2>2 DEF mark_hub_offline
<1>4. ASSUME NEW h \in Hubs, HubDown(h) \/ HubUp(h) PROVE TypeOK' /\ Still
  <2>1. sess' = sess
    BY <1>4, SMTT(120) DEF HubDown, HubUp
  <2> QED
    BY <1>0, <1>1, <1>2, <1>4, <2>1, StillSessions, Zenon DEF HubDown, HubUp
<1>5. ASSUME NEW s \in Sessions, HelloOk(s) PROVE TypeOK' /\ Still
  BY <1>0, <1>1, <1>5, HelloOkEffect, Zenon DEF HelloOk
<1>6. ASSUME NEW s \in Sessions, CarriersEnd(s) \/ Dropped(s) PROVE TypeOK' /\ Still
  <2>1. Close(s) /\ sess[s].st # "none"
    BY <1>6, SMTT(120) DEF CarriersEnd, Dropped
  <2>2. sess' \in [Sessions -> SessionRecords] /\ SessionsKept /\ StayDead
    <3>1. s \in 0 .. MaxSessions /\ s # None
      BY TaskNumbers DEF Sessions, None
    <3> DEFINE r == [sess[s] EXCEPT !.st = "closed"]
    <3>2. sess \in [Sessions -> SessionRecords]
      BY DEF TypeOK
    <3>3. r \in SessionRecords /\ r.hub = sess[s].hub /\ r.st = "closed"
      BY <3>2 DEF SessionRecords
    <3>4. sess' = [sess EXCEPT ![s] = r]
      BY <2>1, <3>1 DEF Close
    <3> HIDE DEF r
    <3> QED
      BY <1>0, <3>2, <3>3, <3>4 DEF SessionsKept, StayDead, Dead
  <2> QED
    BY <1>0, <1>1, <1>2, <1>6, <2>2, Zenon DEF CarriersEnd, Dropped
<1>7. ASSUME NEW s \in Sessions, HubForgets(s) PROVE TypeOK' /\ Still
  <2>1. sess' = sess
    BY <1>7 DEF HubForgets
  <2> QED
    BY <1>0, <1>1, <1>2, <1>7, <2>1, StillSessions DEF HubForgets
<1>8. ASSUME NEW s \in Sessions, NEW v \in 1 .. MaxLists, PeerList(s, v) PROVE TypeOK' /\ Still
  BY <1>0, <1>1, <1>8, PeerListEffect, Zenon DEF PeerList
<1>9. ASSUME Shutdown PROVE TypeOK' /\ Still
  <2>1. sess' = sess /\ stop' = 1
    BY <1>9 DEF Shutdown
  <2> QED
    BY <1>0, <1>1, <1>9, <2>1, StillSessions DEF Shutdown, Running
<1>10. ASSUME ShutdownCloses PROVE TypeOK' /\ Still
  <2>1. stop \in 1 .. Len(HubOrder) /\ stop' = stop + 1 /\ Close(hubs[HubOrder[stop]])
    BY <1>10, TaskNumbers DEF ShutdownCloses
  <2>2. hubs[HubOrder[stop]] \in 0 .. made
    BY <1>0, <2>1, TaskNumbers
  <2>3. sess' \in [Sessions -> SessionRecords] /\ SessionsKept /\ StayDead
    BY <2>1, <2>2, CloseEffect
  <2> QED
    BY <1>0, <1>1, <1>10, <2>1, <2>3, SMTT(120) DEF ShutdownCloses, Running
<1>11. ASSUME UNCHANGED vars PROVE TypeOK' /\ Still
  <2>1. sess' = sess /\ UNCHANGED <<up, known, faults, made, hubs, supervised, stop, task, place, flow, load>>
    BY <1>11 DEF vars
  <2> QED
    BY <1>0, <1>1, <2>1, StillSessions
<1> QED
  BY <1>3, <1>4, <1>5, <1>6, <1>7, <1>8, <1>9, <1>10, <1>11, StillFlow, Zenon DEF StillStep

LEMMA StillInv ==
  ASSUME IInv, TypeOK', Still
  PROVE  IInv'
<1>1. /\ UNCHANGED <<task, hubs, supervised, place, load, made>>
      /\ stop # Running => stop' # Running
      /\ SessionsKept /\ StayDead
  BY DEF Still
<1>2. /\ hubs \in [Hubs -> 0 .. made] /\ task \in [Tasks -> TaskRecords(made)] /\ made \in Nat
      /\ \A t \in Tasks : task[t].cur \in 0 .. made
  BY SessionRange, SMTT(120) DEF IInv, TypeOK, TaskRecords
<1>3. Placed' /\ Single' /\ Solo'
  BY <1>1, SMTT(120) DEF IInv, Placed, Single, Solo, Alone
<1>4. Shaped'
  <2>1. \A s \in 0 .. made : s # None => sess'[s].hub = sess[s].hub
    BY <1>1, <1>2 DEF SessionsKept, None
  <2> QED
    BY <1>1, <1>2, <2>1 DEF IInv, Shaped
<1>5. SelectableIsWatched'
  <2>1. \A s \in 0 .. made : Dead(s) => Dead(s)'
    BY <1>1, <1>2 DEF StayDead, None, Dead
  <2>2. \A h \in Hubs : Dead(hubs[h]) => Dead(hubs[h])'
    <3> SUFFICES ASSUME NEW h \in Hubs, Dead(hubs[h]) PROVE Dead(hubs[h])'
      OBVIOUS
    <3>1. hubs[h] \in 0 .. made /\ hubs'[h] = hubs[h]
      BY <1>1, <1>2
    <3>2. hubs[h] # None => sess'[hubs[h]].st = "closed" \/ ~sess'[hubs[h]].healthy
      BY <2>1, <3>1 DEF Dead
    <3> QED
      BY <3>1, <3>2, SMTT(120) DEF Dead
  <2> QED
    BY <1>1, <2>2 DEF IInv, SelectableIsWatched, At, Alone
<1> QED
  BY <1>3, <1>4, <1>5 DEF IInv

(* The loop of a Hub that start is the only one to supervise is the one that *)
(* watches it.                                                               *)
LEMMA OwnLoop ==
  ASSUME IInv, Alone, NEW l \in Loops, task[l].pc # "none",
         NEW h \in Hubs, h = task[l].hub, hubs[h] # None
  PROVE  \/ task[l].pc \in {"watch", "check"} /\ task[l].cur = hubs[h]
         \/ task[l].pc = "lost" /\ Dead(hubs[h])
         \/ task[l].pc = "ended" /\ stop # Running
<1>1. h \in supervised
  BY DEF IInv, Single
<1>2. ~(At(Start, "supervise") /\ task[Start].hub = h)
  <2> SUFFICES ASSUME task[Start].pc = "supervise", task[Start].hub = h PROVE FALSE
    BY DEF At
  <2>1. place <= Len(HubOrder) /\ HubOrder[place] = h
    BY DEF IInv, Placed
  <2>2. place \in DOMAIN HubOrder /\ place >= place
    BY <2>1, TaskNumbers, SMTT(120) DEF IInv, TypeOK
  <2> QED
    BY <1>1, <2>1, <2>2 DEF IInv, Solo
<1>3. PICK k \in Loops :
        /\ task[k].hub = h
        /\ \/ task[k].pc \in {"watch", "check"} /\ task[k].cur = hubs[h]
           \/ task[k].pc = "lost" /\ Dead(hubs[h])
           \/ task[k].pc = "ended" /\ stop # Running
  BY <1>2 DEF IInv, SelectableIsWatched, At
<1>4. k = l
  BY <1>3 DEF IInv, Single
<1> QED
  BY <1>3, <1>4

(* A loop moves: the invariant survives if the loop answers for its own Hub. *)
LEMMA LoopMoves ==
  ASSUME IInv, NEW l \in Loops, task[l].pc # "none",
         NEW pc \in LoopStates \ {"none"}, NEW cur, Moved(l, pc, cur),
         UNCHANGED <<supervised, place, load, stop>>, SessionsKept,
         \A h \in Hubs : h # task[l].hub => hubs'[h] = hubs[h],
         \A s \in 1 .. made : sess[s].hub # task[l].hub /\ Dead(s) => Dead(s)',
         pc \in {"hello", "watch", "check"} => cur # None /\ sess'[cur].hub = task[l].hub,
         hubs'[task[l].hub] # None => sess'[hubs'[task[l].hub]].hub = task[l].hub,
         Alone /\ hubs'[task[l].hub] # None =>
           \/ pc \in {"watch", "check"} /\ cur = hubs'[task[l].hub]
           \/ pc = "lost" /\ Dead(hubs[task[l].hub])'
           \/ pc = "ended" /\ stop # Running
  PROVE  Placed' /\ Shaped' /\ Single' /\ Solo' /\ SelectableIsWatched'
<1>0. /\ l \in Tasks /\ l # Start /\ ~(l < Start)
      /\ hubs \in [Hubs -> 0 .. made] /\ made \in Nat
      /\ \A t \in Tasks : task[t].cur \in 0 .. made
  BY SessionRange, TaskNumbers, Zenon DEF IInv, TypeOK, TaskRecords
<1>1. /\ task'[l].pc = pc /\ task'[l].cur = cur /\ task'[l].hub = task[l].hub
      /\ \A u \in Tasks : u # l => task'[u] = task[u]
  BY SMTT(120) DEF Moved
<1>2. task[l].hub \in Hubs /\ pc # "none" /\ pc \in LoopStates
  BY <1>0, SMTT(120) DEF IInv, Shaped, LoopStates
<1>3. Start \in Tasks /\ task'[Start] = task[Start] /\ Loops \subseteq Tasks
  BY <1>0, <1>1, TaskNumbers, SMTT(120)
<1>4. Placed'
  BY <1>3, SMTT(120) DEF IInv, Placed
<1>5. \A s \in 0 .. made : s # None => sess'[s].hub = sess[s].hub
  BY <1>0, SMTT(120) DEF SessionsKept, None
<1>6. Shaped'
  <2>1. (\A k \in Loops : task[k].pc \in LoopStates)'
    BY <1>1, <1>2, <1>3, SMTT(120) DEF IInv, Shaped
  <2>2. (\A t \in Tasks : t < Start => task[t].pc \in CallerStates)'
    BY <1>0, <1>1, SMTT(120) DEF IInv, Shaped
  <2>3. (\A t \in Tasks : task[t].pc \notin {"none", "done"} => task[t].hub \in Hubs)'
    BY <1>1, <1>2, SMTT(120) DEF IInv, Shaped
  <2>4. (\A t \in Tasks :
           task[t].pc \in {"hello", "supervise", "watch", "check"} =>
             task[t].cur # None /\ sess[task[t].cur].hub = task[t].hub)'
    <3> SUFFICES ASSUME NEW t \in Tasks,
                        task'[t].pc \in {"hello", "supervise", "watch", "check"}
                 PROVE  task'[t].cur # None /\ sess'[task'[t].cur].hub = task'[t].hub
      BY SMTT(120)
    <3>1. CASE t = l
      BY <1>1, <1>2, <3>1, SMTT(120) DEF LoopStates
    <3>2. CASE t # l
      BY <1>0, <1>1, <1>5, <3>2, SMTT(120) DEF IInv, Shaped
    <3> QED
      BY <3>1, <3>2, SMTT(120)
  <2>5. (\A h \in Hubs : hubs[h] # None => sess[hubs[h]].hub = h)'
    <3> SUFFICES ASSUME NEW h \in Hubs, hubs'[h] # None PROVE sess'[hubs'[h]].hub = h
      BY SMTT(120)
    <3>1. CASE h = task[l].hub
      BY <3>1, SMTT(120)
    <3>2. CASE h # task[l].hub
      BY <1>0, <1>5, <3>2, SMTT(120) DEF IInv, Shaped
    <3> QED
      BY <3>1, <3>2, SMTT(120)
  <2> QED
    BY <2>1, <2>2, <2>3, <2>4, <2>5, Zenon DEF Shaped
<1>7. Single'
  BY <1>1, <1>2, <1>3, SMTT(120) DEF IInv, Single
<1>8. Solo'
  BY <1>0, <1>1, SMTT(120) DEF IInv, Solo, Alone
<1>9. SelectableIsWatched'
  <2> SUFFICES ASSUME Alone, NEW h \in Hubs, hubs'[h] # None
               PROVE  \/ /\ task'[Start].pc = "supervise" /\ task'[Start].hub = h
                         /\ task'[Start].cur = hubs'[h]
                      \/ \E k \in Loops :
                           /\ task'[k].hub = h
                           /\ \/ task'[k].pc \in {"watch", "check"} /\ task'[k].cur = hubs'[h]
                              \/ task'[k].pc = "lost" /\ Dead(hubs[h])'
                              \/ task'[k].pc = "ended" /\ stop' # Running
    BY SMTT(120) DEF SelectableIsWatched, At, Alone
  <2>1. CASE h = task[l].hub
    BY <1>1, <2>1, SMTT(120)
  <2>2. CASE h # task[l].hub
    <3>1. hubs'[h] = hubs[h] /\ hubs[h] \in 1 .. made /\ sess[hubs[h]].hub = h
      BY <1>0, <2>2, SMTT(120) DEF IInv, Shaped, None
    <3>2. Dead(hubs[h]) => Dead(hubs[h])'
      <4>1. sess[hubs[h]].hub # task[l].hub
        BY <2>2, <3>1, SMTT(120)
      <4>2. Dead(hubs[h]) => sess'[hubs[h]].st = "closed" \/ ~sess'[hubs[h]].healthy
        BY <3>1, <4>1, SMTT(120) DEF Dead
      <4> QED
        BY <3>1, <4>2, SMTT(120) DEF Dead
    <3>3. CASE task[Start].pc = "supervise" /\ task[Start].hub = h /\ task[Start].cur = hubs[h]
      BY <1>3, <3>1, <3>3, SMTT(120)
    <3>4. ASSUME NEW k \in Loops, task[k].hub = h,
                 \/ task[k].pc \in {"watch", "check"} /\ task[k].cur = hubs[h]
                 \/ task[k].pc = "lost" /\ Dead(hubs[h])
                 \/ task[k].pc = "ended" /\ stop # Running
          PROVE  \E j \in Loops :
                   /\ task'[j].hub = h
                   /\ \/ task'[j].pc \in {"watch", "check"} /\ task'[j].cur = hubs'[h]
                      \/ task'[j].pc = "lost" /\ Dead(hubs[h])'
                      \/ task'[j].pc = "ended" /\ stop' # Running
      <4>1. k # l /\ task'[k] = task[k]
        BY <1>1, <1>3, <2>2, <3>4, SMTT(120)
      <4> QED
        BY <3>1, <3>2, <3>4, <4>1, SMTT(120)
    <3> QED
      BY <3>1, <3>3, <3>4, SMTT(120) DEF IInv, SelectableIsWatched, At
  <2> QED
    BY <2>1, <2>2, SMTT(120)
<1> QED
  BY <1>4, <1>6, <1>7, <1>8, <1>9, SMTT(120)

(* Without other callers, the Hub that start is connecting is not in hubs    *)
(* and neither is one whose loop is connecting it.                           *)
LEMMA StartFirst ==
  ASSUME IInv, Alone, task[Start].pc \in {"dial", "hello"}
  PROVE  hubs[task[Start].hub] = None
<1>1. /\ task[Start].hub = HubOrder[place] /\ place \in DOMAIN HubOrder
      /\ task[Start].hub \in Hubs
  BY TaskNumbers, SMTT(120) DEF IInv, Placed, TypeOK
<1>2. task[Start].hub \notin supervised
  BY <1>1, TaskNumbers, SMTT(120) DEF IInv, Solo, TypeOK
<1>3. SUFFICES ASSUME hubs[task[Start].hub] # None PROVE FALSE
  OBVIOUS
<1>4. PICK k \in Loops : task[k].hub = task[Start].hub /\ task[k].pc # "none"
  BY <1>1, <1>3, SMTT(120) DEF IInv, SelectableIsWatched, At
<1> QED
  BY <1>2, <1>4 DEF IInv, Single

(* start or another caller moves within establish. *)
LEMMA CallerMoves ==
  ASSUME IInv, NEW t \in Tasks, t \notin Loops, task[t].pc \in {"dial", "hello"},
         NEW pc, NEW cur, Moved(t, pc, cur),
         UNCHANGED <<supervised, place, load, stop>>, SessionsKept, StayDead,
         \/ pc = "hello" /\ hubs' = hubs
         \/ pc = (IF t = Start THEN "retry" ELSE "done") /\ hubs' = hubs
         \/ pc = "supervise" /\ hubs' = [hubs EXCEPT ![task[t].hub] = cur],
         pc \in {"hello", "supervise"} => cur # None /\ sess'[cur].hub = task[t].hub
  PROVE  Placed' /\ Shaped' /\ Single' /\ Solo' /\ SelectableIsWatched'
<1>0. /\ t = Start \/ t < Start
      /\ hubs \in [Hubs -> 0 .. made] /\ made \in Nat
      /\ \A u \in Tasks : task[u].cur \in 0 .. made
      /\ Start \in Tasks /\ Loops \subseteq Tasks
  BY SessionRange, TaskNumbers, Zenon DEF IInv, TypeOK, TaskRecords
<1>1. /\ task'[t].pc = pc /\ task'[t].cur = cur /\ task'[t].hub = task[t].hub
      /\ \A u \in Tasks : u # t => task'[u] = task[u]
      /\ \A k \in Loops : task'[k] = task[k]
  BY <1>0 DEF Moved
<1>2. task[t].hub \in Hubs
  BY DEF IInv, Shaped
<1>3. /\ pc \in {"hello", "retry", "done", "supervise"}
      /\ pc = "retry" => t = Start
      /\ pc = "done" => t # Start
  OBVIOUS
<1>4. Placed'
  BY <1>1, <1>3, <1>0, SMTT(120) DEF IInv, Placed
<1>5. \A s \in 0 .. made : s # None => sess'[s].hub = sess[s].hub
  BY <1>0, SMTT(120) DEF SessionsKept, None
<1>6. Shaped'
  <2>1. (\A k \in Loops : task[k].pc \in LoopStates)'
    BY <1>1, SMTT(120) DEF IInv, Shaped
  <2>2. (\A u \in Tasks : u < Start => task[u].pc \in CallerStates)'
    <3>1. ~(Start < Start)
      BY SMTT(120) DEF Start
    <3>2. t < Start => pc \in CallerStates
      BY <1>3, <3>1 DEF CallerStates
    <3> QED
      BY <1>1, <3>2, SMTT(120) DEF IInv, Shaped
  <2>3. (\A u \in Tasks : task[u].pc \notin {"none", "done"} => task[u].hub \in Hubs)'
    BY <1>1, <1>2, SMTT(120) DEF IInv, Shaped
  <2>4. (\A u \in Tasks :
           task[u].pc \in {"hello", "supervise", "watch", "check"} =>
             task[u].cur # None /\ sess[task[u].cur].hub = task[u].hub)'
    <3> SUFFICES ASSUME NEW u \in Tasks,
                        task'[u].pc \in {"hello", "supervise", "watch", "check"}
                 PROVE  task'[u].cur # None /\ sess'[task'[u].cur].hub = task'[u].hub
      BY SMTT(120)
    <3>1. CASE u = t
      BY <1>1, <1>3, <3>1, SMTT(120)
    <3>2. CASE u # t
      BY <1>0, <1>1, <1>5, <3>2, SMTT(120) DEF IInv, Shaped
    <3> QED
      BY <3>1, <3>2, SMTT(120)
  <2>5. (\A h \in Hubs : hubs[h] # None => sess[hubs[h]].hub = h)'
    <3> SUFFICES ASSUME NEW h \in Hubs, hubs'[h] # None PROVE sess'[hubs'[h]].hub = h
      BY SMTT(120)
    <3>1. CASE hubs'[h] = hubs[h]
      BY <1>0, <1>5, <3>1, SMTT(120) DEF IInv, Shaped
    <3>2. CASE hubs'[h] # hubs[h]
      BY <1>0, <1>2, <3>2, SMTT(120)
    <3> QED
      BY <3>1, <3>2, SMTT(120)
  <2> QED
    BY <2>1, <2>2, <2>3, <2>4, <2>5, Zenon DEF Shaped
<1>7. Single'
  BY <1>1, SMTT(120) DEF IInv, Single
<1>8. Solo'
  <2>1. Alone => ~(t < Start)
    BY SMTT(120) DEF IInv, Solo
  <2> QED
    BY <1>0, <1>1, <2>1, SMTT(120) DEF IInv, Solo, Alone
<1>9. SelectableIsWatched'
  <2> SUFFICES ASSUME Alone, NEW h \in Hubs, hubs'[h] # None
               PROVE  \/ /\ task'[Start].pc = "supervise" /\ task'[Start].hub = h
                         /\ task'[Start].cur = hubs'[h]
                      \/ \E k \in Loops :
                           /\ task'[k].hub = h
                           /\ \/ task'[k].pc \in {"watch", "check"} /\ task'[k].cur = hubs'[h]
                              \/ task'[k].pc = "lost" /\ Dead(hubs[h])'
                              \/ task'[k].pc = "ended" /\ stop' # Running
    BY SMTT(120) DEF SelectableIsWatched, At, Alone
  <2>1. t = Start
    BY <1>0 DEF IInv, Solo
  <2>2. hubs[task[Start].hub] = None
    BY <2>1, StartFirst
  <2>3. CASE h = task[Start].hub
    BY <1>0, <1>1, <1>2, <2>1, <2>2, <2>3, SMTT(120)
  <2>4. CASE h # task[Start].hub
    <3>1. hubs'[h] = hubs[h] /\ hubs[h] \in 1 .. made
      BY <1>0, <2>1, <2>4, SMTT(120) DEF None
    <3>2. Dead(hubs[h]) => Dead(hubs[h])'
      <4>1. Dead(hubs[h]) => sess'[hubs[h]].st = "closed" \/ ~sess'[hubs[h]].healthy
        BY <3>1, SMTT(120) DEF StayDead, Dead, None
      <4> QED
        BY <3>1, <4>1, SMTT(120) DEF Dead
    <3>3. PICK k \in Loops :
            /\ task[k].hub = h
            /\ \/ task[k].pc \in {"watch", "check"} /\ task[k].cur = hubs[h]
               \/ task[k].pc = "lost" /\ Dead(hubs[h])
               \/ task[k].pc = "ended" /\ stop # Running
      BY <2>4, <3>1, SMTT(120) DEF IInv, SelectableIsWatched, At
    <3> QED
      BY <1>1, <3>1, <3>2, <3>3, SMTT(120)
  <2> QED
    BY <2>3, <2>4, SMTT(120)
<1> QED
  BY <1>4, <1>6, <1>7, <1>8, <1>9
=============================================================================
