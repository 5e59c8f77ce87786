---------------------------- MODULE NodeRuntime -----------------------------
(***************************************************************************)
(* The node's Hub sessions: start connects every Hub in failover order,    *)
(* one supervisor loop per Hub watches its session and reconnects it,      *)
(* flows choose a Hub from a snapshot, and shutdown stops it all.          *)
(*                                                                         *)
(* Tasks are numbered: 0 is start, negative numbers are other callers of   *)
(* connect_hub, positive ones the loops that supervise has spawned.        *)
(* Sessions are numbered in the order they authenticated, 0 is none.       *)
(* How long a wait lasts (keepalive, backoff and its jitter, timeouts) is  *)
(* not modelled: a wait ends at any time.                                  *)
(***************************************************************************)
EXTENDS Integers, Sequences

CONSTANTS Hubs,         \* hub ids
          HubOrder,     \* NodeRuntime.plans, in failover order
          MaxCallers,   \* connect_hub callers besides start
          MaxLoops,     \* supervisor loops (bound)
          MaxSessions,  \* sessions ever authenticated (bound)
          MaxLists,     \* PeerList snapshots a Hub sends (bound)
          HEALTH_FAILURES_BEFORE_FAILOVER,
          Loads         \* what happens together in one behaviour

Start    == 0
Loops    == 1 .. MaxLoops
Tasks    == -MaxCallers .. MaxLoops
Sessions == 1 .. MaxSessions
None     == 0
Running  == 0           \* shutdown has not been called
NoHub    == "no hub"

ASSUME RuntimeAssumption ==
  /\ MaxCallers \in Nat /\ MaxLoops \in Nat /\ MaxSessions \in Nat
  /\ MaxLists \in Nat /\ HEALTH_FAILURES_BEFORE_FAILOVER \in Nat \ {0}
  /\ HubOrder \in Seq(Hubs) /\ Len(HubOrder) > 0
  /\ \A i, j \in DOMAIN HubOrder : HubOrder[i] = HubOrder[j] => i = j
  /\ \A h \in Hubs : \E i \in DOMAIN HubOrder : HubOrder[i] = h
  /\ NoHub \notin Hubs
  /\ Loads \subseteq [faults : Nat, callers : Nat, unreadable : SUBSET Hubs,
                      lists : SUBSET (Hubs \X Nat), service : BOOLEAN, flows : BOOLEAN,
                      stops : BOOLEAN, ws : BOOLEAN]

VARIABLES up,         \* Hubs that are running
          known,      \* sessions their Hub still holds
          sess,       \* every HubSession: its Hub, state, tracker, directory
          made,       \* how many sessions have authenticated
          hubs,       \* NodeRuntime.hubs
          supervised, \* NodeRuntime.supervised
          task,       \* start, the callers and the supervisor loops
          place,      \* where in HubOrder start is
          stop,       \* shutdown: 0, then the next Hub whose session it closes
          flow,       \* one flow choosing its Hub
          faults,     \* faults still to come (bound)
          load        \* what may happen in this behaviour

runtime == <<hubs, supervised, stop>>
world   == <<up, known, faults>>
vars == <<world, sess, made, runtime, task, place, flow, load>>

NoSession == [hub |-> NoHub, st |-> "none", failures |-> 0, healthy |-> TRUE, list |-> 0]
NoTask    == [pc |-> "none", hub |-> NoHub, cur |-> None, late |-> FALSE]
Dialing(h) == [pc |-> "dial", hub |-> h, cur |-> None, late |-> FALSE]
Returned  == [pc |-> "done", hub |-> NoHub, cur |-> None, late |-> FALSE]
NoFlow    == [pc |-> "none", seen |-> <<>>, hub |-> NoHub, cur |-> None]

TaskStates == {"none", "dial", "hello", "supervise", "retry", "done",
               "watch", "check", "lost", "pause", "ended"}

Dead(s) == s # None => sess[s].st = "closed" \/ ~sess[s].healthy

\* The Hub answers on this session.
Answers(s) == s \in known /\ sess[s].hub \in up

Fault == faults > 0 /\ faults' = faults - 1
At(t, pc) == task[t].pc = pc
Goto(t, pc, cur) ==
  task' = [task EXCEPT ![t] = [pc |-> pc, hub |-> @.hub, cur |-> cur, late |-> @.late]]

Init ==
  /\ load \in Loads
  /\ up \in SUBSET Hubs /\ known = {} /\ faults = load.faults
  /\ sess = [s \in Sessions |-> NoSession] /\ made = 0
  /\ hubs = [h \in Hubs |-> None] /\ supervised = {}
  /\ task = [t \in Tasks |-> IF t = Start THEN Dialing(HubOrder[1]) ELSE NoTask]
  /\ place = 1 /\ stop = Running
  /\ flow = NoFlow

-----------------------------------------------------------------------------
(* establish: authenticate, bind, wait for HelloOk, publish the session      *)

\* Mutant: a loop gives up on the first error.
AfterError_GivesUp(t, terminal) ==
  IF t \in Loops THEN "ended" ELSE IF t = Start THEN "retry" ELSE "done"

\* What an error of establish leads to: a loop gives up on an error that
\* reconnect_is_terminal and else tries again; start leaves its Hub to a loop.
AfterError(t, terminal) ==
  IF t \in Loops THEN IF terminal THEN "ended" ELSE "lost"
  ELSE IF t = Start THEN "retry" ELSE "done"

EstablishFails(t, terminal) == Goto(t, AfterError(t, terminal), None)

\* load_psk: an unreadable secret never reaches the network.  An AuthOk that
\* does not verify ends connect the same way.
SecretUnreadable(t) ==
  /\ At(t, "dial") /\ task[t].hub \in load.unreadable
  /\ EstablishFails(t, TRUE)
  /\ UNCHANGED <<world, sess, made, runtime, place, flow, load>>

DialFails(t) ==
  /\ At(t, "dial") /\ task[t].hub \notin load.unreadable
  /\ IF task[t].hub \in up THEN Fault ELSE UNCHANGED faults
  /\ EstablishFails(t, FALSE)
  /\ UNCHANGED <<up, known, sess, made, runtime, place, flow, load>>

\* HubSession::connect up to the Hello.
Dialed(t) ==
  /\ At(t, "dial") /\ task[t].hub \in up \ load.unreadable
  /\ made < MaxSessions
  /\ made' = made + 1
  /\ sess' = [sess EXCEPT ![made + 1] = [NoSession EXCEPT !.hub = task[t].hub, !.st = "pending"]]
  /\ known' = known \cup {made + 1}
  /\ Goto(t, "hello", made + 1)
  /\ UNCHANGED <<up, faults, runtime, place, flow, load>>

\* wait_ready: the session ended, or HelloOk did not come in time.
HelloFails(t) ==
  /\ At(t, "hello") /\ sess[task[t].cur].st # "ready"
  /\ IF sess[task[t].cur].st = "pending" /\ Answers(task[t].cur) THEN Fault ELSE UNCHANGED faults
  /\ EstablishFails(t, FALSE)
  /\ UNCHANGED <<up, known, sess, made, runtime, place, flow, load>>

\* wait_ready returns and the session becomes the Hub's live one.
Established(t) ==
  /\ At(t, "hello") /\ sess[task[t].cur].st = "ready"
  /\ hubs' = [hubs EXCEPT ![task[t].hub] = task[t].cur]
  /\ Goto(t, IF t \in Loops THEN "watch" ELSE "supervise", task[t].cur)
  /\ UNCHANGED <<world, sess, made, supervised, stop, place, flow, load>>

-----------------------------------------------------------------------------
(* connect_hub and start                                                     *)

\* start goes on to the next Hub, and is done after the last.
MovesOn ==
  IF place < Len(HubOrder) THEN Dialing(HubOrder[place + 1]) ELSE Returned

AfterConnect(t) == IF t = Start THEN MovesOn ELSE Returned

\* supervise, called with the new session or (by start, after an error) with
\* none: the first call for a Hub spawns its loop, subscribed to the shutdown
\* signal from now on.
Supervise(t) ==
  /\ At(t, "supervise") \/ At(t, "retry")
  /\ LET h   == task[t].hub
         new == [pc |-> IF At(t, "supervise") THEN "watch" ELSE "lost", hub |-> h,
                 cur |-> task[t].cur, late |-> stop # Running]
     IN  /\ supervised' = supervised \cup {h}
         /\ \/ /\ h \in supervised
               /\ task' = [task EXCEPT ![t] = AfterConnect(t)]
            \/ /\ h \notin supervised
               /\ \E l \in Loops :
                    /\ At(l, "none") /\ \A k \in Loops : At(k, "none") => l <= k
                    /\ task' = [task EXCEPT ![t] = AfterConnect(t), ![l] = new]
         /\ place' = IF t = Start THEN place + 1 ELSE place
  /\ UNCHANGED <<world, sess, made, hubs, stop, flow, load>>

\* Another caller of connect_hub.
Call(t, h) ==
  /\ t < Start /\ -t <= load.callers /\ At(t, "none")
  /\ task' = [task EXCEPT ![t] = Dialing(h)]
  /\ UNCHANGED <<world, sess, made, runtime, place, flow, load>>

-----------------------------------------------------------------------------
(* The supervisor loop                                                       *)

\* Mutant: only the backoff wait listens for the shutdown signal.
LoopStops_BackoffOnly(l) ==
  /\ At(l, "pause")
  /\ stop # Running /\ ~task[l].late
  /\ Goto(l, "ended", None)
  /\ UNCHANGED <<world, sess, made, runtime, place, flow, load>>

\* The loop waits (keepalive or backoff) and sees the shutdown signal change,
\* which a receiver subscribed after the change never does.
LoopStops(l) ==
  /\ At(l, "watch") \/ At(l, "pause")
  /\ stop # Running /\ ~task[l].late
  /\ Goto(l, "ended", None)
  /\ UNCHANGED <<world, sess, made, runtime, place, flow, load>>

KeepaliveDue(l) ==
  /\ At(l, "watch")
  /\ IF sess[task[l].cur].st = "closed" THEN Goto(l, "lost", None)
                                        ELSE Goto(l, "check", task[l].cur)
  /\ UNCHANGED <<world, sess, made, runtime, place, flow, load>>

\* HealthTracker::record_success.  An unhealthy tracker turns healthy once
\* its successes span the stability window.
RecordSuccess(x) ==
  {[x EXCEPT !.failures = 0]} \cup {[x EXCEPT !.failures = 0, !.healthy = TRUE]}

\* HealthTracker::record_failure.
RecordFailure(x) ==
  [x EXCEPT !.failures = @ + 1,
            !.healthy  = @ /\ x.failures + 1 < HEALTH_FAILURES_BEFORE_FAILOVER]

\* The loop goes on watching a healthy session and drops an unhealthy one.
AfterCheck(l, x) ==
  IF x.healthy THEN Goto(l, "watch", task[l].cur) ELSE Goto(l, "lost", None)

CheckPasses(l) ==
  /\ At(l, "check") /\ Answers(task[l].cur)
  /\ \E x \in RecordSuccess(sess[task[l].cur]) :
       sess' = [sess EXCEPT ![task[l].cur] = x] /\ AfterCheck(l, x)
  /\ UNCHANGED <<world, made, runtime, place, flow, load>>

CheckFails(l) ==
  /\ At(l, "check")
  /\ IF Answers(task[l].cur) THEN Fault ELSE UNCHANGED faults
  /\ LET x == RecordFailure(sess[task[l].cur])
     IN  sess' = [sess EXCEPT ![task[l].cur] = x] /\ AfterCheck(l, x)
  /\ UNCHANGED <<up, known, made, runtime, place, flow, load>>

\* Mutant: the dead session stays in selection during the backoff.
Withdraw_Keeps(l) ==
  /\ At(l, "lost")
  /\ IF stop # Running THEN Goto(l, "ended", None) ELSE Goto(l, "pause", None)
  /\ UNCHANGED <<world, sess, made, runtime, place, flow, load>>

\* The Hub is withdrawn from selection before the backoff, unless the node is
\* stopping.
Withdraw(l) ==
  /\ At(l, "lost")
  /\ IF stop # Running
     THEN Goto(l, "ended", None) /\ UNCHANGED hubs
     ELSE Goto(l, "pause", None) /\ hubs' = [hubs EXCEPT ![task[l].hub] = None]
  /\ UNCHANGED <<world, sess, made, supervised, stop, place, flow, load>>

BackoffDue(l) ==
  /\ At(l, "pause")
  /\ Goto(l, "dial", None)
  /\ UNCHANGED <<world, sess, made, runtime, place, flow, load>>
-----------------------------------------------------------------------------
(* Choosing a Hub for a flow                                                 *)

\* What the snapshot says of a Hub: the session of its entry in hubs is ready
\* and healthy, and what its directory says of the service.
Candidate(h) ==
  LET x == sess[hubs[h]]
  IN  CASE hubs[h] = None \/ x.st # "ready" \/ ~x.healthy -> "unusable"
        [] x.list = 0 -> "uninformed"
        [] <<h, x.list>> \in load.lists -> "listed"
        [] OTHER -> "unlisted"

\* select_hub: for a service a Hub that lists it, else one that has said
\* nothing; for any other destination the first usable one.
FirstOf(seen, kinds) ==
  {i \in DOMAIN seen : seen[i] \in kinds /\ \A j \in 1 .. i - 1 : seen[j] \notin kinds}

select_hub(seen) ==
  IF ~load.service THEN FirstOf(seen, {"uninformed", "listed", "unlisted"})
  ELSE IF FirstOf(seen, {"listed"}) # {} THEN FirstOf(seen, {"listed"})
  ELSE FirstOf(seen, {"uninformed"})

\* session_for with Auto reads one Hub after the other ...
Gather ==
  /\ load.flows /\ flow.pc \in {"none", "gather"} /\ Len(flow.seen) < Len(HubOrder)
  /\ flow' = [flow EXCEPT !.pc = "gather",
                          !.seen = Append(@, Candidate(HubOrder[Len(@) + 1]))]
  /\ UNCHANGED <<world, sess, made, runtime, task, place, load>>

\* ... chooses, or reports that no Hub will do ...
Choose ==
  /\ flow.pc = "gather" /\ Len(flow.seen) = Len(HubOrder)
  /\ \/ \E i \in select_hub(flow.seen) : flow' = [NoFlow EXCEPT !.pc = "chosen", !.hub = HubOrder[i]]
     \/ select_hub(flow.seen) = {} /\ flow' = NoFlow
  /\ UNCHANGED <<world, sess, made, runtime, task, place, load>>

\* ... and looks the chosen Hub up again; a pinned flow starts here.
Lookup(h) ==
  /\ load.flows
  /\ flow.pc = "none" \/ (flow.pc = "chosen" /\ flow.hub = h)
  /\ flow' = IF hubs[h] = None THEN NoFlow ELSE [NoFlow EXCEPT !.pc = "open", !.cur = hubs[h]]
  /\ UNCHANGED <<world, sess, made, runtime, task, place, load>>

\* The open on that session ends, one way or the other.
FlowEnds ==
  /\ flow.pc = "open"
  /\ flow' = NoFlow
  /\ UNCHANGED <<world, sess, made, runtime, task, place, load>>

-----------------------------------------------------------------------------
(* shutdown and mark_hub_offline                                             *)

Close(s) == sess' = IF s = None THEN sess ELSE [sess EXCEPT ![s].st = "closed"]

Shutdown ==
  /\ load.stops /\ stop = Running
  /\ stop' = 1
  /\ UNCHANGED <<world, sess, made, hubs, supervised, task, place, flow, load>>

\* After the signal, shutdown closes the session of one Hub after the other.
ShutdownCloses ==
  /\ stop \in DOMAIN HubOrder
  /\ Close(hubs[HubOrder[stop]])
  /\ stop' = stop + 1
  /\ UNCHANGED <<world, made, hubs, supervised, task, place, flow, load>>

mark_hub_offline(h) ==
  /\ hubs[h] # None /\ sess[hubs[h]].st # "closed" /\ Fault
  /\ Close(hubs[h])
  /\ UNCHANGED <<up, known, made, runtime, task, place, flow, load>>

-----------------------------------------------------------------------------
(* The sessions' drivers and the Hubs                                        *)

\* on_event: HelloOk lifts the barrier.
HelloOk(s) ==
  /\ sess[s].st = "pending" /\ Answers(s)
  /\ sess' = [sess EXCEPT ![s].st = "ready"]
  /\ UNCHANGED <<world, made, runtime, task, place, flow, load>>

\* on_event: a PeerList snapshot, possibly late or repeated; apply_peer_list
\* ignores one that is not newer.
PeerList(s, v) ==
  /\ sess[s].st = "ready" /\ Answers(s) /\ load.service
  /\ sess' = [sess EXCEPT ![s].list = IF v <= @ THEN @ ELSE v]
  /\ UNCHANGED <<world, made, runtime, task, place, flow, load>>

\* The driver ends because every carrier did: a WebSocket session notices
\* that its Hub is gone, the POST carrier of an HTTP session never ends.
CarriersEnd(s) ==
  /\ load.ws /\ sess[s].st \in {"pending", "ready"}
  /\ IF Answers(s) THEN Fault ELSE UNCHANGED faults
  /\ Close(s)
  /\ UNCHANGED <<up, known, made, runtime, task, place, flow, load>>

\* The driver ends because nobody holds the session any more.
Dropped(s) ==
  /\ sess[s].st \in {"pending", "ready"}
  /\ \A h \in Hubs : hubs[h] # s
  /\ \A t \in Tasks : task[t].cur # s
  /\ flow.cur # s
  /\ Close(s)
  /\ UNCHANGED <<world, made, runtime, task, place, flow, load>>

\* A Hub stops and forgets its sessions, comes back, or drops one session.
HubDown(h) ==
  /\ h \in up /\ Fault
  /\ up' = up \ {h} /\ known' = {s \in known : sess[s].hub # h}
  /\ UNCHANGED <<sess, made, runtime, task, place, flow, load>>

HubUp(h) ==
  /\ h \notin up
  /\ up' = up \cup {h}
  /\ UNCHANGED <<known, faults, sess, made, runtime, task, place, flow, load>>

HubForgets(s) ==
  /\ s \in known /\ Fault
  /\ known' = known \ {s}
  /\ UNCHANGED <<up, sess, made, runtime, task, place, flow, load>>

-----------------------------------------------------------------------------
TaskStep(t) ==
  \/ SecretUnreadable(t) \/ DialFails(t) \/ Dialed(t)
  \/ HelloFails(t) \/ Established(t) \/ Supervise(t)

LoopStep(l) ==
  \/ LoopStops(l) \/ KeepaliveDue(l) \/ CheckPasses(l) \/ CheckFails(l)
  \/ Withdraw(l) \/ BackoffDue(l)

Next ==
  \/ \E t \in Tasks : TaskStep(t)
  \/ \E l \in Loops : LoopStep(l)
  \/ \E t \in Tasks, h \in Hubs : Call(t, h)
  \/ Gather \/ Choose \/ FlowEnds
  \/ \E h \in Hubs : Lookup(h) \/ mark_hub_offline(h) \/ HubDown(h) \/ HubUp(h)
  \/ \E s \in Sessions :
       HelloOk(s) \/ CarriersEnd(s) \/ Dropped(s) \/ HubForgets(s)
  \/ \E s \in Sessions, v \in 1 .. MaxLists : PeerList(s, v)
  \/ Shutdown \/ ShutdownCloses

Spec == Init /\ [][Next]_vars

\* Tasks of the runtime are scheduled; a wait that begins after the shutdown
\* signal sees the signal before its timer; a Hub that is up and knows a
\* session answers its Hello.
FairSpec ==
  /\ Spec
  /\ \A t \in Tasks : WF_vars(TaskStep(t))
  /\ \A l \in Loops : WF_vars(LoopStep(l)) /\ SF_vars(LoopStops(l))
  /\ \A s \in Sessions : WF_vars(HelloOk(s))
  /\ WF_vars(ShutdownCloses)

-----------------------------------------------------------------------------
SessionRecords ==
  [hub : Hubs \cup {NoHub}, st : {"none", "pending", "ready", "closed"},
   failures : Nat, healthy : BOOLEAN, list : 0 .. MaxLists]

TaskRecords(n) == [pc : TaskStates, hub : Hubs \cup {NoHub}, cur : 0 .. n, late : BOOLEAN]

Candidates == {"unusable", "uninformed", "listed", "unlisted"}

(* The shape of the runtime's state: node.rs NodeRuntime, HubSession.        *)
TypeOK ==
  /\ load \in Loads
  /\ up \subseteq Hubs /\ known \subseteq 1 .. made /\ faults \in Nat
  /\ made \in 0 .. MaxSessions
  /\ sess \in [Sessions -> SessionRecords]
  /\ hubs \in [Hubs -> 0 .. made] /\ supervised \subseteq Hubs
  /\ task \in [Tasks -> TaskRecords(made)]
  /\ place \in 1 .. Len(HubOrder) + 1
  /\ stop \in 0 .. Len(HubOrder) + 1
  /\ flow \in [pc : {"none", "gather", "chosen", "open"}, seen : Seq(Candidates),
              hub : Hubs \cup {NoHub}, cur : 0 .. made]

Alive(l) == task[l].pc \notin {"none", "ended"}

(* "At most one supervisor exists per Hub id" (supervise), however start and *)
(* other callers of connect_hub interleave.                                  *)
OneLoopPerHub ==
  \A k, l \in Loops : Alive(k) /\ Alive(l) /\ task[k].hub = task[l].hub => k = l

\* start is the only caller of connect_hub.
Alone == load.callers = 0

(* A session in NodeRuntime.hubs is watched by the loop of its Hub, until    *)
(* the loop has found it dead or was stopped: no Hub stays in selection      *)
(* with nobody probing it.  start is the only caller.                        *)
SelectableIsWatched ==
  Alone =>
    \A h \in Hubs :
      hubs[h] # None =>
        \/ At(Start, "supervise") /\ task[Start].hub = h /\ task[Start].cur = hubs[h]
        \/ \E l \in Loops :
             /\ task[l].hub = h
             /\ \/ task[l].pc \in {"watch", "check"} /\ task[l].cur = hubs[h]
                \/ At(l, "lost") /\ Dead(hubs[h])
                \/ At(l, "ended") /\ stop # Running

(* "a Hub with no live session is withdrawn from selection": the supervisor  *)
(* withdraws a Hub only when the session it removes has closed or failed its *)
(* checks, never a live one.  start is the only caller.                      *)
WithdrawsOnlyDead ==
  [][Alone => \A h \in Hubs : hubs'[h] = None /\ hubs[h] # None => Dead(hubs[h])]_vars

Connected(h) == hubs[h] # None /\ sess[hubs[h]].st = "ready" /\ Answers(hubs[h])

(* A Hub that stays up is connected for good in the end, whatever went wrong *)
(* before: down at startup, crashed, forgotten sessions, failed checks, a    *)
(* lost WebSocket, taken offline locally.  The secret is readable, nobody    *)
(* shuts down and start is the only caller of connect_hub.                   *)
Reconnects ==
  \A h \in Hubs :
    <>[](h \in up \ load.unreadable /\ stop = Running /\ Alone) => <>[]Connected(h)

(* "Stops every background task": every supervisor loop ends once shutdown   *)
(* is called on a node whose start has returned.                             *)
LoopsStop ==
  (Alone /\ stop = 1 /\ At(Start, "done")) ~> (\A l \in Loops : ~Alive(l))
=============================================================================
