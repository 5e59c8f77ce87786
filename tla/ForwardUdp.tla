----------------------------- MODULE ForwardUdp -----------------------------
(***************************************************************************)
(* A UDP Local Forward (wsnet-forward/src/udp.rs): the listener's receive  *)
(* loop, its table of one bounded queue per local source, and one task per *)
(* source that opens the remote session and drains the queue.  The table   *)
(* and the wake handles are behind two mutexes that no caller holds        *)
(* together, so the steps of `ingest` and of `finish` interleave.          *)
(***************************************************************************)
EXTENDS UdpClock, FiniteSets

CONSTANTS
  Locals,            \* local source tuples
  Limits,            \* UdpLimits: max_associations, queue_ttl, association_idle
  Tasks,             \* bound: association tasks, each with its own Notify
  MaxIngests,        \* bound: datagrams arriving at the listener
  MaxReturns,        \* bound: datagrams coming back
  Nobody             \* no association, no wake handle

VARIABLES
  table,      \* source -> Nobody or [queue, seen]
  wakes,      \* source -> Nobody or the task whose Notify is registered
  permit,     \* the permit each task's Notify stores
  worker,     \* the tasks: where each one is and the source it serves
  loop,       \* the receive loop: "idle", or in the middle of ingest
  accepting,  \* set_accepting
  shutdown,
  ingested,   \* history: datagrams received, also their identity
  forwarded,  \* history: [n, task, age] of every datagram sent to the remote
  returned    \* history: datagrams that came back

forwardVars ==
  <<table, wakes, permit, worker, loop, accepting, shutdown, ingested, forwarded, returned>>

Idle == [at |-> "idle"]
Unused == [at |-> "unused", source |-> Nobody]

ForwardInit ==
  /\ table = [s \in Locals |-> Nobody]
  /\ wakes = [s \in Locals |-> Nobody]
  /\ permit = [k \in Tasks |-> FALSE]
  /\ worker = [k \in Tasks |-> Unused]
  /\ loop = Idle /\ accepting = TRUE /\ shutdown = FALSE
  /\ ingested = 0 /\ forwarded = {} /\ returned = 0

-----------------------------------------------------------------------------
(* UdpAssociationTable *)

Tracked(t) == {s \in Locals : t[s] # Nobody}
TooOld(d) == now - d.at > Limits.queue_ttl

ReclaimIdle(t) ==
  [s \in Locals |-> IF t[s] # Nobody /\ now - t[s].seen > Limits.association_idle THEN Nobody ELSE t[s]]

\* Queues a datagram of s.  A full table reclaims idle associations before it
\* refuses a new one; a full queue refuses the arriving datagram.
TableEnqueue(s, d) ==
  LET t == IF table[s] = Nobody /\ Cardinality(Tracked(table)) >= Limits.max_associations
           THEN ReclaimIdle(table) ELSE table
      a == IF t[s] = Nobody THEN [queue |-> <<>>, seen |-> now] ELSE [t[s] EXCEPT !.seen = now]
      room == t[s] # Nobody \/ Cardinality(Tracked(t)) < Limits.max_associations
  IN  IF ~room THEN [table |-> t, queued |-> FALSE]
      ELSE IF ~Fits(a.queue, d) THEN [table |-> [t EXCEPT ![s] = a], queued |-> FALSE]
      ELSE [table |-> [t EXCEPT ![s] = [a EXCEPT !.queue = Append(@, d)]], queued |-> TRUE]

\* Pops the oldest datagram inside its TTL, dropping the expired ones before it.
PopReady(s) ==
  LET q == table[s].queue
      live == {i \in DOMAIN q : ~TooOld(q[i])}
      n == CHOOSE i \in live : \A j \in live : i <= j
      after(rest) == [table EXCEPT ![s] = [queue |-> rest, seen |-> now]]
  IN  IF table[s] = Nobody THEN [table |-> table, got |-> <<>>]
      ELSE IF live = {} THEN [table |-> after(<<>>), got |-> <<>>]
      ELSE [table |-> after(SubSeq(q, n + 1, Len(q))), got |-> <<q[n]>>]

Sweep(t) ==
  ReclaimIdle([s \in Locals |->
    IF t[s] = Nobody THEN Nobody
    ELSE [t[s] EXCEPT !.queue = SelectSeq(@, LAMBDA d : ~TooOld(d))]])

-----------------------------------------------------------------------------
(* The receive loop *)

\* recv_from: look the wake handle of the source up; a listener that does not
\* accept drops the datagram.
Ingest(s, size) ==
  /\ loop = Idle /\ ~shutdown /\ ingested < MaxIngests
  /\ ingested' = ingested + 1
  /\ loop' = IF ~accepting THEN Idle
             ELSE [at |-> "enqueue", source |-> s, wake |-> wakes[s],
                   d |-> [n |-> ingested + 1, size |-> size]]
  /\ UNCHANGED <<now, table, wakes, permit, worker, accepting, shutdown, forwarded, returned>>

\* The datagram is queued; a handle that was registered is notified, a source
\* without one gets a task of its own.
IngestEnqueue ==
  /\ loop.at = "enqueue"
  /\ LET s == loop.source
         d == [n |-> loop.d.n, size |-> loop.d.size, at |-> now,
               wake |-> loop.wake]
         r == TableEnqueue(s, d)
     IN  /\ table' = r.table
         /\ loop' = IF loop.wake # Nobody THEN [at |-> "notify", wake |-> loop.wake]
                    ELSE IF r.queued THEN [at |-> "spawn", source |-> s] ELSE Idle
  /\ UNCHANGED <<now, wakes, permit, worker, accepting, shutdown, ingested, forwarded, returned>>

MutIngestNotify ==
  /\ loop.at = "notify" /\ loop' = Idle
  /\ UNCHANGED <<now, table, wakes, permit, worker, accepting, shutdown, ingested, forwarded,
                 returned>>

IngestNotify ==
  /\ loop.at = "notify"
  /\ permit' = [permit EXCEPT ![loop.wake] = TRUE]
  /\ loop' = Idle
  /\ UNCHANGED <<now, table, wakes, worker, accepting, shutdown, ingested, forwarded, returned>>

IngestSpawn ==
  /\ loop.at = "spawn"
  /\ LET unused == {k \in Tasks : worker[k].at = "unused"}
         k == CHOOSE i \in unused : \A j \in unused : i <= j
     IN  /\ unused # {}
         /\ wakes' = [wakes EXCEPT ![loop.source] = k]
         /\ worker' = [worker EXCEPT ![k] = [at |-> "opening", source |-> loop.source]]
  /\ loop' = Idle
  /\ UNCHANGED <<now, table, permit, accepting, shutdown, ingested, forwarded, returned>>

\* The sweep tick: expired datagrams go, idle associations are reclaimed, and the
\* handles of the reclaimed ones are removed and notified.
Reclaim ==
  /\ loop = Idle /\ ~shutdown
  /\ Sweep(table) # table
  /\ table' = Sweep(table)
  /\ LET gone == Tracked(table) \ Tracked(Sweep(table))
     IN  /\ wakes' = [s \in Locals |-> IF s \in gone THEN Nobody ELSE wakes[s]]
         /\ permit' = [k \in Tasks |-> permit[k] \/ \E s \in gone : wakes[s] = k]
  /\ UNCHANGED <<now, worker, loop, accepting, shutdown, ingested, forwarded, returned>>

\* The manager turns the forward off or on again, or removes it.
SetAccepting ==
  /\ accepting' = ~accepting
  /\ UNCHANGED <<now, table, wakes, permit, worker, loop, shutdown, ingested, forwarded, returned>>

Shutdown ==
  /\ ~shutdown /\ shutdown' = TRUE
  /\ UNCHANGED <<now, table, wakes, permit, worker, loop, accepting, ingested, forwarded, returned>>

-----------------------------------------------------------------------------
(* The association tasks: run_association *)

Owns(k) == wakes[worker[k].source] = k
At(k, where) == worker[k].at = where
Goto(k, where) == worker' = [worker EXCEPT ![k].at = where]
Quiet == UNCHANGED <<now, loop, accepting, shutdown, ingested>>

\* open_udp answers with a session; or it fails or times out.
Opened(k) ==
  /\ At(k, "opening")
  /\ Goto(k, "check") \/ Goto(k, "finish")
  /\ Quiet /\ UNCHANGED <<table, wakes, permit, forwarded, returned>>

\* The top of the loop: a task that no longer owns its source stops, and so does
\* every task on shutdown.
Check(k) ==
  /\ At(k, "check")
  /\ Goto(k, IF Owns(k) /\ ~shutdown THEN "select" ELSE "finish")
  /\ Quiet /\ UNCHANGED <<table, wakes, permit, forwarded, returned>>

\* The select, which prefers shutdown, then what comes back, then the Notify.
SelectShutdown(k) ==
  /\ At(k, "select") /\ shutdown
  /\ Goto(k, "finish")
  /\ Quiet /\ UNCHANGED <<table, wakes, permit, forwarded, returned>>

SelectReturned(k) ==
  /\ At(k, "select") /\ ~shutdown /\ returned < MaxReturns
  /\ returned' = returned + 1
  /\ Goto(k, "drain") \/ Goto(k, "finish")
  /\ Quiet /\ UNCHANGED <<table, wakes, permit, forwarded>>

SelectNotified(k) ==
  /\ At(k, "select") /\ ~shutdown /\ permit[k]
  /\ permit' = [permit EXCEPT ![k] = FALSE]
  /\ Goto(k, "drain")
  /\ Quiet /\ UNCHANGED <<table, wakes, forwarded, returned>>

\* One turn of the drain: the next datagram goes to the remote, which may be gone.
DrainOne(k) ==
  /\ At(k, "drain")
  /\ LET r == PopReady(worker[k].source)
     IN  /\ table' = r.table
         /\ \/ /\ r.got = <<>> /\ Goto(k, "check") /\ UNCHANGED forwarded
            \/ /\ r.got # <<>> /\ Goto(k, "finish") /\ UNCHANGED forwarded
            \/ /\ r.got # <<>> /\ UNCHANGED worker
               /\ forwarded' = forwarded \cup
                    {[n |-> r.got[1].n, task |-> k, age |-> now - r.got[1].at]}
  /\ Quiet /\ UNCHANGED <<wakes, permit, returned>>

\* finish: a task that is still the registered one removes its handle, and then,
\* under the other mutex, the association.
Finish(k) ==
  /\ At(k, "finish")
  /\ wakes' = IF Owns(k) THEN [wakes EXCEPT ![worker[k].source] = Nobody] ELSE wakes
  /\ Goto(k, IF Owns(k) THEN "forget" ELSE "ended")
  /\ Quiet /\ UNCHANGED <<table, permit, forwarded, returned>>

Forget(k) ==
  /\ At(k, "forget")
  /\ table' = [table EXCEPT ![worker[k].source] = Nobody]
  /\ Goto(k, "ended")
  /\ Quiet /\ UNCHANGED <<wakes, permit, forwarded, returned>>

-----------------------------------------------------------------------------
TaskNext(k) ==
  \/ Opened(k) \/ Check(k) \/ SelectShutdown(k) \/ SelectReturned(k) \/ SelectNotified(k)
  \/ DrainOne(k) \/ Finish(k) \/ Forget(k)

ForwardNext ==
  \/ \E s \in Locals, z \in Sizes : Ingest(s, z)
  \/ IngestEnqueue \/ IngestNotify \/ IngestSpawn \/ Reclaim \/ SetAccepting \/ Shutdown
  \/ \E k \in Tasks : TaskNext(k)

-----------------------------------------------------------------------------
(* Properties *)

Parked(k) == At(k, "select") /\ ~permit[k]

\* No wakeup is lost between the receive loop and a task: while a task waits in
\* its select, no datagram that was queued under its handle is left without a
\* permit, stored or about to be stored.
NoLostWakeup ==
  \A k \in Tasks : Parked(k) /\ table[worker[k].source] # Nobody =>
    \A i \in DOMAIN table[worker[k].source].queue :
      table[worker[k].source].queue[i].wake = k => loop.at = "notify" /\ loop.wake = k

\* A datagram is sent inside its TTL, and by one task only: the one whose source
\* it came from.
ForwardedInTime ==
  /\ \A f \in forwarded : f.age <= Limits.queue_ttl
  /\ \A f, g \in forwarded : f.n = g.n => f = g

\* A removed forward leaves no task behind: after shutdown every association task
\* ends and its handle is gone.
TasksStop == shutdown ~> \A k \in Tasks : worker[k].at \in {"unused", "ended"}
=============================================================================
