------------------------------ MODULE SocksUdp ------------------------------
(***************************************************************************)
(* One SOCKS5 UDP association on the server side: the loop `run` of        *)
(* wsnet-socks/src/udp.rs and the `Association` it drives.  The loop       *)
(* receives client datagrams, locks the client endpoint, tracks targets,   *)
(* queues what its handler has no room for, and rewrites the handler's     *)
(* replies.  Every event of the loop's select is one action and ends with  *)
(* the top of the next iteration, which drains the queue and looks at the  *)
(* idle budget.                                                            *)
(***************************************************************************)
EXTENDS UdpClock, FiniteSets, FiniteSetsExt

CONSTANTS
  Sources,        \* UDP endpoints that may write to the association's socket
  Allowed,        \* those whose address is the TCP peer's or allowlisted
  Targets,        \* the targets clients name
  Domains,        \* those named by domain: only the exit knows the address
  AddressesOf,    \* the addresses a target may turn out to have
  MAX_TARGETS,    \* MAX_UDP_TARGETS_PER_ASSOCIATION
  None,
  Loads           \* bounds: which targets are named and how many datagrams arrive

ASSUME SocksUdpAssumption ==
  /\ Allowed \subseteq Sources /\ Domains \subseteq Targets
  /\ \A t \in Targets : AddressesOf[t] # {} /\ (t \notin Domains => AddressesOf[t] = {t})

VARIABLES
  load,      \* the bounds of this behaviour
  phase,     \* "new", "open", "grace" (handler joining), "ended"
  assoc,     \* the Association: client, targets, queue, last_activity
  chan,      \* the bounded datagram channel to the handler
  replies,   \* the bounded reply channel from the handler
  dropped,   \* the shared Counters: datagrams of the client counted as dropped
  arrived,   \* history: datagrams the socket received
  answers    \* history: replies sent to the client

serverVars == <<load, phase, assoc, chan, replies, dropped, arrived, answers>>

\* What is wrong with a datagram's shape: truncated, malformed, fragmented or
\* over the payload limit, each refused with a counter of its own.
Defects == {"none", "shape"}

Mapped(a) == {t \in Targets : a.targets[t] # None}
IsExpired(d) == now >= d.deadline
IsIdle(a) == now - a.activity >= IDLE

SocksInit ==
  /\ load \in Loads
  /\ phase = "new"
  /\ assoc = [client |-> None, targets |-> [t \in Targets |-> None],
              queue |-> <<>>, activity |-> 0]
  /\ chan = <<>> /\ replies = <<>>
  /\ dropped = 0 /\ arrived = 0 /\ answers = {}

-----------------------------------------------------------------------------
(* The Association *)

ReapTargets(a) ==
  [a EXCEPT !.targets = [t \in Targets |->
     IF @[t] # None /\ now - @[t].seen >= IDLE THEN None ELSE @[t]]]

\* Checks one datagram in the order the code does: its source, the locked
\* endpoint, its shape, the target cap.  The endpoint is locked before the shape
\* is looked at.
AcceptDatagram(old, src, t, size, defect) ==
  LET a == ReapTargets(old)
      locked == [a EXCEPT !.client = IF @ = None THEN src ELSE @]
      fresh == [pinned |-> IF t \in Domains THEN None ELSE t, seen |-> now]
      full == t \notin Mapped(a) /\ Cardinality(Mapped(a)) >= MAX_TARGETS
  IN  IF src \notin Allowed \/ a.client \notin {None, src} THEN [a |-> a, ok |-> FALSE]
      ELSE IF defect # "none" \/ full THEN [a |-> locked, ok |-> FALSE]
      ELSE [a |-> [locked EXCEPT !.targets[t] = IF @ = None THEN fresh ELSE [@ EXCEPT !.seen = now],
                                 !.activity = now],
            ok |-> TRUE,
            d |-> [target |-> t, size |-> size, deadline |-> now + QUEUE_TTL]]

MutEnqueue(a, d) ==
  [a |-> [a EXCEPT !.queue = Append(DropOldest(@, d), d)], drops |-> 0]

\* Queues d, dropping and counting the oldest entries over either budget.
Enqueue(a, d) ==
  LET q == DropOldest(a.queue, d)
  IN  IF d.size > MAX_QUEUED_BYTES THEN [a |-> a, drops |-> 1]
      ELSE [a |-> [a EXCEPT !.queue = Append(q, d)], drops |-> Len(a.queue) - Len(q)]

\* A reply is for the client only when its target is mapped and it comes from
\* the address the target is pinned to; a domain is pinned by its first answer.
OnReply(a, r) ==
  LET s == a.targets[r.target]
  IN  IF a.client = None \/ s = None \/ s.pinned \notin {None, r.source} THEN [a |-> a, ok |-> FALSE]
      ELSE [a |-> [a EXCEPT !.targets[r.target] = [pinned |-> r.source, seen |-> now],
                            !.activity = now],
            ok |-> TRUE]

\* The top of the loop: expired entries at the front are dropped, live ones are
\* handed over while the channel has room, and the first that does not fit goes
\* to the back of the queue again.
Drain(a, c) ==
  LET step(s, d) ==
        IF s.full THEN [s EXCEPT !.q = Append(@, d)]
        ELSE IF IsExpired(d) THEN [s EXCEPT !.drops = @ + 1]
        ELSE IF Len(s.c) < MAX_QUEUED THEN [s EXCEPT !.c = Append(@, d)]
        ELSE [s EXCEPT !.full = TRUE, !.again = <<d>>]
      end == FoldLeft(step, [q |-> <<>>, c |-> c, drops |-> 0, full |-> FALSE, again |-> <<>>],
                      a.queue)
  IN  [a |-> [a EXCEPT !.queue = end.q \o end.again], c |-> end.c, drops |-> end.drops]

-----------------------------------------------------------------------------
(* The loop *)

\* The next iteration begins: drain, then give up once idle.
Iterate(a, c, drops) ==
  LET r == Drain(a, c)
  IN  /\ assoc' = r.a /\ chan' = r.c /\ dropped' = dropped + drops + r.drops
      /\ phase' = IF IsIdle(r.a) THEN "grace" ELSE "open"

\* The socket is bound and the success reply written, or neither.
Associate ==
  /\ phase = "new"
  /\ \/ phase' = "open" /\ assoc' = [assoc EXCEPT !.activity = now]
     \/ phase' = "ended" /\ UNCHANGED assoc
  /\ UNCHANGED <<chan, replies, dropped, arrived, answers>>

\* recv_from: check the datagram, hand it over, or queue it when there is no room.
Receive(src, t, size, defect) ==
  /\ phase = "open" /\ t \in load.targets /\ arrived < load.arrivals
  /\ arrived' = arrived + 1
  /\ LET r == AcceptDatagram(assoc, src, t, size, defect)
         queued == Enqueue(r.a, r.d)
     IN  \/ ~r.ok /\ Iterate(r.a, chan, 1)
         \/ r.ok /\ Len(chan) < MAX_QUEUED /\ Iterate(r.a, Append(chan, r.d), 0)
         \/ r.ok /\ Len(chan) >= MAX_QUEUED /\ Iterate(queued.a, chan, queued.drops)
  /\ UNCHANGED <<replies, answers>>

\* reply_rx: rewrite one reply for the client.  One that OnReply refuses is dropped;
\* one that is too large, or that the socket does not take, is lost after all.
Reply ==
  /\ phase = "open" /\ replies # <<>>
  /\ replies' = Tail(replies)
  /\ LET r == Head(replies)
         o == OnReply(assoc, r)
     IN  /\ Iterate(o.a, chan, 0)
         /\ \/ o.ok /\ answers' = answers \cup {[r EXCEPT !.to = o.a.client]}
            \/ UNCHANGED answers
  /\ UNCHANGED arrived

\* sleep_until(next_deadline): the front entry's TTL or the idle budget is over.
Wake ==
  /\ phase = "open"
  /\ \/ IsIdle(assoc)
     \/ assoc.queue # <<>> /\ IsExpired(assoc.queue[1])
  /\ Iterate(assoc, chan, 0)
  /\ UNCHANGED <<replies, arrived, answers>>

\* The control connection closes, or the socket fails.
ControlEnds ==
  /\ phase = "open"
  /\ phase' = "grace"
  /\ UNCHANGED <<assoc, chan, replies, dropped, arrived, answers>>

ServerNext ==
  \/ Associate \/ Reply \/ Wake \/ ControlEnds
  \/ \E src \in Sources, t \in Targets, z \in Sizes, f \in Defects : Receive(src, t, z, f)
=============================================================================
