------------------------------ MODULE UdpRoutes -----------------------------
(***************************************************************************)
(* The tunnel behind a UDP association: the handler of wsnet-node/src/     *)
(* udp.rs, which maps every target onto a route of its own, the tasks that *)
(* open and serve the routes, and the Hub's `UdpExit` (dataplane.rs) with  *)
(* its one connected socket per route.  Handler and server loop share a    *)
(* task, the routes and the exits are tasks of their own.                  *)
(***************************************************************************)
EXTENDS SocksUdp

CONSTANTS
  Permitted,    \* addresses the Hub's egress policy lets the caller reach
  Routes        \* bound: the routes (tunnel streams) that may be opened

VARIABLES
  mapping,    \* node: target key -> [route, used]
  route,      \* node: the task serving each route
  exit,       \* hub: the UdpExit of each route
  uplink,     \* datagrams of each route on their way to the Hub
  downlink,   \* responses of each route on their way to the node
  sentLate,   \* history: a datagram entered the tunnel past its deadline
  gone,       \* history: datagrams that entered the tunnel or went with a channel
  delivered,  \* history: what exits sent to their targets
  answered    \* history: number of responses so far

routeVars == <<mapping, route, exit, uplink, downlink>>
history == <<sentLate, gone, delivered, answered>>
vars == <<now, serverVars, routeVars, history>>

NoRoute == [task |-> "unused", target |-> None, chan |-> <<>>]
NoExit == [task |-> "unused", addr |-> None, bound |-> FALSE]

RoutesInit ==
  /\ mapping = [t \in Targets |-> None]
  /\ route = [r \in Routes |-> NoRoute]
  /\ exit = [r \in Routes |-> NoExit]
  /\ uplink = [r \in Routes |-> <<>>] /\ downlink = [r \in Routes |-> <<>>]
  /\ sentLate = FALSE /\ gone = 0 /\ delivered = {} /\ answered = 0

Init == now = 0 /\ SocksInit /\ RoutesInit

-----------------------------------------------------------------------------
(* The handler: UdpAssociation *)

HandlerRuns == phase \in {"open", "grace"}
Live(r) == route[r].task \in {"opening", "serving"}

MutRouteKey(t) == CHOOSE a \in AddressesOf[t] \cap Targets : TRUE

\* A domain and the address it resolves to are different keys.
RouteKey(t) == t

\* dispatch: the route of the datagram's target gets it, opened on first use; a
\* route whose task is gone loses it and its mapping.
Dispatch(d) ==
  LET key == RouteKey(d.target)
      known == mapping[key]
      unused == {r \in Routes : route[r].task = "unused"}
      give(r) == route' = [route EXCEPT ![r].chan = Append(@, d)]
      used(r) == mapping' = [mapping EXCEPT ![key] = [route |-> r, used |-> now]]
  IN  \/ /\ known # None /\ Live(known.route)
         /\ used(known.route) /\ give(known.route)
         /\ UNCHANGED <<dropped, gone>>
      \/ /\ known # None /\ ~Live(known.route)
         /\ mapping' = [mapping EXCEPT ![key] = None]
         /\ gone' = gone + 1
         /\ UNCHANGED <<dropped, route>>
      \/ /\ known = None
         /\ Cardinality({k \in Targets : mapping[k] # None}) >= MAX_TARGETS
         /\ dropped' = dropped + 1
         /\ UNCHANGED <<mapping, route, gone>>
      \/ /\ known = None
         /\ Cardinality({k \in Targets : mapping[k] # None}) < MAX_TARGETS
         /\ unused # {} /\ used(Min(unused))
         /\ route' = [route EXCEPT ![Min(unused)] =
                        [task |-> "opening", target |-> d.target, chan |-> <<d>>]]
         /\ UNCHANGED <<dropped, gone>>

\* control.recv: expired datagrams are counted, live ones dispatched.
HandlerRecv ==
  /\ HandlerRuns /\ chan # <<>>
  /\ chan' = Tail(chan)
  /\ \/ /\ IsExpired(Head(chan))
        /\ dropped' = dropped + 1
        /\ UNCHANGED <<mapping, route, gone>>
     \/ ~IsExpired(Head(chan)) /\ Dispatch(Head(chan))
  /\ UNCHANGED <<now, load, phase, assoc, replies, arrived, answers, exit, uplink, downlink,
                 sentLate, delivered, answered>>

\* The sweep: routes the client has not used for the idle timeout are dropped.
Reap ==
  /\ HandlerRuns
  /\ \E t \in Targets : mapping[t] # None /\ now - mapping[t].used >= IDLE
  /\ mapping' = [t \in Targets |->
       IF mapping[t] # None /\ now - mapping[t].used >= IDLE THEN None ELSE mapping[t]]
  /\ UNCHANGED <<now, serverVars, route, exit, uplink, downlink, history>>

\* SHUTDOWN_GRACE is over: the handler is dropped, and with it the mapping, the
\* datagrams it had not received and the replies nobody will read.
GraceElapses ==
  /\ phase = "grace" /\ phase' = "ended"
  /\ mapping' = [t \in Targets |-> None]
  /\ chan' = <<>> /\ replies' = <<>>
  /\ gone' = gone + Len(chan) + Len(assoc.queue)
  /\ assoc' = [assoc EXCEPT !.queue = <<>>]
  /\ UNCHANGED <<now, load, dropped, arrived, answers, route, exit, uplink, downlink,
                 sentLate, delivered, answered>>

-----------------------------------------------------------------------------
(* The route tasks: open_route and serve_route *)

MutHasSender(r) == Live(r)

\* The association still maps a target to this route, so its channel is open.
HasSender(r) == \E t \in Targets : mapping[t] # None /\ mapping[t].route = r

\* dial: the name is resolved once, and the socket is connected to a candidate the
\* policy allows; or nothing resolves, is allowed or can be bound.
Dial(t) == (AddressesOf[t] \cap Permitted) \cup {None}

\* The exit task dials and answers; a refusal ends it.
UdpExitRun(r, a) ==
  exit' = [exit EXCEPT ![r] = IF a = None THEN [NoExit EXCEPT !.task = "ended"]
                              ELSE [task |-> "pumping", addr |-> a, bound |-> FALSE]]

\* The answer to the route's Open: its task serves the route, or ends with what
\* was queued for it.
RouteOpens(r) ==
  /\ route[r].task = "opening"
  /\ \E a \in Dial(route[r].target) :
       /\ UdpExitRun(r, a)
       /\ IF a # None
          THEN route' = [route EXCEPT ![r].task = "serving"] /\ UNCHANGED gone
          ELSE /\ route' = [route EXCEPT ![r].task = "ended", ![r].chan = <<>>]
               /\ gone' = gone + Len(route[r].chan)
  /\ UNCHANGED <<now, serverVars, mapping, uplink, downlink, sentLate, delivered, answered>>

\* serve_route, outgoing half: an expired datagram is counted, a live one enters
\* the tunnel with the TTL it has left.
RouteSends(r) ==
  /\ route[r].task = "serving" /\ route[r].chan # <<>>
  /\ route' = [route EXCEPT ![r].chan = Tail(@)]
  /\ LET d == Head(route[r].chan)
         sent == [target |-> d.target, ttl |-> d.deadline - now]
     IN  \/ /\ IsExpired(d)
            /\ dropped' = dropped + 1
            /\ UNCHANGED <<uplink, sentLate, gone>>
         \/ /\ ~IsExpired(d)
            /\ uplink' = [uplink EXCEPT ![r] = Append(@, sent)]
            /\ sentLate' = (sentLate \/ now >= d.deadline)
            /\ gone' = gone + 1
            /\ UNCHANGED dropped
  /\ UNCHANGED <<now, load, phase, assoc, chan, replies, arrived, answers, mapping, exit,
                 downlink, delivered, answered>>

\* serve_route, incoming half: what arrived is absorbed first, the oldest going
\* when the queue is over budget, then one response is handed to the server,
\* waiting for room; once the association is over there is nobody to hand it to.
RouteReceives(r) ==
  /\ route[r].task = "serving" /\ downlink[r] # <<>>
  /\ LET q == FoldLeft(LAMBDA s, d : Append(DropOldest(s, d), d), <<>>, downlink[r])
         reply == [target |-> route[r].target, source |-> Head(q).source,
                   route |-> r, to |-> None]
     IN  \/ /\ phase # "ended" /\ Len(replies) < MAX_QUEUED
            /\ replies' = Append(replies, reply)
            /\ downlink' = [downlink EXCEPT ![r] = Tail(q)]
            /\ UNCHANGED <<route, gone>>
         \/ /\ phase = "ended"
            /\ route' = [route EXCEPT ![r].task = "ended", ![r].chan = <<>>]
            /\ gone' = gone + Len(route[r].chan)
            /\ UNCHANGED <<replies, downlink>>
  /\ UNCHANGED <<now, load, phase, assoc, chan, dropped, arrived, answers, mapping, exit, uplink,
                 sentLate, delivered, answered>>

\* The association dropped this route and nothing it sent is left.
RouteCloses(r) ==
  /\ route[r].task = "serving" /\ ~HasSender(r) /\ route[r].chan = <<>>
  /\ route' = [route EXCEPT ![r].task = "ended"]
  /\ UNCHANGED <<now, serverVars, mapping, exit, uplink, downlink, history>>

\* The session is lost: both halves of the route end with what they held.
SessionLost(r) ==
  /\ route[r].task = "serving"
  /\ route' = [route EXCEPT ![r].task = "ended", ![r].chan = <<>>]
  /\ exit' = [exit EXCEPT ![r].task = "ended"]
  /\ uplink' = [uplink EXCEPT ![r] = <<>>] /\ downlink' = [downlink EXCEPT ![r] = <<>>]
  /\ gone' = gone + Len(route[r].chan)
  /\ UNCHANGED <<now, serverVars, mapping, sentLate, delivered, answered>>

-----------------------------------------------------------------------------
(* The exit: UdpExit::pump *)

\* One datagram of the tunnel reaches the exit's socket.  The first one fixes the
\* association; one whose TTL was spent is not sent.
ExitSends(r) ==
  /\ exit[r].task = "pumping" /\ uplink[r] # <<>>
  /\ LET d == Head(uplink[r])
     IN  /\ uplink' = [uplink EXCEPT ![r] = Tail(@)]
         /\ exit' = [exit EXCEPT ![r].bound = TRUE]
         /\ delivered' = IF d.ttl = 0 THEN delivered
                         ELSE delivered \cup {[asked |-> d.target, addr |-> exit[r].addr]}
  /\ UNCHANGED <<now, serverVars, mapping, route, downlink, sentLate, gone, answered>>

\* The connected socket yields a response of its peer: before the first datagram
\* fixed the association there is nobody to send it to.
ExitReceives(r) ==
  /\ exit[r].task = "pumping" /\ answered < load.answers
  /\ answered' = answered + 1
  /\ downlink' = IF exit[r].bound
                 THEN [downlink EXCEPT ![r] = Append(@, [source |-> exit[r].addr, size |-> 1])]
                 ELSE downlink
  /\ UNCHANGED <<now, serverVars, mapping, route, exit, uplink, sentLate, gone,
                 delivered>>

-----------------------------------------------------------------------------
RouteRuns(r) == RouteOpens(r) \/ RouteSends(r) \/ RouteReceives(r) \/ RouteCloses(r)

Next ==
  \/ ServerNext /\ UNCHANGED <<now, load, routeVars, history>>
  \/ HandlerRecv \/ Reap \/ GraceElapses
  \/ \E r \in Routes : RouteRuns(r) \/ SessionLost(r) \/ ExitSends(r) \/ ExitReceives(r)
  \/ Tick /\ UNCHANGED <<serverVars, routeVars, history>>

-----------------------------------------------------------------------------
(* Properties *)

\* A datagram leaves an exit socket only towards a permitted address of the target
\* its client named, and an answer handed to the client for a target came through a
\* route opened for that target, from the address the route is connected to, and
\* goes to one client endpoint only.
RoutedAsAsked ==
  /\ \A d \in delivered : d.addr \in AddressesOf[d.asked] \cap Permitted
  /\ \A a \in answers : /\ route[a.route].target = a.target
                        /\ exit[a.route].addr = a.source
                        /\ a.to \in Allowed
  /\ \A a, b \in answers : a.to = b.to

\* Every datagram the socket received is held somewhere, is in the tunnel, went
\* with the channel of a route that ended, or is counted as dropped exactly once.
EveryDropIsCounted ==
  LET held == MapThenSumSet(LAMBDA r : Len(route[r].chan), Routes)
  IN  arrived = dropped + Len(assoc.queue) + Len(chan) + held + gone

\* Once an association has ended, every route task it started ends.
RoutesEnd == (phase = "ended") ~> (\A r \in Routes : ~Live(r))
=============================================================================
