---- MODULE MCDatagrams ----
(* Either entry of datagrams on its own: a SOCKS5 UDP association with the   *)
(* tunnel behind it, or a UDP Local Forward.                                 *)
EXTENDS UdpRoutes, ForwardUdp
CONSTANTS c1, c2, x, ip, name, other, denied
VARIABLE entry
MCSources == {c1, c2, x}
MCAddressesOf == (ip :> {ip}) @@ (name :> {ip, other, denied})
MCLoads ==
  {[targets |-> {ip, name}, arrivals |-> 2, answers |-> 1],
   [targets |-> {name}, arrivals |-> 3, answers |-> 1]}
MCLimits == [max_associations |-> 1, queue_ttl |-> 0, association_idle |-> 0]

mcVars == <<entry, vars, forwardVars>>
MCInit == Init /\ ForwardInit /\ entry \in {"socks", "forward"}
          /\ (entry = "forward" => load = CHOOSE l \in Loads : TRUE)
MCNext ==
  \/ entry = "socks" /\ Next /\ UNCHANGED <<entry, forwardVars>>
  \/ entry = "forward" /\ ForwardNext /\ UNCHANGED <<entry, serverVars, routeVars, history>>
  \/ entry = "forward" /\ Tick /\ UNCHANGED <<entry, serverVars, routeVars, history, forwardVars>>

\* Tokio runs a task that can make progress, and a timer that is over fires; the
\* clock, the clients, the targets and the session are under no obligation.
MCSpec ==
  /\ MCInit /\ [][MCNext]_mcVars
  /\ WF_mcVars(GraceElapses /\ UNCHANGED <<entry, forwardVars>>)
  /\ \A r \in Routes : WF_mcVars(RouteRuns(r) /\ UNCHANGED <<entry, forwardVars>>)
  /\ \A k \in Tasks : WF_mcVars(TaskNext(k) /\ UNCHANGED <<entry, serverVars, routeVars, history>>)

\* What leaves the node is what a client asked for, when it still wants it: each
\* datagram and each answer stays with its target and client, and none leaves
\* past its queue TTL through either entry, however long it waited in a queue,
\* in a channel or behind an Open: "a datagram that spent its whole queue budget
\* is dropped, never sent late" (node/udp.rs).
SentAsAsked == RoutedAsAsked /\ ~sentLate /\ ForwardedInTime

\* An association that ended leaves no route task, and a listener that was shut
\* down no association task.
TasksEnd == RoutesEnd /\ TasksStop
====
