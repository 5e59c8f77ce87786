---------------------------- MODULE RequestPath -----------------------------
(***************************************************************************)
(* One request from the node that makes it to the socket that serves it.   *)
(*                                                                         *)
(* client -> Hub -> hop -> Hub -> ... -> exit: each arrow out of a node is *)
(* a leg, an Open on that node's own session.  The Hub authorises a leg    *)
(* and either dials, or bridges it to the node that is next, which plans   *)
(* it: dial a target of its own, or hand it back to the Hub as a new leg.  *)
(* Answers travel back leg by leg.  Nodes other than the client come and   *)
(* go.  What the bridge does once it is open is StreamPath's subject, the  *)
(* client's own deadline and retries are NodeOpen's.                       *)
(***************************************************************************)
EXTENDS Routing

CONSTANTS
  Client, Others,   \* the node that asks; the nodes that publish and relay
  Deployments,      \* a sequence of [acl, relay_allow, services, policy] and
                    \* of how many sessions a node opens, one after the other
  Requests,         \* [dest, via, proto, choice]
  Lookups(_),       \* what a host may resolve to: sequences of addresses
  MaxDrops          \* sessions that are lost

VARIABLES
  chosen,     \* which deployment is configured
  request,    \* what the client will ask for
  gen,        \* the number of a node's newest session
  up,         \* the nodes whose newest session is in the Hub's table
  lease,      \* Registry.nodes: the services of a node, or Unset
  revision,   \* Registry.revision
  lists,      \* PeerLists under way to the client
  directory,  \* the client's ServiceDirectory
  asked,      \* whether it has asked
  legs,       \* every Open, in order
  dials,      \* history: every socket connected for the request
  drops

net  == <<gen, up, lease, revision, lists, drops>>
env  == <<chosen, request>>
vars == <<env, net, directory, asked, legs, dials>>

Nodes    == Others \cup {Client}
Statuses == {"ok", "denied", "refused", "offline", "unreachable", "timeout"}
dep == Deployments[chosen]
\* The two ends of a leg: what the Hub does with it, and what the node it was
\* bridged to does.
HubStages  == {"opening", "dialling", "bridging", "waiting", "answered", "done"}
ExitStages == {"none", "planning", "dialling", "chained", "replied", "over"}

Leg(caller, via, dest, proto) ==
  [caller |-> caller, session |-> gen[caller], via |-> via, dest |-> dest,
   proto |-> proto, hub |-> "opening", result |-> Unset,
   exit |-> Unset, exitSession |-> 0, onward |-> <<>>, stage |-> "none",
   target |-> Unset, next |-> 0, reply |-> Unset]

TypeOK ==
  /\ chosen \in DOMAIN Deployments /\ request \in Requests
  /\ gen \in [Nodes -> Nat] /\ up \subseteq Nodes
  /\ DOMAIN lease = Nodes /\ revision \in Nat
  /\ asked \in BOOLEAN
  /\ \A k \in DOMAIN legs :
       /\ legs[k].caller \in Nodes /\ legs[k].hub \in HubStages
       /\ legs[k].stage \in ExitStages
       /\ legs[k].result \in Statuses \cup {Unset}
       /\ legs[k].reply \in Statuses \cup {Unset}

-----------------------------------------------------------------------------
(* The registry and the directory. *)

\* publish, for each service of a Hello: a fresh lease starts at revision 1,
\* and only a service whose name and target parse is taken.
Published(n) ==
  {[name |-> s.name, proto |-> s.proto, revision |-> 1] :
     s \in {s \in Range(dep.services[n]) : IsSlug(s.name) /\ s.target # Unset}}

\* lookup: the lease of a service, or none
Leased(n, name) ==
  IF lease[n] = Unset THEN {} ELSE {s \in lease[n] : s.name = name}

\* discoverable
Discoverable(caller, n, s) ==
  Allowed(dep.acl, Query(caller, "connect_service", n, s.name, Unset, Unset, s.proto))

\* peer_list and peer_list_canonical, for the client
PeerListOf(leases, version) ==
  [version  |-> version,
   services |-> UNION {{[node |-> n, name |-> s.name, proto |-> s.proto] :
                          s \in {s \in leases[n] : Discoverable(Client, n, s)}} :
                        n \in {n \in Nodes : leases[n] # Unset}}]

\* broadcast_peer_lists, as far as the client is concerned: a request that pins
\* its Hub reads no directory, and then none is kept.
Tell ==
  lists' = IF request.choice = "auto" THEN lists \cup {PeerListOf(lease', revision')}
           ELSE lists

\* A node that the request neither names nor passes changes nothing but the
\* directory: it stays away from a request that reads none.
Involved ==
  IF request.choice = "auto" THEN Others
  ELSE Others \cap (Range(request.via) \cup {NamedNode(request.dest)})

\* on_hello of a new session: register_ready, publish, broadcast_peer_lists.
Register(n) ==
  /\ n \in Involved /\ n \notin up /\ gen[n] < dep.sessions
  /\ gen' = [gen EXCEPT ![n] = @ + 1]
  /\ up' = up \cup {n}
  /\ lease' = [lease EXCEPT ![n] = Published(n)]
  /\ revision' = revision + 1 + Cardinality(Published(n))
  /\ Tell
  /\ UNCHANGED <<env, directory, asked, legs, dials, drops>>

\* close_session of a node's session.
Drop(n) ==
  /\ n \in up \ {Client} /\ drops < MaxDrops
  /\ drops' = drops + 1
  /\ up' = up \ {n}
  /\ lease' = [lease EXCEPT ![n] = Unset]
  /\ revision' = revision + 1
  /\ Tell
  /\ UNCHANGED <<env, gen, directory, asked, legs, dials>>

\* apply_peer_list: carriers reorder, and a list that is not newer is dropped.
ApplyPeerList ==
  \E l \in lists :
    /\ lists' = lists \ {l}
    /\ directory' = IF directory.known /\ l.version <= directory.list.version
                    THEN directory ELSE [known |-> TRUE, list |-> l]
    /\ UNCHANGED <<env, gen, up, lease, revision, asked, legs, dials, drops>>

Init ==
  /\ chosen \in DOMAIN Deployments /\ request \in Requests
  /\ up = {Client}
  /\ gen = [n \in Nodes |-> IF n = Client THEN 1 ELSE 0]
  /\ lease = [n \in Nodes |-> IF n = Client THEN Published(n) ELSE Unset]
  /\ revision = 1
  /\ lists = IF request.choice = "auto" THEN {PeerListOf(lease, revision)} ELSE {}
  /\ directory = [known |-> FALSE, list |-> Unset]
  /\ asked = FALSE /\ legs = <<>> /\ dials = {} /\ drops = 0

-----------------------------------------------------------------------------
(* The client. *)

\* select_hub with one Hub: a Hub whose directory is known to lack the
\* service is passed over, one that has said nothing is not.
Selectable ==
  \/ request.choice = "pinned" \/ request.dest.type # "service" \/ ~directory.known
  \/ \E s \in directory.list.services :
       s.node = request.dest.node /\ s.name = request.dest.name

\* open_flow, once: without a Hub the flow fails as offline and nothing is sent.
OpenFlow ==
  /\ ~asked
  /\ asked' = TRUE
  /\ legs' = IF Selectable
             THEN <<Leg(Client, request.via, request.dest, request.proto)>> ELSE <<>>
  /\ UNCHANGED <<env, net, directory, dials>>

Alive(n, session) == n \in up /\ gen[n] = session
CallerAlive(k)    == Alive(legs[k].caller, legs[k].session)
ExitAlive(k)      == Alive(legs[k].exit, legs[k].exitSession)

Update(k, leg)     == legs' = [legs EXCEPT ![k] = leg]
Answer(k, status)  == Update(k, [legs[k] EXCEPT !.hub = "answered", !.result = status])

-----------------------------------------------------------------------------
(* The Hub. *)

Actions == [address |-> "connect_address", service |-> "connect_service",
            node_address |-> "connect_node_address"]
OpenQuery(l) ==
  Query(l.caller, Actions[l.dest.type],
        IF l.dest.type = "address" THEN Unset ELSE l.dest.node,
        IF l.dest.type = "service" THEN l.dest.name ELSE Unset,
        IF HasHostPort(l.dest) THEN HostIp(l.dest.host) ELSE Unset,
        IF HasHostPort(l.dest) THEN l.dest.port ELSE Unset,
        l.proto)
RelayQuery(l, hop) == Query(l.caller, "relay", hop, Unset, Unset, Unset, l.proto)

\* Both gates of a hop: the switch and a relay rule for this caller.
MayRelay(l, hop) ==
  /\ RelayEnabled(dep.relay_allow, hop)
  /\ Allowed(dep.acl, RelayQuery(l, hop))

\* authorize_open: why a leg is refused, or Unset.
Refusal(l) ==
  LET d == l.dest
      found == IF d.type = "service" THEN Leased(d.node, d.name) ELSE {}
  IN  CASE \/ ~DestinationIsValid(d) \/ ~ChainIsValid(l.caller, l.via, d)
           \/ ~Allowed(dep.acl, OpenQuery(l))
           \/ \E hop \in Range(l.via) : ~MayRelay(l, hop)      -> "denied"
        [] l.via # <<>>                                        -> Unset
        [] d.type = "service" /\ found = {}                    -> "offline"
        [] \E s \in found :
             \/ s.proto # l.proto
             \/ d.revision # NoRevision /\ d.revision # s.revision -> "refused"
        [] d.type = "node_address" /\ lease[d.node] = Unset    -> "offline"
        [] OTHER                                               -> Unset

\* ExitPlan: the node the leg is bridged to, NoNode when the Hub dials, and
\* the chain that is left for that node.
NextNode(l) == IF l.via # <<>> THEN Head(l.via) ELSE NamedNode(l.dest)
Onward(l)   == IF l.via # <<>> THEN Tail(l.via) ELSE <<>>

\* on_open: authorize, look the session up and claim the stream in one step,
\* then leave the rest to a task.
OnOpen(k) ==
  LET l == legs[k]
      n == NextNode(l)
  IN  /\ l.hub = "opening" /\ CallerAlive(k)
      /\ CASE Refusal(l) # Unset -> Answer(k, Refusal(l))
           [] Refusal(l) = Unset /\ n = NoNode ->
                Update(k, [l EXCEPT !.hub = "dialling"])
           [] Refusal(l) = Unset /\ n # NoNode /\ n \notin up -> Answer(k, "offline")
           [] OTHER -> Update(k, [l EXCEPT !.hub = "bridging", !.exit = n,
                                  !.exitSession = gen[n], !.onward = Onward(l)])
      /\ UNCHANGED <<env, net, directory, asked, dials>>

Dial(at, host, port, k) == [at |-> at, host |-> host, port |-> port, leg |-> k]

\* HubExit::query and the egress check of one candidate.
Permitted(l, ip) ==
  EgressAllows(EgressPolicy(dep.acl), OpenQuery(l), ip)

\* What is reported when no candidate could be used.
DialFailures(l, ips) ==
  CASE ips = <<>>               -> {"unreachable"}
    [] ~Permitted(l, Last(ips)) -> {"denied"}
    [] OTHER                    -> {"refused", "unreachable"}

\* HubExit::run, dial and answer: candidates are tried in order and the first
\* permitted one that accepts is used; otherwise the last failure is reported.
HubDial(k) ==
  LET l == legs[k]
  IN  /\ l.hub = "dialling"
      /\ \E ips \in Lookups(l.dest.host) :
           \/ \E i \in DOMAIN ips :
                /\ Permitted(l, ips[i])
                /\ dials' = dials \cup {Dial("hub", Literal(ips[i]), l.dest.port, k)}
                /\ Answer(k, "ok")
           \/ \E status \in DialFailures(l, ips) : Answer(k, status) /\ UNCHANGED dials
      /\ UNCHANGED <<env, net, directory, asked>>

\* Bridge::open_on_publisher: the session found by on_open may be closed by now.
BridgeOpens(k) ==
  /\ legs[k].hub = "bridging"
  /\ IF ExitAlive(k)
     THEN Update(k, [legs[k] EXCEPT !.hub = "waiting", !.stage = "planning"])
     ELSE Answer(k, "refused")
  /\ UNCHANGED <<env, net, directory, asked, dials>>

\* await_open: the node's answer, passed on as it is.
BridgeHears(k) ==
  /\ legs[k].hub = "waiting" /\ legs[k].stage = "replied" /\ ExitAlive(k)
  /\ Update(k, [legs[k] EXCEPT !.hub = "answered", !.stage = "over",
                               !.result = legs[k].reply])
  /\ UNCHANGED <<env, net, directory, asked, dials>>

\* close_streams of the node's session ends the channel the bridge waits on.
BridgeLosesExit(k) ==
  /\ legs[k].hub = "waiting" /\ ~ExitAlive(k)
  /\ Answer(k, "unreachable")
  /\ UNCHANGED <<env, net, directory, asked, dials>>

\* Mutant: the wait has no deadline.
MutBridgeTimesOut(k) == FALSE /\ UNCHANGED vars
\* RELAY_OPEN_TIMEOUT.  The node goes on with what it was asked.
BridgeTimesOut(k) ==
  /\ legs[k].hub = "waiting" /\ ExitAlive(k)
  /\ Answer(k, "timeout")
  /\ UNCHANGED <<env, net, directory, asked, dials>>

-----------------------------------------------------------------------------
(* The node a leg was bridged to. *)

Policy(n) == dep.policy[n]
PermitsNodeAddress(n, host) ==
  IsLiteral(host) /\ \E c \in Policy(n).nets : Covers(c, host.ip)

\* resolve_inbound of a service: the node's own table, and only revision 1.
ServiceTargets(n, d) == {s \in Range(dep.services[n]) : s.name = d.name}
ResolveService(n, d) ==
  CASE ServiceTargets(n, d) = {}                          -> [refused |-> "offline"]
    [] d.revision # NoRevision /\ d.revision # 1          -> [refused |-> "offline"]
    [] \E s \in ServiceTargets(n, d) : s.target = Unset   -> [refused |-> "unreachable"]
    [] OTHER -> [dial |-> (CHOOSE s \in ServiceTargets(n, d) : TRUE).target]

\* Mutant: a leg with no hops left is always meant for this node.
MutPlanInbound(n, l) ==
  LET d == l.dest
  IN  CASE l.onward # <<>> ->
             IF Policy(n).relays THEN [forward |-> TRUE] ELSE [refused |-> "denied"]
        [] d.type = "service" -> ResolveService(n, d)
        [] OTHER -> IF d.port # 0 /\ PermitsNodeAddress(n, d.host)
                    THEN [dial |-> [host |-> d.host, port |-> d.port]]
                    ELSE [refused |-> "denied"]

\* plan_inbound: hops left, or another node's destination, make this node a
\* hop; otherwise it dials, within its own tables.
PlanInbound(n, l) ==
  LET d == l.dest
  IN  CASE l.onward # <<>> \/ (d.type # "address" /\ d.node # n) ->
             IF Policy(n).relays THEN [forward |-> TRUE] ELSE [refused |-> "denied"]
        [] d.type = "service" -> ResolveService(n, d)
        [] OTHER -> IF d.port # 0 /\ PermitsNodeAddress(n, d.host)
                    THEN [dial |-> [host |-> d.host, port |-> d.port]]
                    ELSE [refused |-> "denied"]

Reply(k, status) == Update(k, [legs[k] EXCEPT !.stage = "replied", !.reply = status])

\* on_inbound_open; relay_chain_leg opens the next leg on the same session.
OnInboundOpen(k) ==
  LET l == legs[k]
      plan == PlanInbound(l.exit, l)
  IN  /\ l.stage = "planning" /\ ExitAlive(k)
      /\ \/ "refused" \in DOMAIN plan /\ Reply(k, plan.refused)
         \/ "dial" \in DOMAIN plan
            /\ Update(k, [l EXCEPT !.stage = "dialling", !.target = plan.dial])
         \/ "forward" \in DOMAIN plan
            /\ legs' = Append([legs EXCEPT ![k].stage = "chained",
                                           ![k].next = Len(legs) + 1],
                              Leg(l.exit, l.onward, l.dest, l.proto))
      /\ UNCHANGED <<env, net, directory, asked, dials>>

\* serve_inbound up to its answer.  The task outlives the session.
ServeInbound(k) ==
  /\ legs[k].stage = "dialling"
  /\ \/ /\ dials' = dials \cup {Dial(legs[k].exit, legs[k].target.host,
                                     legs[k].target.port, k)}
        /\ Reply(k, "ok")
     \/ \E status \in {"refused", "unreachable"} : Reply(k, status) /\ UNCHANGED dials
  /\ UNCHANGED <<env, net, directory, asked>>

\* Mutant: the hop reports that the next leg was answered, not how.
MutHopHears(k) ==
  /\ legs[k].stage = "chained" /\ ExitAlive(k)
  /\ legs[legs[k].next].hub = "done"
  /\ Reply(k, "ok")
  /\ UNCHANGED <<env, net, directory, asked, dials>>

\* relay_chain_leg's task: the answer to the next leg is the answer to this one.
HopHears(k) ==
  /\ legs[k].stage = "chained" /\ ExitAlive(k)
  /\ legs[legs[k].next].hub = "done"
  /\ Reply(k, legs[legs[k].next].result)
  /\ UNCHANGED <<env, net, directory, asked, dials>>

\* on_open_result at the node that made the leg.
CallerHears(k) ==
  /\ legs[k].hub = "answered" /\ CallerAlive(k)
  /\ Update(k, [legs[k] EXCEPT !.hub = "done"])
  /\ UNCHANGED <<env, net, directory, asked, dials>>

HubStep(k)  == OnOpen(k) \/ HubDial(k) \/ BridgeOpens(k)
BridgeEnds(k) == BridgeHears(k) \/ BridgeLosesExit(k) \/ BridgeTimesOut(k)
NodeStep(k) == OnInboundOpen(k) \/ ServeInbound(k) \/ HopHears(k)

Next ==
  \/ \E n \in Others : Register(n) \/ Drop(n)
  \/ ApplyPeerList
  \/ OpenFlow
  \/ \E k \in DOMAIN legs :
       HubStep(k) \/ BridgeEnds(k) \/ NodeStep(k) \/ CallerHears(k)

MaxLegs == Max({Len(r.via) : r \in Requests}) + 1

(* The Hub's tasks run, a bridge waits no longer than its timeout, and what  *)
(* was sent on a session that stays up arrives.  Nothing is assumed of the   *)
(* nodes a leg is bridged to, nor of a target.                               *)
Fairness ==
  /\ WF_vars(ApplyPeerList)
  /\ \A k \in 1 .. MaxLegs :
       /\ WF_vars(k \in DOMAIN legs /\ HubStep(k))
       /\ WF_vars(k \in DOMAIN legs /\ BridgeEnds(k))
       /\ WF_vars(k \in DOMAIN legs /\ CallerHears(k))

Spec == Init /\ [][Next]_vars /\ Fairness

-----------------------------------------------------------------------------
(* What the client may reach, in terms of the configuration alone. *)
FirstMatch(q, i) ==
  Matches(dep.acl[i], q) /\ \A j \in 1 .. i - 1 : ~Matches(dep.acl[j], q)
Permits(q) == \E i \in DOMAIN dep.acl : dep.acl[i].allow /\ FirstMatch(q, i)
AskedLeg  == [caller |-> Client, dest |-> request.dest, proto |-> request.proto]
\* The IPv4 address that a 6to4, NAT64 or mapped address stands for.
Carried(ip) ==
  CASE Len(ip) = 4                              -> ip
    [] ip[1] = SixToFour[1]                     -> EmbeddedV4(ip[2], ip[3])
    [] SubSeq(ip, 1, 6) \in {SubSeq(Nat64, 1, 6), SubSeq(Mapped, 1, 6)} ->
         EmbeddedV4(ip[7], ip[8])
    [] OTHER                                    -> ip
ExitNode(r) == IF r.dest.type = "address" THEN Last(r.via) ELSE r.dest.node

\* Every socket connected for a request was permitted: the first matching rule
\* of the access table allows the client this destination, every hop has both
\* the relay switch and a relay rule, a node dials only what its own service
\* table or allowlist names, and an address the Hub dials is public, with any
\* IPv4 address inside it, or lies in a network that a rule of this caller
\* writes down (authorize_open, plan_inbound and HubExit::dial, three decisions
\* taken at different times).
DialledIsPermitted ==
  \A x \in dials :
    /\ Permits(OpenQuery(AskedLeg))
    /\ \A hop \in Range(request.via) :
         /\ hop \in Range(dep.relay_allow)
         /\ Permits(RelayQuery(AskedLeg, hop))
    /\ x.at = "hub" =>
         \/ Classify(Carried(x.host.ip)) = "public"
            /\ Permits([OpenQuery(AskedLeg) EXCEPT !.ip = x.host.ip])
         \/ \E i \in DOMAIN dep.acl :
              /\ dep.acl[i].allow /\ dep.acl[i].caller = Client
              /\ dep.acl[i].cidr # Unset /\ Covers(dep.acl[i].cidr, x.host.ip)
    /\ x.at # "hub" =>
         \/ \E s \in Range(dep.services[x.at]) :
              request.dest.type = "service" /\ s.name = request.dest.name
              /\ s.target = [host |-> x.host, port |-> x.port]
         \/ /\ request.dest.type # "service"
            /\ x.host = request.dest.host /\ x.port = request.dest.port
            /\ \E c \in dep.policy[x.at].nets : Covers(c, x.host.ip)

\* A chain runs as it was asked for: the legs are opened by the client and
\* then by the hops in their order, with the destination as the client wrote
\* it; only the node at the end of the chain dials, or the Hub when there is
\* no chain and no node is named; and a hop that does not consent to relaying
\* is never passed (spawn_relay_chain, relay_chain_leg, plan_inbound).
ChainRunsAsAsked ==
  /\ \A k \in DOMAIN legs :
       /\ k <= Len(request.via) + 1
       /\ legs[k].caller = (<<Client>> \o request.via)[k]
       /\ legs[k].via = SubSeq(request.via, k, Len(request.via))
       /\ legs[k].dest = request.dest
       /\ k > 1 => dep.policy[legs[k].caller].relays
  /\ \A x \in dials :
       /\ x.leg = Len(legs)
       /\ IF x.at = "hub" THEN request.via = <<>> /\ request.dest.type = "address"
          ELSE x.at = ExitNode(request)

\* What the client is told is true: "ok" only when the target of the chain's
\* end was reached, and a refusal on policy only when nothing was dialled.  A
\* late answer of a leg that timed out, or of a node that lost its session,
\* must not turn into either (await_open, refuse_caller, relay_leg).
AnswersAreTruthful ==
  \A k \in DOMAIN legs :
    /\ legs[k].result = "ok" => dials # {}
    /\ legs[k].result \in {"denied", "offline"} => dials = {}

\* Every leg is answered while its caller's session lives, although the node
\* it was bridged to may hang, vanish or come back (RELAY_OPEN_TIMEOUT, and
\* close_streams waking the bridge).
EveryLegIsAnswered ==
  \A k \in 1 .. MaxLegs :
    (k \in DOMAIN legs) ~>
      (k \in DOMAIN legs /\ (legs[k].hub = "done" \/ ~CallerAlive(k)))
=============================================================================
