--------------------------- MODULE MCRequestPath ----------------------------
(* A client, a node that relays and a node that publishes, with access tables *)
(* that lack a rule or have one too many, every shape of request, and one or  *)
(* two session changes.                                                       *)
EXTENDS RequestPath

MCSlugs   == {"c", "a", "b", "web", "dns"}
MCOthers  == {"a", "b"}
Public    == <<93, 184, 216, 34>>
Private   == <<10, 0, 0, 5>>
Tunnel    == <<Hex(2, 0, 0, 2), 256 * 10, 5, 0, 0, 0, 0, 1>>   \* 6to4 of Private
Ten       == Net(<<10, 0, 0, 0>>, 8)
Site      == Name(<<"www", "site">>)
MCLookups(host) ==
  IF IsLiteral(host) THEN {<<host.ip>>}
  ELSE {<<>>, <<Private, Public>>, <<Public, Private>>, <<Tunnel>>}

Rule(caller, action, node) ==
  [caller |-> caller, action |-> action, allow |-> TRUE, node |-> node,
   service |-> Unset, cidr |-> Unset, ports |-> Unset, proto |-> Unset]
BaseAcl ==
  << Rule("c", "connect_address", Unset),
     [Rule("c", "connect_address", Unset) EXCEPT !.cidr = Ten, !.ports = {80}],
     [Rule("c", "connect_service", "b") EXCEPT !.proto = "tcp"],
     Rule("c", "connect_node_address", "b"),
     Rule("c", "relay", "a"), Rule("c", "relay", "b"),
     Rule("a", "connect_address", Unset),
     Rule("a", "connect_service", "b"),
     Rule("a", "connect_node_address", "b"),
     Rule("a", "relay", "b") >>
Deny(r) == [r EXCEPT !.allow = FALSE]
MCAcls ==
  [i \in DOMAIN BaseAcl |-> RemoveAt(BaseAcl, i)]
  \o <<<<Deny([Rule("c", "connect_address", Unset) EXCEPT !.cidr = Ten])>> \o BaseAcl,
       <<Deny([Rule("c", "connect_service", "b") EXCEPT !.service = "web"])>> \o BaseAcl>>
\* The second service has a target that does not parse.
MCServices ==
  [c |-> <<>>, a |-> <<>>,
   b |-> <<[name |-> "web", proto |-> "tcp",
            target |-> [host |-> Literal(<<127, 0, 0, 1>>), port |-> 8080]],
           [name |-> "dns", proto |-> "udp", target |-> Unset]>>]
Open  == [relays |-> TRUE, nets |-> {Ten}]
Shut  == [relays |-> FALSE, nets |-> {}]
\* One thing is missing or added at a time.
Deployment(sessions, acl, ra, pol) ==
  [sessions |-> sessions, acl |-> acl, relay_allow |-> ra, services |-> MCServices, policy |-> pol]
AllOpen == [c |-> Shut, a |-> Open, b |-> Open]
MCDeployments ==
  <<Deployment(2, BaseAcl, <<"a", "b">>, AllOpen)>>
  \o [i \in DOMAIN MCAcls |-> Deployment(1, MCAcls[i], <<"a", "b">>, AllOpen)]
  \o <<Deployment(1, BaseAcl, <<>>, AllOpen), Deployment(1, BaseAcl, <<"a">>, AllOpen),
       Deployment(1, BaseAcl, <<"a", "b">>, [AllOpen EXCEPT !.a = Shut]),
       Deployment(1, BaseAcl, <<"a", "b">>, [AllOpen EXCEPT !.b = Shut])>>

Web(rev) == Service("b", "web", rev)
Asks(dest, via) == [dest |-> dest, via |-> via, proto |-> "tcp", choice |-> "pinned"]
MCRequests ==
  {Asks(Address(Site, 80), <<>>), Asks(Address(Literal(Private), 80), <<>>),
   Asks(Address(Literal(Private), 80), <<"a">>), Asks(Address(Literal(Private), 80), <<"a", "b">>),
   Asks(Address(Literal(Private), 0), <<>>), Asks(Address(Site, 80), <<"a">>),
   [Asks(Web(NoRevision), <<>>) EXCEPT !.choice = "auto"],
   Asks(Web(1), <<>>), Asks(Web(2), <<"a">>), Asks(Web(NoRevision), <<"a">>),
   Asks(Web(NoRevision), <<"b">>), Asks(Web(NoRevision), <<"a", "a">>),
   [Asks(Web(NoRevision), <<>>) EXCEPT !.proto = "udp"],
   [Asks(Service("b", "dns", NoRevision), <<"a">>) EXCEPT !.proto = "udp"],
   Asks(NodeAddress("b", Literal(Private), 22), <<>>),
   Asks(NodeAddress("b", Literal(Private), 22), <<"a">>),
   Asks(NodeAddress("b", Literal(Public), 22), <<>>)}
=============================================================================
