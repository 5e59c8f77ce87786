------------------------------ MODULE Routing -------------------------------
(***************************************************************************)
(* wsnet-routing: the access table, the relay switch, the router and the   *)
(* shape of a chain.                                                       *)
(*                                                                         *)
(* An IP address is the sequence of its four octets or eight segments, a   *)
(* network is [addr, prefix].  A host is [ip |-> a], an address literal,   *)
(* or [name |-> labels], the labels of a domain in lower case.  Unset is   *)
(* an Option that is None; BadNet is a text that is no network.            *)
(***************************************************************************)
EXTENDS Destinations, Integers, Sequences, FiniteSets, SequencesExt

CONSTANTS MAX_CHAIN_HOPS, Unset, BadNet

Literal(ip)  == [ip |-> ip]
Name(labels) == [name |-> labels]
IsLiteral(host) == host # NoText /\ "ip" \in DOMAIN host
HostIp(host) == IF IsLiteral(host) THEN host.ip ELSE Unset

\* IpNet::contains: an IPv4 network holds no IPv6 address.
Covers(net, ip) ==
  LET width   == IF Len(ip) = 4 THEN 8 ELSE 16
      bits(i) == net.prefix - width * (i - 1)
      free(i) == IF bits(i) >= width THEN 0
                 ELSE IF bits(i) <= 0 THEN width ELSE width - bits(i)
  IN  /\ Len(ip) = Len(net.addr)
      /\ \A i \in DOMAIN ip : ip[i] \div 2^free(i) = net.addr[i] \div 2^free(i)

-----------------------------------------------------------------------------
(* AclTable.  A rule and a query have the fields of the structs. *)
Query(caller, action, node, service, ip, port, proto) ==
  [caller |-> caller, action |-> action, node |-> node, service |-> service,
   ip |-> ip, port |-> port, proto |-> proto]

\* Every constraint a rule states must hold; a network needs a known address.
Matches(rule, q) ==
  /\ rule.caller = q.caller /\ rule.action = q.action
  /\ rule.node # Unset => q.node = rule.node
  /\ rule.service # Unset => q.service = rule.service
  /\ rule.ports # Unset => q.port # Unset /\ q.port \in rule.ports
  /\ rule.proto # Unset => rule.proto = q.proto
  /\ rule.cidr # Unset => q.ip # Unset /\ Covers(rule.cidr, q.ip)

AclCompiles(rules) == \A i \in DOMAIN rules : rules[i].cidr # BadNet

\* check: the first rule that matches decides, and none means no.
Allowed(table, q) ==
  \E i \in DOMAIN table :
    /\ table[i].allow /\ Matches(table[i], q)
    /\ \A j \in 1 .. i - 1 : ~Matches(table[j], q)

\* RelayAllow::is_allowed
RelayEnabled(relayAllow, node) == \E i \in DOMAIN relayAllow : relayAllow[i] = node

-----------------------------------------------------------------------------
(* The router.  A matcher is written as its prefix and the value after it;  *)
(* Pattern::parse refuses an unknown prefix and an ill-formed value.        *)
PatternParses(p) ==
  \/ p.prefix = "*"
  \/ p.prefix \in {"domain", "domain_suffix"} /\ p.value # <<>>
  \/ p.prefix = "cidr" /\ p.value # BadNet
  \/ p.prefix = "node" /\ IsSlug(p.value)
  \/ p.prefix = "service" /\ IsSlug(p.value.node)
                          /\ (p.value.name = "*" \/ IsSlug(p.value.name))

\* RouterTable::new
RouterCompiles(rules) ==
  \A i \in DOMAIN rules : \A p \in Range(rules[i].matchers) : PatternParses(p)

\* validate_chain; the reasons, all reported as Denied, are not told apart.
ChainIsValid(caller, via, d) ==
  /\ Len(via) <= MAX_CHAIN_HOPS
  /\ \A i \in DOMAIN via : IsSlug(via[i]) /\ via[i] # caller
  /\ IsInjective(via)
  /\ NamedNode(d) # NoNode => \A i \in DOMAIN via : via[i] # NamedNode(d)

-----------------------------------------------------------------------------
(***************************************************************************)
(* The Hub's egress guard (egress.rs): the class of an address and the two *)
(* gates an address passes before it is dialled.                           *)
(***************************************************************************)
Net(addr, prefix) == [addr |-> addr, prefix |-> prefix]
In(addr, prefix, ip) == Covers(Net(addr, prefix), ip)

ClassifyV4(ip) ==
  CASE ip = <<255, 255, 255, 255>>  -> "broadcast"
    [] In(<<127, 0, 0, 0>>, 8, ip)  -> "loopback"
    [] \/ In(<<10, 0, 0, 0>>, 8, ip)
       \/ In(<<172, 16, 0, 0>>, 12, ip)
       \/ In(<<192, 168, 0, 0>>, 16, ip) -> "private"
    [] ip \in {<<169, 254, 169, 254>>, <<169, 254, 170, 2>>} -> "metadata"
    [] In(<<169, 254, 0, 0>>, 16, ip) -> "link_local"
    [] ip[1] = 0                      -> "unspecified"
    [] In(<<224, 0, 0, 0>>, 4, ip)    -> "multicast"
    [] In(<<100, 64, 0, 0>>, 10, ip)  -> "shared"
    [] \/ In(<<192, 0, 0, 0>>, 24, ip)     \/ In(<<192, 0, 2, 0>>, 24, ip)
       \/ In(<<192, 88, 99, 0>>, 24, ip)   \/ In(<<198, 18, 0, 0>>, 15, ip)
       \/ In(<<198, 51, 100, 0>>, 24, ip)  \/ In(<<203, 0, 113, 0>>, 24, ip)
       \/ ip[1] >= 240                -> "reserved"
    [] OTHER                          -> "public"

\* embedded_v4
EmbeddedV4(high, low) == <<high \div 256, high % 256, low \div 256, low % 256>>

Hex(a, b, c, d) == 4096 * a + 256 * b + 16 * c + d
FirstSeg(a) == <<a, 0, 0, 0, 0, 0, 0, 0>>
Segs2(a, b) == <<a, b, 0, 0, 0, 0, 0, 0>>
Mapped == <<0, 0, 0, 0, 0, Hex(15, 15, 15, 15), 0, 0>>
Nat64  == Segs2(Hex(0, 0, 6, 4), Hex(15, 15, 9, 11))
SixToFour == FirstSeg(Hex(2, 0, 0, 2))
X2001 == Hex(2, 0, 0, 1)

\* Mutant: an address inside a 6to4 address is not looked at.
MutClassifyV6(ip) ==
  IF In(Mapped, 96, ip) \/ In(Nat64, 96, ip) THEN ClassifyV4(EmbeddedV4(ip[7], ip[8]))
  ELSE "public"

ClassifyV6(ip) ==
  CASE In(Mapped, 96, ip)                            -> ClassifyV4(EmbeddedV4(ip[7], ip[8]))
    [] ip = FirstSeg(0)                              -> "unspecified"
    [] ip = <<0, 0, 0, 0, 0, 0, 0, 1>>               -> "loopback"
    [] In(FirstSeg(Hex(15, 15, 0, 0)), 8, ip)        -> "multicast"
    [] In(FirstSeg(Hex(15, 12, 0, 0)), 7, ip)        -> "unique_local"
    [] In(FirstSeg(Hex(15, 14, 8, 0)), 10, ip)       -> "link_local"
    [] In(Nat64, 96, ip)                             -> ClassifyV4(EmbeddedV4(ip[7], ip[8]))
    [] In(SixToFour, 16, ip)                         -> ClassifyV4(EmbeddedV4(ip[2], ip[3]))
    [] \/ In(Segs2(X2001, 0), 32, ip)
       \/ In(Segs2(X2001, Hex(0, 13, 11, 8)), 32, ip)
       \/ In(FirstSeg(Hex(0, 1, 0, 0)), 64, ip)
       \/ In(FirstSeg(Hex(15, 14, 12, 0)), 10, ip)
       \/ In(Segs2(X2001, 2), 32, ip)
       \/ In(Segs2(X2001, 16), 28, ip)               -> "reserved"
    [] OTHER                                         -> "public"

Classify(ip) == IF Len(ip) = 4 THEN ClassifyV4(ip) ELSE ClassifyV6(ip)

\* EgressPolicy::from_rules.  A table that does not compile denies everything.
Compiled(rules) == IF AclCompiles(rules) THEN rules ELSE <<>>
EgressPolicy(rules) ==
  [all      |-> Compiled(rules),
   explicit |-> Compiled(SelectSeq(rules, LAMBDA r : r.cidr # Unset))]

\* EgressPolicy::check: a special address needs a rule that wrote its network.
EgressAllows(policy, q, ip) ==
  Allowed(IF Classify(ip) = "public" THEN policy.all ELSE policy.explicit,
          [q EXCEPT !.ip = ip])
=============================================================================
