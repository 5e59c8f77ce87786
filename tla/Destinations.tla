---------------------------- MODULE Destinations ----------------------------
(***************************************************************************)
(* The `Open` destination union of wsnet-routing (dest.rs): an address, a  *)
(* service published by a node, or an address in a node's view.            *)
(***************************************************************************)
CONSTANTS
  Slugs,    \* the texts in use that are normalised ASCII slugs
  NoText,   \* the empty text
  NoNode,   \* Option::None where a node is expected
  NoRevision

\* `is_slug`: which texts are slugs is data; the empty text is not one.
IsSlug(text) == text # NoText /\ text \in Slugs

Address(host, port) == [type |-> "address", host |-> host, port |-> port]
Service(node, name, revision) ==
  [type |-> "service", node |-> node, name |-> name, revision |-> revision]
NodeAddress(node, host, port) ==
  [type |-> "node_address", node |-> node, host |-> host, port |-> port]

\* `named_node`: for a service, its publisher.
NamedNode(d) == IF d.type = "address" THEN NoNode ELSE d.node
HasHostPort(d) == d.type # "service"

\* `Destination::validate`
DestinationIsValid(d) ==
  /\ d.type # "address" => IsSlug(d.node)
  /\ d.type = "service" => IsSlug(d.name)
  /\ d.type # "service" => d.host # NoText /\ d.port # 0
=============================================================================
