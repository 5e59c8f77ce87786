--------------------------- MODULE MCLocalEntries ---------------------------
(* Two client documents that start, one of them off the loopback, with a few   *)
(* local clients each; and documents that differ from one of these in a single *)
(* field, at and beyond the bounds of that field.                              *)
EXTENDS LocalEntries

MCSlugs == {"c", "a", "b", "hub", "node", "h", "web", "db", "auto", "k"}
Home    == <<127, 0, 0, 1>>
Lan     == <<10, 0, 0, 5>>
Public  == <<93, 184, 216, 34>>
V6Home  == <<0, 0, 0, 0, 0, 0, 0, 1>>
Ten     == [addr |-> <<10, 0, 0, 0>>, prefix |-> 8]
At(ip, port) == Plain(Literal(ip), port)
MCPeers   == {Home, Lan, Public}
MCOsPorts == {49152}

Forward(name, listen) ==
  [name |-> name, listen |-> listen, allow_from |-> <<>>, hub |-> "auto", via |-> <<>>,
   proto |-> "tcp", destination |-> Service("b", "web", NoRevision)]
Guarded(f) == [f EXCEPT !.listen = At(Unspecified, 8080), !.allow_from = <<Ten>>]
Base ==
  [client |-> [DefaultClient EXCEPT !.node_id = "c", !.udp_enabled = TRUE],
   servers |-> <<[hub_id |-> "h", url |-> [scheme |-> "https", authority |-> "hub"],
                  key_id |-> "k", secret_file |-> "psk"]>>,
   router |-> <<[matchers |-> <<[prefix |-> "*", value |-> "*"]>>, via |-> <<"a">>]>>,
   services |-> <<[name |-> "web", proto |-> "tcp", target |-> At(Home, 8080)]>>,
   forwards |-> <<Forward("web", At(Home, 8080))>>,
   acl |-> <<[caller |-> "a", node |-> Unset, service |-> "web", cidr |-> Ten]>>,
   namespace |-> DefaultNamespace, transport |-> DefaultTransport, decoy |-> DefaultDecoy]
Exposed ==
  [Base EXCEPT !.client.socks_listen = At(Lan, 1080), !.client.allow_from = <<Ten>>,
               !.forwards = <<Guarded(Forward("web", At(Home, 8080)))>>]
Two(listen) == [Base EXCEPT !.forwards = <<Forward("web", At(Home, 8080)), Forward("db", listen)>>]
First(f) == [Base EXCEPT !.forwards = <<f>>]

Key(raw, trimmed, compact, hex) ==
  [psk |-> [raw |-> raw, trimmed |-> trimmed, compact |-> compact, hex |-> hex]]
HexKey == Key(65, 64, 64, TRUE)
Node(d, userpass, proxied, forwarded) ==
  [role |-> "node", doc |-> d, files |-> HexKey, userpass |-> userpass,
   proxied |-> proxied, forwarded |-> forwarded]
Plainly(docs) == [i \in DOMAIN docs |-> Node(docs[i], NoUserPass, 0, 1)]

Listening ==
  LET on(t) == [Base EXCEPT !.client.socks_listen = t]
  IN  << on(NoAddress), on(At(Home, 0)), on(At(Home, 65536)), on(At(V6Home, 1080)),
         on(Text("bracketed", Literal(V6Home), 1080)), on(Plain(Localhost, 1080)),
         on(Plain(NoText, 1080)), on(At(Lan, 1080)),
         [Exposed EXCEPT !.client.allow_from = <<BadNet>>],
         [Exposed EXCEPT !.client.allow_from = <<Bare(Lan)>>],
         [Base EXCEPT !.client.allow_from = <<Ten>>] >>
Sizes ==
  << [Base EXCEPT !.client.udp_max_payload_bytes = UDP_MAX_PAYLOAD_DEFAULT + 1],
     [Base EXCEPT !.client.udp_max_payload_bytes = MAX_UDP_PAYLOAD + 1],
     [Base EXCEPT !.client.udp_queue_ttl_ms = 99],
     [Base EXCEPT !.transport.max_candidates = 3], [Base EXCEPT !.transport.resume_grace_secs = 0],
     [Base EXCEPT !.transport.session_window_bytes = 0],
     [Base EXCEPT !.transport.flow_window_bytes = SESSION_WINDOW + 1],
     [Base EXCEPT !.transport.control_reserve_bytes = 0],
     [Base EXCEPT !.transport.profiles = <<>>],
     [Base EXCEPT !.transport.profiles = <<"json", "json">>],
     [Base EXCEPT !.decoy.interval_min_secs = 15, !.decoy.interval_max_secs = 2],
     [Base EXCEPT !.decoy.max_bytes_per_sec = 4097],
     [Base EXCEPT !.decoy.allowed_origins = <<[scheme |-> "ftp", authority |-> "x"]>>],
     [Base EXCEPT !.namespace = [enabled |-> TRUE, suffix |-> NoText]] >>
Naming ==
  << [Base EXCEPT !.client.node_id = NoText], [Base EXCEPT !.servers = <<>>],
     [Base EXCEPT !.servers = @ \o @], [Base EXCEPT !.services = @ \o @],
     [Base EXCEPT !.servers[1].url.authority = NoText],
     [Base EXCEPT !.services[1].target.port = 0],
     [Base EXCEPT !.services[1].proto = "udp", !.client.udp_enabled = FALSE],
     [Base EXCEPT !.router[1].via = <<"c">>], [Base EXCEPT !.acl[1].cidr = BadNet],
     [Base EXCEPT !.client.allow_node_address = <<BadNet>>] >>
Forwards ==
  LET web == Forward("web", At(Home, 8080))
  IN  << First([web EXCEPT !.listen = Plain(Localhost, 8080)]),
         First([web EXCEPT !.listen = Plain(NoText, 8080), !.allow_from = <<Ten>>]),
         First([web EXCEPT !.listen = At(Lan, 8080)]),
         First([web EXCEPT !.hub = "k"]), First([web EXCEPT !.destination.node = NoText]),
         First([web EXCEPT !.via = <<"a", "b">>]), First([web EXCEPT !.proto = "udp"]),
         First([web EXCEPT !.listen = At(Home, 1080)]),
         Two(At(Home, 8080)), Two(At(V6Home, 8080)),
         Two(Text("bracketed", Literal(Home), 8080)), Two(At(Unspecified, 8080)),
         [Two(At(Home, 0)) EXCEPT !.forwards[2].name = "web"] >>

HubNode == [id |-> "c", key_id |-> "k", secret_file |-> "psk"]
HubBase == [server |-> DefaultServer, nodes |-> <<HubNode>>, acl |-> Base.acl]
OfHub(d, files) == [role |-> "hub", doc |-> d, files |-> files, userpass |-> NoUserPass,
                      proxied |-> 0, forwarded |-> 0]
HubSetups ==
  << OfHub(HubBase, HexKey), OfHub(HubBase, Key(32, 31, 31, FALSE)),
     OfHub(HubBase, Key(68, 67, 64, TRUE)), OfHub(HubBase, Key(31, 31, 31, FALSE)),
     OfHub([HubBase EXCEPT !.server.listen = Plain(Localhost, 8443)], HexKey),
     OfHub([HubBase EXCEPT !.server.listen = At(Lan, 8443), !.server.allow_from = <<Ten>>], HexKey),
     OfHub([HubBase EXCEPT !.server.listen = At(Lan, 8443)], HexKey),
     OfHub([HubBase EXCEPT !.server.auth_window_secs = 59], HexKey),
     OfHub([HubBase EXCEPT !.server.relay_allow = <<NoText>>], HexKey),
     OfHub([HubBase EXCEPT !.nodes = @ \o @], HexKey),
     OfHub([HubBase EXCEPT !.acl[1].cidr = BadNet], HexKey) >>

Proxy(d) == [d EXCEPT !.forwards = <<>>]
MCSetups ==
  << Node(Base, NoUserPass, 0, 2), Node(Two(At(Home, 0)), NoUserPass, 0, 1),
     Node(Proxy(Exposed), "pair", 2, 0), Node(Exposed, "pair", 0, 1), Node(Exposed, NoUserPass, 1, 1),
     Node(Proxy(Base), "pair", 1, 0), Node(Proxy(Base), NoUserPass, 3, 0),
     Node(Proxy([Exposed EXCEPT !.client.udp_enabled = FALSE]), "pair", 1, 0),
     [Node(Base, NoUserPass, 0, 0) EXCEPT !.files = Key(31, 31, 31, FALSE)],
     [Node(Proxy(Base), NoUserPass, 0, 0) EXCEPT !.files = Key(68, 67, 64, TRUE)] >>
  \o Plainly(Listening) \o Plainly(Sizes) \o Plainly(Naming) \o Plainly(Forwards) \o HubSetups

MCGreetings == {{}, {"NoAuth"}, {"NoAuth", "UserPass"}}
Asked(command) == [version |-> 5, command |-> command, rsv |-> 0, atyp |-> "v4", port |-> 80]
MCSocksRequests ==
  {Asked("connect"), Asked("udp"), [Asked("connect") EXCEPT !.port = 0],
   [Asked("other") EXCEPT !.atyp = "other"], [Asked("udp") EXCEPT !.rsv = 1, !.port = 0]}
=============================================================================
