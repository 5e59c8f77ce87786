----------------------------- MODULE ConfigDoc ------------------------------
(***************************************************************************)
(* wsnet-config: the client and the server document and what loading one   *)
(* checks.  A document is the record of its tables.  An address text is    *)
(* [form, host, port]: plain `host:port` or bracketed `[host]:port`, or    *)
(* NoAddress, a text without a colon.  NoText is an empty or blank text,   *)
(* Garbled one with a character that its field does not admit, Bare(ip) an *)
(* address where a network belongs.                                        *)
(***************************************************************************)
EXTENDS Routing

CONSTANTS NoAddress, Garbled

-----------------------------------------------------------------------------
(* The budgets of wsnet-limits that a document is held to. *)
AUTH_WINDOW    == 60 .. 300
AUTH_NONCES    == 1 .. 65536
UDP_MAX_PAYLOAD_DEFAULT == 61440
MAX_UDP_PAYLOAD == 65507
UDP_HEADER_MARGIN == 264
UDP_QUEUE_TTL  == 100 .. 5000
CANDIDATES     == 1 .. 2
GRACE          == 1 .. 10
SESSION_WINDOW == 8 * 1024 * 1024
JITTER         == 2 .. 15
BACKGROUND     == 1 .. 4096
PROFILES       == {"binary", "json", "html", "js", "css"}

-----------------------------------------------------------------------------
(* Field-level helpers. *)
Text(form, host, port) == [form |-> form, host |-> host, port |-> port]
Plain(host, port)      == Text("plain", host, port)
Bare(ip)               == [bare |-> ip]
Localhost              == Name(<<"localhost">>)
IsIp(host)   == host \notin {NoText, Garbled} /\ IsLiteral(host)
IsV6(host)   == IsIp(host) /\ Len(host.ip) = 8
IsU16(port)  == port \in 0 .. 65535
Loopback(ip) == IF Len(ip) = 4 THEN ip[1] = 127 ELSE ip = <<0, 0, 0, 0, 0, 0, 0, 1>>

\* What precedes the port can be told from it: an IPv6 literal needs brackets.
Splits(text) == text # NoAddress /\ (text.form = "bracketed" \/ ~IsV6(text.host))

\* parse_host_port succeeds
IsHostPort(text) == Splits(text) /\ text.host \notin {NoText, Garbled} /\ IsU16(text.port)

\* is_loopback_host: `localhost` is taken at its word.
IsLoopbackHost(host) == host = Localhost \/ (IsIp(host) /\ Loopback(host.ip))

IsCidr(entry) == entry # BadNet /\ "addr" \in DOMAIN entry
AreCidrs(entries) == \A i \in DOMAIN entries : IsCidr(entries[i])

\* Mutant: a listener that names an address needs no allowlist.
MutListenerIsValid(text, allowFrom, zeroAllowed) ==
  /\ IsHostPort(text)
  /\ text.port = 0 => zeroAllowed
  /\ AreCidrs(allowFrom)

\* check_listener
ListenerIsValid(text, allowFrom, zeroAllowed) ==
  /\ IsHostPort(text)
  /\ text.port = 0 => zeroAllowed
  /\ AreCidrs(allowFrom)
  /\ ~IsLoopbackHost(text.host) => allowFrom # <<>>

NonEmpty(text) == text # NoText
\* check_url: the scheme, and an authority right after it
IsUrl(url) == url.scheme \in {"http", "https"} /\ url.authority \notin {NoText, Garbled}
IsDnsSuffix(suffix) == suffix \notin {NoText, Garbled}
Distinct(list, Key(_)) ==
  \A i, j \in DOMAIN list : Key(list[i]) = Key(list[j]) => i = j

\* check_acl
AclIsValid(rules) ==
  \A i \in DOMAIN rules :
    /\ IsSlug(rules[i].caller)
    /\ rules[i].node # Unset => IsSlug(rules[i].node)
    /\ rules[i].service # Unset => IsSlug(rules[i].service)
    /\ rules[i].cidr # Unset => IsCidr(rules[i].cidr)

-----------------------------------------------------------------------------
(* The server document. *)
DefaultServer ==
  [hub_id |-> "hub", listen |-> Plain(Literal(<<127, 0, 0, 1>>), 8443), allow_from |-> <<>>,
   relay_allow |-> <<>>, auth_window_secs |-> 120, auth_nonce_max_per_node |-> 65536,
   auth_nonce_store |-> Unset, decoy_site |-> "builtin"]

ServerSectionIsValid(s) ==
  /\ IsSlug(s.hub_id)
  /\ ListenerIsValid(s.listen, s.allow_from, FALSE)
  /\ s.auth_window_secs \in AUTH_WINDOW
  /\ s.auth_nonce_max_per_node \in AUTH_NONCES
  /\ NonEmpty(s.auth_nonce_store)
  /\ NonEmpty(s.decoy_site)

NodeEntryIsValid(n) == IsSlug(n.id) /\ NonEmpty(n.key_id) /\ NonEmpty(n.secret_file)

\* ServerConfig::validate
ServerIsValid(doc) ==
  /\ ServerSectionIsValid(doc.server)
  /\ \A i \in DOMAIN doc.nodes : NodeEntryIsValid(doc.nodes[i])
  /\ Distinct(doc.nodes, LAMBDA n : n.id)
  /\ \A i \in DOMAIN doc.server.relay_allow : IsSlug(doc.server.relay_allow[i])
  /\ AclIsValid(doc.acl)

-----------------------------------------------------------------------------
(* The client document. *)
DefaultClient ==
  [node_id |-> "node", socks_listen |-> Plain(Literal(<<127, 0, 0, 1>>), 1080),
   carrier |-> "auto", allow_from |-> <<>>, udp_enabled |-> FALSE,
   allow_node_address |-> <<>>, relay_forward |-> FALSE,
   udp_max_payload_bytes |-> UDP_MAX_PAYLOAD_DEFAULT, udp_queue_ttl_ms |-> 1000]
DefaultNamespace == [enabled |-> FALSE, suffix |-> "wsnet.invalid"]
DefaultTransport ==
  [max_candidates |-> 2, resume_grace_secs |-> 10, flow_window_bytes |-> 256 * 1024,
   session_window_bytes |-> SESSION_WINDOW, control_reserve_bytes |-> 64 * 1024,
   profiles |-> <<"binary">>]
DefaultDecoy ==
  [interval_min_secs |-> 2, interval_max_secs |-> 15, max_bytes_per_sec |-> 4096,
   allowed_origins |-> <<>>]

ClientSectionIsValid(c) ==
  /\ IsSlug(c.node_id)
  /\ ListenerIsValid(c.socks_listen, c.allow_from, FALSE)
  /\ AreCidrs(c.allow_node_address)
  /\ c.udp_max_payload_bytes \in 1 .. MAX_UDP_PAYLOAD
  /\ c.udp_queue_ttl_ms \in UDP_QUEUE_TTL

ServerEntryIsValid(e) ==
  IsSlug(e.hub_id) /\ IsUrl(e.url) /\ NonEmpty(e.key_id) /\ NonEmpty(e.secret_file)

ServiceIsValid(s, udpEnabled) ==
  /\ IsSlug(s.name)
  /\ IsHostPort(s.target) /\ s.target.port # 0
  /\ s.proto = "udp" => udpEnabled

ForwardIsValid(f, nodeId, hubIds, udpEnabled) ==
  /\ IsSlug(f.name)
  /\ ListenerIsValid(f.listen, f.allow_from, TRUE)
  /\ f.hub = "auto" \/ f.hub \in hubIds
  /\ f.destination # Unset /\ DestinationIsValid(f.destination)
  /\ f.proto = "udp" => udpEnabled
  /\ ChainIsValid(nodeId, f.via, f.destination)

\* Two texts of one address are told apart here, and ports left to the system.
ListensAreDistinct(forwards) ==
  Distinct(SelectSeq(forwards, LAMBDA f : f.listen.port # 0), LAMBDA f : f.listen)

NamespaceIsValid(n) == n.enabled => IsDnsSuffix(n.suffix)

WindowIsValid(bytes, session) == bytes \in 1 .. session

TransportIsValid(t) ==
  /\ t.max_candidates \in CANDIDATES
  /\ t.resume_grace_secs \in GRACE
  /\ t.session_window_bytes # 0
  /\ WindowIsValid(t.flow_window_bytes, t.session_window_bytes)
  /\ WindowIsValid(t.control_reserve_bytes, t.session_window_bytes)
  /\ t.profiles # <<>> /\ Range(t.profiles) \subseteq PROFILES /\ IsInjective(t.profiles)

DecoyIsValid(d) ==
  /\ {d.interval_min_secs, d.interval_max_secs} \subseteq JITTER
  /\ d.interval_min_secs <= d.interval_max_secs
  /\ d.max_bytes_per_sec \in BACKGROUND
  /\ \A i \in DOMAIN d.allowed_origins : IsUrl(d.allowed_origins[i])

\* A rule's hops are checked before a destination is known.
Placeholder == Address(Name(<<"chain-check", "invalid">>), 1)

\* ClientConfig::validate; which of its errors comes first is not told apart.
ClientIsValid(doc) ==
  LET hubIds == {doc.servers[i].hub_id : i \in DOMAIN doc.servers}
  IN  /\ ClientSectionIsValid(doc.client)
      /\ \A i \in DOMAIN doc.servers : ServerEntryIsValid(doc.servers[i])
      /\ Distinct(doc.servers, LAMBDA e : e.hub_id)
      /\ RouterCompiles(doc.router)
      /\ \A i \in DOMAIN doc.router :
           ChainIsValid(doc.client.node_id, doc.router[i].via, Placeholder)
      /\ \A i \in DOMAIN doc.services : ServiceIsValid(doc.services[i], doc.client.udp_enabled)
      /\ Distinct(doc.services, LAMBDA s : s.name)
      /\ \A i \in DOMAIN doc.forwards :
           ForwardIsValid(doc.forwards[i], doc.client.node_id, hubIds, doc.client.udp_enabled)
      /\ Distinct(doc.forwards, LAMBDA f : f.name)
      /\ ListensAreDistinct(doc.forwards)
      /\ AclIsValid(doc.acl)
      /\ NamespaceIsValid(doc.namespace)
      /\ TransportIsValid(doc.transport)
      /\ DecoyIsValid(doc.decoy)

-----------------------------------------------------------------------------
(***************************************************************************)
(* From a loaded document to bound listeners: Node::build, the listeners   *)
(* of Node::start, ForwardManager::add and Hub::with_profiles.  Each of    *)
(* them reads the address texts with a parser of its own.                  *)
(***************************************************************************)
CONSTANTS NoUserPass  \* no SOCKS credentials are given

Unspecified == <<0, 0, 0, 0>>
Socket(ip, port) == [ip |-> ip, port |-> port]
Refused == <<>>

\* Two sockets the operating system does not bind together. (external)
Clash(a, b) == a.port = b.port /\ (a.ip = b.ip \/ Unspecified \in {a.ip, b.ip})

-----------------------------------------------------------------------------
(* The node. *)
\* parse_listen of the node: brackets are optional, names are refused.
NodeListen(text) ==
  IF text # NoAddress /\ IsIp(text.host) /\ IsU16(text.port)
  THEN <<Socket(text.host.ip, text.port)>> ELSE Refused

\* IpPrefix::from_str: a bare address is a network of one.
PrefixParses(entry) == entry # BadNet
PrefixOf(entry) ==
  IF "addr" \in DOMAIN entry THEN entry
  ELSE [addr |-> entry.bare, prefix |-> IF Len(entry.bare) = 4 THEN 32 ELSE 128]

SocksConfigOf(doc, userpass) ==
  [source_allowlist |-> [i \in DOMAIN doc.client.allow_from |-> PrefixOf(doc.client.allow_from[i])],
   udp_enabled |-> doc.client.udp_enabled, max_udp_payload |-> doc.client.udp_max_payload_bytes,
   udp_queue_ttl |-> doc.client.udp_queue_ttl_ms, userpass |-> userpass]

\* SocksConfig::validate
SocksConfigIsValid(cfg) ==
  /\ cfg.max_udp_payload \in 1 .. UDP_MAX_PAYLOAD_DEFAULT
  /\ cfg.max_udp_payload + UDP_HEADER_MARGIN <= MAX_UDP_PAYLOAD
  /\ cfg.udp_queue_ttl \in UDP_QUEUE_TTL

\* Mutant: credentials or an allowlist are enough off the loopback.
MutMayListenOn(cfg, ip) ==
  ~Loopback(ip) => (cfg.userpass # NoUserPass \/ cfg.source_allowlist # <<>>)

\* The rest of validate_for: off the loopback, credentials and an allowlist.
MayListenOn(cfg, ip) ==
  ~Loopback(ip) => cfg.userpass # NoUserPass /\ cfg.source_allowlist # <<>>

\* Node::build: why it refuses, in the order it looks.
BuildRefusal(doc, userpass) ==
  LET listen == NodeListen(doc.client.socks_listen)
      cfg    == SocksConfigOf(doc, userpass)
  IN  IF listen = Refused THEN "listen"
      ELSE IF \E i \in DOMAIN doc.client.allow_from : ~PrefixParses(doc.client.allow_from[i]) THEN "allow_from"
      ELSE IF ~SocksConfigIsValid(cfg) THEN "socks"
      ELSE IF ~MayListenOn(cfg, listen[1].ip) THEN "exposed"
      ELSE IF ~ClientIsValid(doc) THEN "document"
      ELSE "none"

-----------------------------------------------------------------------------
(* A Local Forward. *)
\* parse_listen of wsnet-forward: as the node's, and no host is any address.
ForwardListen(text) ==
  IF text = NoAddress \/ ~IsU16(text.port) THEN Refused
  ELSE IF text.host = NoText THEN <<Socket(Unspecified, text.port)>>
  ELSE NodeListen(text)

\* validate_spec: no caller is known, so no hop can be taken for it.
SpecIsValid(spec) ==
  /\ IsSlug(spec.name)
  /\ spec.hub = "auto" \/ IsSlug(spec.hub)
  /\ DestinationIsValid(spec.destination)
  /\ ChainIsValid(NoText, spec.via, spec.destination)

\* ForwardManager::add up to the bind: why it refuses, in the order it looks.
\* The node gives its manager no opener for datagrams.
AddRefusal(entries, spec) ==
  LET desired == ForwardListen(spec.listen)
  IN  IF ~SpecIsValid(spec) THEN "spec"
      ELSE IF desired = Refused THEN "listen"
      ELSE IF ~Loopback(desired[1].ip) /\ spec.allow_from = <<>> THEN "exposed"
      ELSE IF ~AreCidrs(spec.allow_from) THEN "allow_from"
      ELSE IF spec.proto = "udp" THEN "udp"
      ELSE IF spec.name \in DOMAIN entries THEN "name"
      ELSE IF desired[1].port # 0 /\ \E n \in DOMAIN entries : entries[n].addr = desired[1] THEN "address"
      ELSE "none"

NewEntry(spec, addr) ==
  [addr |-> addr, allow |-> spec.allow_from, destination |-> spec.destination,
   state |-> "Bound", removed |-> FALSE, loop |-> "idle", woken |-> FALSE,
   attempts |-> 0, events |-> <<>>]

-----------------------------------------------------------------------------
(* The Hub. *)
\* parse_listen of the Hub: `localhost` is an address, and only loopback will do.
HubListen(text) ==
  LET ip == IF text.host = Localhost THEN <<127, 0, 0, 1>> ELSE text.host.ip
  IN  IF Splits(text) /\ IsU16(text.port) /\ (text.host = Localhost \/ IsIp(text.host))
         /\ Loopback(ip)
      THEN <<Socket(ip, text.port)>> ELSE Refused

\* parse_secret: 64 hexadecimal digits between blanks, or 32 bytes.  A file is
\* [raw, trimmed, compact, hex]: its length, without outer blanks, without any,
\* and whether what is left is hexadecimal.
SecretParses(file) ==
  (file.trimmed = 64 /\ file.compact = 64 /\ file.hex) \/ file.raw = 32

\* read_psk of the node: blanks may be anywhere.
PskParses(file) == (file.compact = 64 /\ file.hex) \/ file.raw = 32

\* `wsnetd`: the document, the key files, then Hub::with_profiles.
HubRefusal(doc, files) ==
  IF ~ServerIsValid(doc) THEN "document"
  ELSE IF \E i \in DOMAIN doc.nodes : ~SecretParses(files[doc.nodes[i].secret_file]) THEN "secret"
  ELSE IF HubListen(doc.server.listen) = Refused THEN "listen"
  ELSE IF ~AclCompiles(doc.acl) THEN "acl"
  ELSE "none"
=============================================================================
