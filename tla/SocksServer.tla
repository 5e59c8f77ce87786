---------------------------- MODULE SocksServer -----------------------------
(***************************************************************************)
(* wsnet-socks: the inbound server, from an accepted connection to the     *)
(* handler.  `sconns` are the connections in the order they came; the end  *)
(* of one is named after the counter that is raised for it, or "Broken"    *)
(* where none is.  The datagrams of an association are in SocksUdp.        *)
(***************************************************************************)
EXTENDS ConfigDoc

CONSTANTS
  MAX_UNAUTH,   \* max_unauth_connections_per_ip
  Greetings,    \* what a client may offer: sets of methods, {} is malformed
  SocksRequests \* what a client may ask for: [version, command, rsv, atyp, port]

VARIABLES
  socks,        \* the running server, [addr, config], or Unset
  sconns,
  inflight,     \* UnauthLimiter: source address to connections that hold a slot
  associations  \* the last association id given

socksVars == <<socks, sconns, inflight, associations>>
SocksInit == socks = Unset /\ sconns = <<>> /\ inflight = <<>> /\ associations = 0

SourceAllows(cfg, ip) ==
  \/ cfg.source_allowlist = <<>>
  \/ \E i \in DOMAIN cfg.source_allowlist : Covers(cfg.source_allowlist[i], ip)

\* Greeting::choose
Choose(userpass, offered) ==
  LET acceptable == IF userpass = NoUserPass THEN "NoAuth" ELSE "UserPass"
  IN  IF acceptable \in offered THEN acceptable ELSE "none"

\* UnauthLimiter::release; an entry that reaches zero is taken out.
Without(ip) ==
  IF ip \notin DOMAIN inflight THEN inflight
  ELSE IF inflight[ip] > 1 THEN [inflight EXCEPT ![ip] = @ - 1]
  ELSE [x \in DOMAIN inflight \ {ip} |-> inflight[x]]

\* Mutant: the slot is given back when the connection ends and not before.
MutRelease(c) == UNCHANGED inflight

\* UnauthSlot::release: once.
Release(c) ==
  inflight' = IF sconns[c].slot THEN Without(sconns[c].peer) ELSE inflight

\* The task returns; dropping the slot releases it if it is still held.
Finish(c, end) ==
  /\ sconns' = [sconns EXCEPT ![c].stage = "ended", ![c].end = end, ![c].slot = FALSE]
  /\ inflight' = IF sconns[c].slot THEN Without(sconns[c].peer) ELSE inflight

-----------------------------------------------------------------------------
SArrive(peer) ==
  /\ socks # Unset
  /\ Loopback(socks.addr.ip) => Loopback(peer)
  /\ sconns' = Append(sconns, [peer |-> peer, stage |-> "accepted", end |-> "none", slot |-> FALSE,
                               proved |-> FALSE, reply |-> "none", id |-> 0])
  /\ UNCHANGED <<socks, inflight, associations>>

\* The allowlist, then the budget of the source.
Admit(c) ==
  LET peer == sconns[c].peer
      held == IF peer \in DOMAIN inflight THEN inflight[peer] ELSE 0
  IN  /\ sconns[c].stage = "accepted"
      /\ IF ~SourceAllows(socks.config, peer) THEN Finish(c, "SourceDenied")
         ELSE IF held >= MAX_UNAUTH THEN Finish(c, "ConnectionLimitDropped")
         ELSE /\ inflight' = [x \in DOMAIN inflight \cup {peer} |->
                                IF x = peer THEN held + 1 ELSE inflight[x]]
              /\ sconns' = [sconns EXCEPT ![c].stage = "negotiating", ![c].slot = TRUE]
      /\ UNCHANGED <<socks, associations>>

\* The negotiation succeeded: the slot is given back.
Admitted(c, proved) ==
  /\ Release(c)
  /\ sconns' = [sconns EXCEPT ![c].stage = "requesting", ![c].slot = FALSE, ![c].proved = proved]

\* negotiate, up to the choice of a method; {} is a greeting that does not read.
Negotiate(c, offered) ==
  LET method == Choose(socks.config.userpass, offered)
  IN  /\ sconns[c].stage = "negotiating"
      /\ IF offered = {} THEN Finish(c, "Broken")
         ELSE IF method = "none" THEN Finish(c, "MethodRejected")
         ELSE IF method = "NoAuth" THEN Admitted(c, FALSE)
         ELSE sconns' = [sconns EXCEPT ![c].stage = "authenticating"] /\ UNCHANGED inflight
      /\ UNCHANGED <<socks, associations>>

\* RFC 1929: the configured pair, another one, or something that does not read.
Authenticate(c, given) ==
  /\ sconns[c].stage = "authenticating"
  /\ CASE given = "right" -> Admitted(c, TRUE)
       [] given = "wrong" -> Finish(c, "AuthFailed")
       [] given = "broken" -> Finish(c, "Broken")
  /\ UNCHANGED <<socks, associations>>

\* The deadline of the negotiation, and that of the request.
HandshakeTimesOut(c) ==
  /\ sconns[c].stage \in {"negotiating", "authenticating", "requesting"}
  /\ Finish(c, "HandshakeTimeout")
  /\ UNCHANGED <<socks, associations>>

\* Request::read: why it refuses, in the order it looks.
RequestError(r) ==
  IF r.version # 5 THEN "RequestMalformed"
  ELSE IF r.command \notin {"connect", "bind", "udp"} THEN "UnsupportedCommand"
  ELSE IF r.rsv # 0 THEN "RequestMalformed"
  ELSE IF r.atyp \notin {"v4", "v6", "domain"} THEN "UnsupportedAtyp"
  ELSE IF r.port = 0 /\ r.command # "udp" THEN "PortZeroRejected"
  ELSE "none"

\* SocksError::reply_code
ReplyCode(error) ==
  IF error = "UnsupportedAtyp" THEN "AddressTypeNotSupported"
  ELSE IF error = "UnsupportedCommand" THEN "CommandNotSupported"
  ELSE "GeneralFailure"

\* A failure reply, then the close.
Refuse(c, error) ==
  /\ sconns' = [sconns EXCEPT ![c].stage = "ended", ![c].end = error, ![c].reply = ReplyCode(error)]
  /\ UNCHANGED <<inflight, associations>>

ReadRequest(c, r) ==
  /\ sconns[c].stage = "requesting"
  /\ IF RequestError(r) # "none" THEN Refuse(c, RequestError(r))
     ELSE IF r.command = "connect"
     THEN /\ sconns' = [sconns EXCEPT ![c].stage = "connecting"]
          /\ UNCHANGED <<inflight, associations>>
     ELSE IF r.command = "udp" /\ socks.config.udp_enabled
     THEN /\ associations' = associations + 1
          /\ sconns' = [sconns EXCEPT ![c].stage = "associated", ![c].id = associations + 1]
          /\ UNCHANGED inflight
     ELSE Refuse(c, "UnsupportedCommand")
  /\ UNCHANGED socks

\* SocksBridge::connect, with the code reply_for gives an error: no Hub to open
\* on is a refusal, any other failure is general.
ConnectAnswers(c) ==
  /\ sconns[c].stage = "connecting"
  /\ \/ sconns' = [sconns EXCEPT ![c].stage = "relaying", ![c].reply = "Succeeded"]
     \/ \E code \in {"ConnectionRefused", "GeneralFailure"} :
          sconns' = [sconns EXCEPT ![c].stage = "ended", ![c].end = "ConnectFailed", ![c].reply = code]
  /\ UNCHANGED <<socks, inflight, associations>>

RelayEnds(c) ==
  /\ sconns[c].stage \in {"relaying", "associated"}
  /\ sconns' = [sconns EXCEPT ![c].stage = "ended", ![c].end =
                  IF sconns[c].stage = "relaying" THEN "ConnectSucceeded" ELSE "UdpAssociationEnded"]
  /\ UNCHANGED <<socks, inflight, associations>>

\* What the task of a connection does by itself, with a timer behind each wait.
ServeConnection(c) ==
  Admit(c) \/ HandshakeTimesOut(c) \/ ConnectAnswers(c)

SocksNext ==
  \E c \in DOMAIN sconns :
    \/ ServeConnection(c) \/ RelayEnds(c)
    \/ \E offered \in Greetings : Negotiate(c, offered)
    \/ \E given \in {"right", "wrong", "broken"} : Authenticate(c, given)
    \/ \E r \in SocksRequests : ReadRequest(c, r)
=============================================================================
