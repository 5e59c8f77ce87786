---------------------------- MODULE LocalEntries ----------------------------
(***************************************************************************)
(* `wsnet run` and `wsnetd serve`: a document is loaded, the node or the   *)
(* Hub is built from it, its listeners are bound and serve local clients   *)
(* until the node is told to stop.  A setup is the document, what it is    *)
(* started with, and how many clients of each kind connect.                *)
(***************************************************************************)
EXTENDS LocalForward, SocksServer

CONSTANTS
  Setups,    \* a sequence of setups
  Peers,     \* source addresses of local clients
  OsPorts    \* ports the operating system hands out

VARIABLES chosen, phase, why
vars == <<chosen, phase, why, forwardVars, socksVars>>
setup == Setups[chosen]
doc   == setup.doc

Init ==
  /\ chosen \in DOMAIN Setups
  /\ phase = "load" /\ why = <<>>
  /\ ForwardInit /\ SocksInit

Idle == UNCHANGED <<forwardVars, socksVars>>
To(next) == phase' = next /\ UNCHANGED <<chosen, why>>
\* The process ends, and everything it had opened with it.
Fail(reason) ==
  /\ phase' = "failed" /\ why' = reason
  /\ entries' = <<>> /\ fconns' = <<>> /\ socks' = Unset /\ sconns' = <<>> /\ inflight' = <<>>
  /\ UNCHANGED <<chosen, shutdown, online, flips, manager, associations>>

Load ==
  /\ phase = "load" /\ setup.role = "node"
  /\ IF ClientIsValid(doc) THEN To("build") /\ Idle ELSE Fail(<<"load", "document">>)

StartHub ==
  LET refusal == HubRefusal(doc, setup.files)
  IN  /\ phase = "load" /\ setup.role = "hub"
      /\ IF refusal = "none" THEN To("up") /\ Idle ELSE Fail(<<"hub", refusal>>)

Build ==
  LET refusal == BuildRefusal(doc, setup.userpass)
  IN  /\ phase = "build"
      /\ IF refusal = "none" THEN To("control") /\ Idle ELSE Fail(<<"build", refusal>>)

BindControl ==
  /\ phase = "control"
  /\ (To("connect") /\ Idle) \/ Fail(<<"bind", "control">>)

\* Every Hub whose key file reads is tried; the start fails when none answers.
ConnectHubs ==
  /\ phase = "connect"
  /\ \/ /\ \E i \in DOMAIN doc.servers : PskParses(setup.files[doc.servers[i].secret_file])
        /\ To("socks") /\ Idle
     \/ Fail(<<"connect", "no hub">>)

\* start_socks; the address may be in use elsewhere.
StartSocks ==
  LET addr == NodeListen(doc.client.socks_listen)[1]
      cfg  == SocksConfigOf(doc, setup.userpass)
  IN  /\ phase = "socks"
      /\ \/ /\ SocksConfigIsValid(cfg) /\ MayListenOn(cfg, addr.ip)
            /\ To("forwards") /\ socks' = [addr |-> addr, config |-> cfg]
            /\ UNCHANGED <<forwardVars, sconns, inflight, associations>>
         \/ Fail(<<"bind", "socks">>)

Free(addr) == ~Clash(addr, socks.addr) /\ \A n \in DOMAIN entries : ~Clash(addr, entries[n].addr)

\* start_forwards, one add after the other; a refusal drops the manager.
AddForward ==
  LET spec    == doc.forwards[Cardinality(DOMAIN entries) + 1]
      desired == ForwardListen(spec.listen)[1]
      ports   == IF desired.port = 0 THEN OsPorts ELSE {desired.port}
  IN  /\ phase = "forwards" /\ Cardinality(DOMAIN entries) < Len(doc.forwards)
      /\ IF AddRefusal(entries, spec) # "none" THEN Fail(<<"add", AddRefusal(entries, spec)>>)
         ELSE \/ \E p \in ports :
                   LET addr == Socket(desired.ip, p)
                   IN  /\ Free(addr)
                       /\ entries' = [n \in DOMAIN entries \cup {spec.name} |->
                                        IF n = spec.name THEN NewEntry(spec, addr) ELSE entries[n]]
                       /\ UNCHANGED <<chosen, phase, why, socksVars>>
                       /\ UNCHANGED <<fconns, shutdown, online, flips, manager>>
              \/ Fail(<<"bind", "forward">>)

Started ==
  /\ phase = "forwards" /\ Cardinality(DOMAIN entries) = Len(doc.forwards)
  /\ To("up") /\ Idle

\* Node::shutdown, the part that local tasks see: the SOCKS server has no part in it.
Shutdown ==
  /\ phase = "up" /\ setup.role = "node" /\ ~shutdown
  /\ shutdown' = TRUE
  /\ UNCHANGED <<chosen, phase, why, entries, fconns, online, flips, manager, socksVars>>

Arrive ==
  /\ \E peer \in Peers :
       \/ Len(sconns) < setup.proxied /\ SArrive(peer) /\ UNCHANGED forwardVars
       \/ /\ Len(fconns) < setup.forwarded
          /\ \E n \in DOMAIN entries : FArrive(n, peer) /\ UNCHANGED socksVars
  /\ UNCHANGED <<chosen, phase, why>>

Forwarding ==
  /\ phase = "up" /\ entries # <<>> /\ ForwardNext
  /\ UNCHANGED <<chosen, phase, why, socksVars>>
Proxying == SocksNext /\ UNCHANGED <<chosen, phase, why, forwardVars>>

Next ==
  \/ Load \/ StartHub \/ Build \/ BindControl \/ ConnectHubs \/ StartSocks \/ AddForward \/ Started
  \/ Shutdown \/ Arrive \/ Forwarding \/ Proxying

\* Tasks are scheduled, opens and handshakes have a deadline.  Clients and the
\* accept errors of the system need not do anything.
Names == UNION {{Setups[s].doc.forwards[i].name : i \in DOMAIN Setups[s].doc.forwards} :
                  s \in {x \in DOMAIN Setups : Setups[x].role = "node"}}
Ids == 1 .. Max(UNION {{Setups[s].proxied, Setups[s].forwarded} : s \in DOMAIN Setups})
Aside == UNCHANGED <<chosen, phase, why, socksVars>>
Fairness ==
  /\ WF_vars(phase = "up" /\ entries # <<>> /\ (RunManager \/ ManagerEnds) /\ Aside)
  /\ \A n \in Names : WF_vars(phase = "up" /\ n \in DOMAIN entries /\ AcceptLoop(n) /\ Aside)
  /\ \A c \in Ids : WF_vars(phase = "up" /\ c \in DOMAIN fconns /\ ServeTcp(c) /\ Aside)
  /\ \A c \in Ids : WF_vars(c \in DOMAIN sconns /\ ServeConnection(c)
                            /\ UNCHANGED <<chosen, phase, why, forwardVars>>)
Spec == Init /\ [][Next]_vars /\ Fairness

-----------------------------------------------------------------------------
(* Properties. *)
Listed(list, peer) ==
  IF list = <<>> THEN Loopback(peer) ELSE \E i \in DOMAIN list : Covers(list[i], peer)
SpecOf(n) == CHOOSE f \in Range(doc.forwards) : f.name = n

\* Three parsers and two checks later, the document's word holds: a listener off
\* the loopback has an allowlist, and credentials where it is the SOCKS one; and
\* whoever reaches the opener or the handler is in the list the document has for
\* that listener, and has proved the credentials where there are some.
OnlyPermittedPeersGetThrough ==
  /\ socks # Unset /\ ~Loopback(socks.addr.ip)
       => setup.userpass # NoUserPass /\ doc.client.allow_from # <<>>
  /\ \A n \in DOMAIN entries : ~Loopback(entries[n].addr.ip) => SpecOf(n).allow_from # <<>>
  /\ \A c \in DOMAIN fconns : fconns[c].stage \in {"opening", "promoting", "joined"}
       => Listed(SpecOf(fconns[c].entry).allow_from, fconns[c].peer)
  /\ \A c \in DOMAIN sconns : sconns[c].stage \in {"connecting", "relaying", "associated"}
       => /\ Listed(doc.client.allow_from, sconns[c].peer)
          /\ setup.userpass # NoUserPass => sconns[c].proved

\* A document that loads is refused later for one of these reasons only: a
\* listener that is a name, SOCKS off the loopback without credentials, a
\* payload bound above the default, a datagram forward, two texts of one
\* address, a key file, or the machine (no Hub answers, an address is in use).
\* No allowlist, chain, destination, name or table that loaded is refused.
AcceptedDocumentStarts ==
  phase = "failed" /\ why[2] # "document" =>
    CASE why = <<"build", "listen">>  -> ~IsIp(doc.client.socks_listen.host)
      [] why = <<"build", "exposed">> -> /\ ~Loopback(doc.client.socks_listen.host.ip)
                                         /\ setup.userpass = NoUserPass
      [] why = <<"build", "socks">>   -> doc.client.udp_max_payload_bytes > UDP_MAX_PAYLOAD_DEFAULT
      [] why = <<"add", "listen">>    -> \E f \in Range(doc.forwards) : ~IsIp(f.listen.host)
      [] why = <<"add", "udp">>       -> \E f \in Range(doc.forwards) : f.proto = "udp"
      [] why = <<"add", "address">>   ->
           \E f, g \in Range(doc.forwards) : f.listen # g.listen /\ f.listen.host = g.listen.host
      [] why = <<"hub", "listen">>    -> ~IsLoopbackHost(doc.server.listen.host)
      [] why = <<"hub", "secret">>    -> \E n \in Range(doc.nodes) : ~SecretParses(setup.files[n.secret_file])
      [] why[1] \in {"connect", "bind"} -> TRUE
      [] OTHER                        -> FALSE

\* A connection made after its forward was removed, or after the node was told
\* to stop, never reaches the opener, whatever the accept loop was doing.
LateConnectionsAreNotServed ==
  \A c \in DOMAIN fconns : fconns[c].late => fconns[c].stage \in {"queued", "taken", "reset"}

\* The limiter's count of a source is the number of its connections that are
\* still negotiating, never more than the limit; a source without one is gone
\* from the map.
SlotsAreExact ==
  LET holders(ip) == {c \in DOMAIN sconns : sconns[c].peer = ip
                        /\ sconns[c].stage \in {"negotiating", "authenticating"}}
  IN  /\ DOMAIN inflight = {ip \in Peers : holders(ip) # {}}
      /\ \A ip \in DOMAIN inflight :
           inflight[ip] = Cardinality(holders(ip)) /\ inflight[ip] <= MAX_UNAUTH

\* After shutdown the manager has joined every accept loop, whichever step each
\* of them was at; no handshake holds its slot for ever; and every forwarded
\* connection that has a task gets its answer.
LocalTasksEnd ==
  /\ (shutdown /\ entries # <<>>) ~> (manager = "ended")
  /\ \A c \in Ids :
       /\ (c \in DOMAIN sconns /\ sconns[c].slot) ~> ~(c \in DOMAIN sconns /\ sconns[c].slot)
       /\ (c \in DOMAIN fconns /\ fconns[c].stage \in {"serving", "opening", "promoting"})
            ~> ~(c \in DOMAIN fconns /\ fconns[c].stage \in {"serving", "opening", "promoting"})

=============================================================================
