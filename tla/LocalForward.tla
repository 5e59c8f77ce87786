---------------------------- MODULE LocalForward ----------------------------
(***************************************************************************)
(* wsnet-forward at run time: the accept loop of every TCP forward and the *)
(* task of every connection.  `entries` is the manager's map together with *)
(* the entries that were removed and whose tasks still hold them; `fconns` *)
(* are the connections that local clients made, in order.                  *)
(*                                                                         *)
(* A loop is idle (not run yet), at its top, entering (both flags read,    *)
(* not yet waiting), waiting in its select, holding a connection it just   *)
(* accepted, or ended.                                                     *)
(***************************************************************************)
EXTENDS ConfigDoc

CONSTANTS EVENT_HISTORY, MaxFlips

VARIABLES
  entries, fconns,
  shutdown,   \* the watch channel all loops share
  online,     \* whether a ready Hub advertises the target
  flips,      \* how often that changed
  manager     \* ForwardManager::run: "idle", "running" or "ended"

forwardVars == <<entries, fconns, shutdown, online, flips, manager>>

ForwardInit ==
  /\ entries = <<>> /\ fconns = <<>>
  /\ shutdown = FALSE /\ online \in BOOLEAN /\ flips = 0 /\ manager = "idle"

AllowsOpen(state) == state \in {"Bound", "Ready", "Degraded"}

PeerAllowed(e, peer) ==
  IF e.allow = <<>> THEN Loopback(e.addr.ip)
  ELSE \E i \in DOMAIN e.allow : Covers(e.allow[i], peer)

\* record: the oldest event makes room.
Recorded(events, c, outcome) ==
  Append(IF Len(events) = EVENT_HISTORY THEN Tail(events) ELSE events, <<c, outcome>>)
Record(c, outcome, state) ==
  entries' = [entries EXCEPT ![fconns[c].entry].events = Recorded(@, c, outcome),
                             ![fconns[c].entry].state = state]

Stage(c, stage) == fconns' = [fconns EXCEPT ![c].stage = stage]
End(c, outcome) == fconns' = [fconns EXCEPT ![c].stage = "ended", ![c].outcome = outcome]
Unheard(n) == {c \in DOMAIN fconns : fconns[c].entry = n /\ fconns[c].stage = "queued"}
Held(n)    == {c \in DOMAIN fconns : fconns[c].entry = n /\ fconns[c].stage = "taken"}
\* The listener is closed; what no task has been given is reset.
Dropped(n) ==
  [c \in DOMAIN fconns |-> IF c \in Unheard(n) \cup Held(n)
                          THEN [fconns[c] EXCEPT !.stage = "reset"] ELSE fconns[c]]
\* The connection at hand gets its task.
Spawned(n) ==
  [c \in DOMAIN fconns |-> IF c \in Held(n) THEN [fconns[c] EXCEPT !.stage = "serving"]
                          ELSE fconns[c]]

-----------------------------------------------------------------------------
(* The environment. *)
\* A client connects while the socket is open.  `late`: after the forward was
\* removed or the node told to stop.
FArrive(n, peer) ==
  /\ entries[n].loop # "ended"
  /\ Loopback(entries[n].addr.ip) => Loopback(peer)
  /\ fconns' = Append(fconns, [entry |-> n, peer |-> peer, stage |-> "queued", outcome |-> "none",
                               late |-> entries[n].removed \/ shutdown])
  /\ UNCHANGED <<entries, shutdown, online, flips, manager>>

Flip ==
  /\ flips < MaxFlips
  /\ online' = ~online /\ flips' = flips + 1
  /\ UNCHANGED <<entries, fconns, shutdown, manager>>

-----------------------------------------------------------------------------
(* ForwardManager. *)
\* remove: mark_removed wakes the loop that is waiting, and no other.  An entry
\* that has no task yet goes at once.
RemoveForward(n) ==
  /\ ~entries[n].removed
  /\ entries' = [entries EXCEPT ![n].removed = TRUE, ![n].woken = (entries[n].loop = "waiting"),
                                ![n].loop = IF @ = "idle" THEN "ended" ELSE @]
  /\ fconns' = IF entries[n].loop = "idle" THEN Dropped(n) ELSE fconns
  /\ UNCHANGED <<shutdown, online, flips, manager>>

\* run: one task for every entry still in the map, then the wait for shutdown.
RunManager ==
  /\ manager = "idle" /\ manager' = "running"
  /\ entries' = [n \in DOMAIN entries |->
                   [entries[n] EXCEPT !.loop = IF @ = "idle" THEN "start" ELSE @]]
  /\ UNCHANGED <<fconns, shutdown, online, flips>>

ManagerEnds ==
  /\ manager = "running" /\ shutdown
  /\ \A n \in DOMAIN entries : entries[n].loop = "ended"
  /\ manager' = "ended"
  /\ UNCHANGED <<entries, fconns, shutdown, online, flips>>

-----------------------------------------------------------------------------
(* accept_loop. *)
Loop(n, at) == entries' = [entries EXCEPT ![n].loop = at]
LoopEnds(n) == Loop(n, "ended") /\ fconns' = Dropped(n)

LoopStarts(n) ==
  /\ entries[n].loop = "start"
  /\ \/ Loop(n, "top") /\ UNCHANGED fconns
     \/ \* TcpListener::from_std failed
        /\ entries' = [entries EXCEPT ![n].loop = "ended", ![n].state = "Error"]
        /\ fconns' = Dropped(n)
  /\ UNCHANGED <<shutdown, online, flips, manager>>

LoopChecks(n) ==
  /\ entries[n].loop = "top"
  /\ IF entries[n].removed \/ shutdown THEN LoopEnds(n)
     ELSE Loop(n, "entering") /\ UNCHANGED fconns
  /\ UNCHANGED <<shutdown, online, flips, manager>>

LoopWaits(n) ==
  /\ entries[n].loop = "entering"
  /\ Loop(n, "waiting")
  /\ UNCHANGED <<fconns, shutdown, online, flips, manager>>

\* Mutant: the loop sleeps through a shutdown.
MutLoopWakes(n) ==
  /\ entries[n].loop = "waiting" /\ entries[n].woken
  /\ LoopEnds(n)
  /\ UNCHANGED <<shutdown, online, flips, manager>>

\* `gone` or the shutdown channel; a change of the latter is never missed.
LoopWakes(n) ==
  /\ entries[n].loop = "waiting" /\ (entries[n].woken \/ shutdown)
  /\ LoopEnds(n)
  /\ UNCHANGED <<shutdown, online, flips, manager>>

\* The flags may change between the polls of one select.
LoopAccepts(n) ==
  /\ entries[n].loop = "waiting" /\ Unheard(n) # {}
  /\ Loop(n, "holding")
  /\ LET c == CHOOSE x \in Unheard(n) : \A y \in Unheard(n) : x <= y
     IN  Stage(c, "taken")
  /\ UNCHANGED <<shutdown, online, flips, manager>>

\* accept failed: wait a little and go round.
LoopAcceptFails(n) ==
  /\ entries[n].loop = "waiting"
  /\ Loop(n, "top")
  /\ UNCHANGED <<fconns, shutdown, online, flips, manager>>

\* Mutant: what was accepted is served without another look at the flags.
MutLoopSpawns(n) ==
  /\ entries[n].loop = "holding"
  /\ Loop(n, "top") /\ fconns' = Spawned(n)
  /\ UNCHANGED <<shutdown, online, flips, manager>>

\* The accepted connection is dropped, or given a task of its own.
LoopSpawns(n) ==
  /\ entries[n].loop = "holding"
  /\ IF entries[n].removed \/ shutdown THEN LoopEnds(n)
     ELSE Loop(n, "top") /\ fconns' = Spawned(n)
  /\ UNCHANGED <<shutdown, online, flips, manager>>

AcceptLoop(n) ==
  \/ LoopStarts(n) \/ LoopChecks(n) \/ LoopWaits(n) \/ LoopWakes(n)
  \/ LoopAccepts(n) \/ LoopSpawns(n)

-----------------------------------------------------------------------------
(* serve_tcp. *)
ServeBegins(c) ==
  LET e == entries[fconns[c].entry]
  IN  /\ fconns[c].stage = "serving"
      /\ IF ~PeerAllowed(e, fconns[c].peer)
         THEN End(c, "PeerRefused") /\ Record(c, "PeerRefused", e.state)
         ELSE IF ~AllowsOpen(e.state)
         THEN End(c, "FastFailed") /\ Record(c, "FastFailed", e.state)
         ELSE /\ Stage(c, "opening")
              /\ entries' = [entries EXCEPT ![fconns[c].entry].attempts = @ + 1]
      /\ UNCHANGED <<shutdown, online, flips, manager>>

\* The state is read, and set in a step of its own.
OpenSucceeds(c) ==
  LET e == entries[fconns[c].entry]
  IN  /\ fconns[c].stage = "opening" /\ online
      /\ IF e.state \in {"Bound", "Degraded"}
         THEN Stage(c, "promoting") /\ UNCHANGED entries
         ELSE Stage(c, "joined") /\ Record(c, "Opened", e.state)
      /\ UNCHANGED <<shutdown, online, flips, manager>>

Promote(c) ==
  /\ fconns[c].stage = "promoting"
  /\ Stage(c, "joined") /\ Record(c, "Opened", "Ready")
  /\ UNCHANGED <<shutdown, online, flips, manager>>

\* fail_open.  ForwardBridge says Offline when no ready Hub advertises the
\* target and nothing is sent; any other failure leaves the state alone.
OpenFails(c) ==
  LET e == entries[fconns[c].entry]
  IN  /\ fconns[c].stage = "opening"
      /\ End(c, "OpenFailed")
      /\ \/ ~online /\ Record(c, "OpenFailed", "Offline")
         \/ Record(c, "OpenFailed", e.state)
      /\ UNCHANGED <<shutdown, online, flips, manager>>

CopyEnds(c) ==
  /\ fconns[c].stage = "joined"
  /\ End(c, "Closed") /\ Record(c, "Closed", entries[fconns[c].entry].state)
  /\ UNCHANGED <<shutdown, online, flips, manager>>

ServeTcp(c) == ServeBegins(c) \/ OpenSucceeds(c) \/ Promote(c) \/ OpenFails(c)

ForwardNext ==
  \/ Flip \/ RunManager \/ ManagerEnds
  \/ \E n \in DOMAIN entries : RemoveForward(n) \/ AcceptLoop(n) \/ LoopAcceptFails(n)
  \/ \E c \in DOMAIN fconns : ServeTcp(c) \/ CopyEnds(c)
=============================================================================
