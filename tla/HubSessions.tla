---------------------------- MODULE HubSessions -----------------------------
(***************************************************************************)
(* The Hub's session table and node registry under concurrent carriers.    *)
(*                                                                         *)
(* Every POST handler and every WebSocket task is a task that feeds        *)
(* records into a session and then pumps the session's events: it drains   *)
(* the shared event queue and handles what it drained, which may include   *)
(* events another task fed.  Sessions, the registry and each session's     *)
(* pump have a mutex of their own, so a handler is several steps: here a   *)
(* task holds the steps it has still to take in todo.                      *)
(*                                                                         *)
(* Sessions are numbered in the order they authenticated.  A Hello         *)
(* publishes one service.  Stream records, which the pump hands to stream  *)
(* tasks, are the subject of the data plane's modules.                     *)
(***************************************************************************)
EXTENDS Integers, Sequences

CONSTANTS Tasks,        \* carrier tasks of the Hub
          Nodes,        \* node ids
          NodeOf,       \* the node of each session, in order of authentication
          MaxPumpRounds \* MAX_PUMP_ROUNDS

SessionIds == 1 .. Len(NodeOf)
Nobody     == 0

ASSUME HubAssumption ==
  /\ NodeOf \in Seq(Nodes)
  /\ MaxPumpRounds \in Nat \ {0}

VARIABLES opened,    \* how many sessions have authenticated
          table,     \* Sessions.entries
          closed,    \* sessions whose closed flag is set
          state,     \* the engine's SessionState
          events,    \* the engine's event queue of each session
          lease,     \* Registry.nodes: the session that owns a node's lease
          revision,  \* Registry.revision
          newest,    \* highest PeerList revision sent to each session
          todo,      \* what each task has still to do
          fed        \* records already fed (each node sends each kind once)

registry == <<lease, revision>>
vars == <<opened, table, closed, state, events, registry, newest, todo,
          fed>>

Kinds    == {"hello", "hello_unsupported", "bye"}
Hellos   == {"hello", "hello_unsupported"}
Step     == [op : Kinds \cup {"close", "ready", "unregister"}, s : SessionIds]
              \cup [op : {"pump"}, s : SessionIds, left : 1 .. MaxPumpRounds]
              \cup [op : {"list"}, to : SUBSET SessionIds]

\* A node sends one Hello, with or without a capability the Hub refuses.
Alternatives(kind) == IF kind \in Hellos THEN Hellos ELSE {kind}

Do(op, s)     == [op |-> op, s |-> s]
PumpOf(s, n)  == [op |-> "pump", s |-> s, left |-> n]
Broadcast(to) == [op |-> "list", to |-> to]

TypeOK ==
  /\ opened \in 0 .. Len(NodeOf)
  /\ table \subseteq 1 .. opened
  /\ closed \subseteq 1 .. opened
  /\ state \in [SessionIds -> {"offline", "binding", "ready", "closed"}]
  /\ events \in [SessionIds -> Seq(Kinds)]
  /\ lease \in [Nodes -> SessionIds \cup {Nobody}]
  /\ revision \in Nat
  /\ newest \in [SessionIds -> Nat]
  /\ todo \in [Tasks -> Seq(Step)]
  /\ fed \subseteq SessionIds \X Kinds

Init ==
  /\ opened = 0 /\ table = {} /\ closed = {}
  /\ state = [s \in SessionIds |-> "offline"]
  /\ events = [s \in SessionIds |-> <<>>]
  /\ lease = [n \in Nodes |-> Nobody]
  /\ revision = 0
  /\ newest = [s \in SessionIds |-> 0]
  /\ todo = [t \in Tasks |-> <<>>]
  /\ fed = {}

-----------------------------------------------------------------------------
Idle(t) == todo[t] = <<>>
Quiet   == \A t \in Tasks : Idle(t)

(* authenticate: a fresh session id and epoch, inserted in state Binding. *)
Authenticate ==
  /\ opened < Len(NodeOf)
  /\ opened' = opened + 1
  /\ table' = table \cup {opened'}
  /\ state' = [state EXCEPT ![opened'] = "binding"]
  /\ UNCHANGED <<closed, events, registry, newest, todo, fed>>

\* Mutant: a task does not pump while another one is at work.
Feed_PumpsAlone(t, s, kind) ==
  /\ Idle(t)
  /\ s \in 1 .. opened
  /\ \A k \in Alternatives(kind) : <<s, k>> \notin fed
  /\ fed' = fed \cup {<<s, kind>>}
  /\ state' = IF kind = "bye" THEN [state EXCEPT ![s] = "closed"] ELSE state
  /\ events' = [events EXCEPT ![s] = Append(@, kind)]
  /\ todo' = [todo EXCEPT ![t] =
                IF Quiet THEN <<PumpOf(s, MaxPumpRounds)>> ELSE <<>>]
  /\ UNCHANGED <<opened, table, closed, registry, newest>>

(* feed_records: the engine's dispatch of one record.  A carrier bound       *)
(* before the session was torn down still holds it.                          *)
Feed(t, s, kind) ==
  /\ Idle(t)
  /\ s \in 1 .. opened
  /\ \A k \in Alternatives(kind) : <<s, k>> \notin fed
  /\ fed' = fed \cup {<<s, kind>>}
  /\ state' = IF kind = "bye" THEN [state EXCEPT ![s] = "closed"] ELSE state
  /\ events' = [events EXCEPT ![s] = Append(@, kind)]
  /\ todo' = [todo EXCEPT ![t] = <<PumpOf(s, MaxPumpRounds)>>]
  /\ UNCHANGED <<opened, table, closed, registry, newest>>

(* A carrier's own end, or the reaper, calls close_session. *)
CloseSession(t, s) ==
  /\ Idle(t)
  /\ s \in table
  /\ todo' = [todo EXCEPT ![t] = <<Do("close", s)>>]
  /\ UNCHANGED <<opened, table, closed, state, events, registry,
                 newest, fed>>

-----------------------------------------------------------------------------
(* The steps of a task: Cur(t) is the next one, Then(t, more) puts more in   *)
(* its place.                                                                *)
At(t, op)     == todo[t] # <<>> /\ Head(todo[t]).op = op
Cur(t)        == Head(todo[t])
Then(t, more) == todo' = [todo EXCEPT ![t] = more \o Tail(@)]

(* pump_session: a round drains all that is queued and handles it; another   *)
(* round follows, up to the round limit.                                     *)
Pump(t) ==
  /\ At(t, "pump")
  /\ LET s == Cur(t).s
         handle == [i \in DOMAIN events[s] |-> Do(events[s][i], s)]
         again == IF events[s] = <<>> \/ Cur(t).left = 1 THEN <<>>
                  ELSE <<PumpOf(s, Cur(t).left - 1)>>
     IN  /\ Then(t, handle \o again)
         /\ events' = [events EXCEPT ![s] = <<>>]
  /\ UNCHANGED <<opened, table, closed, state, registry, newest, fed>>

(* on_hello, under the registry mutex: register_ready drops the services of  *)
(* any earlier lease and bumps the revision, and so does publish.            *)
HelloRegister(t) ==
  /\ At(t, "hello")
  /\ LET n == NodeOf[Cur(t).s]
     IN  lease' = [lease EXCEPT ![n] = Cur(t).s]
  /\ revision' = revision + 2
  /\ Then(t, <<Do("ready", Cur(t).s)>>)
  /\ UNCHANGED <<opened, table, closed, state, events, newest, fed>>

\* Mutant: only the newcomer is sent the directory.
HelloReady_TellsNewcomer(t) ==
  /\ At(t, "ready")
  /\ state' = [state EXCEPT ![Cur(t).s] = "ready"]
  /\ Then(t, <<Broadcast({Cur(t).s})>>)
  /\ UNCHANGED <<opened, table, closed, events, registry, newest, fed>>

(* on_hello after the mutex: HelloPending, HelloOk, Ready, then the lists. *)
HelloReady(t) ==
  /\ At(t, "ready")
  /\ state' = [state EXCEPT ![Cur(t).s] = "ready"]
  /\ Then(t, <<Broadcast(table)>>)
  /\ UNCHANGED <<opened, table, closed, events, registry, newest, fed>>

(* on_hello refusing an unknown required capability: Bye, then teardown. *)
RefuseHello(t) ==
  /\ At(t, "hello_unsupported")
  /\ state' = [state EXCEPT ![Cur(t).s] = "closed"]
  /\ Then(t, <<Do("close", Cur(t).s)>>)
  /\ UNCHANGED <<opened, table, closed, events, registry, newest, fed>>

(* close_session up to the registry: remove_if_epoch, the closed flag, the   *)
(* state and close_streams.  An entry already removed ends it.               *)
CloseRemove(t) ==
  /\ At(t, "close") \/ At(t, "bye")
  /\ LET s == Cur(t).s
     IN  IF s \in table
           THEN /\ table' = table \ {s}
                /\ closed' = closed \cup {s}
                /\ state' = [state EXCEPT ![s] = "closed"]
                /\ Then(t, <<Do("unregister", s)>>)
           ELSE /\ Then(t, <<>>)
                /\ UNCHANGED <<table, closed, state>>
  /\ UNCHANGED <<opened, events, registry, newest, fed>>

\* Mutant: the lease is removed whoever owns it.
Owns_Anyone(n, s) == lease[n] # Nobody

Owns(n, s) == lease[n] = s

Unregister(t) ==
  /\ At(t, "unregister")
  /\ LET n == NodeOf[Cur(t).s]
     IN  IF Owns(n, Cur(t).s)
           THEN /\ lease' = [lease EXCEPT ![n] = Nobody]
                /\ revision' = revision + 1
                /\ Then(t, <<Broadcast(table)>>)
           ELSE /\ Then(t, <<>>)
                /\ UNCHANGED registry
  /\ UNCHANGED <<opened, table, closed, state, events, newest, fed>>

(* broadcast_peer_lists: the next session of the snapshot; a session closed  *)
(* meanwhile is skipped.                                                     *)
SendPeerList(t) ==
  /\ At(t, "list")
  /\ \/ /\ Cur(t).to = {}
        /\ Then(t, <<>>)
        /\ UNCHANGED newest
     \/ \E s \in Cur(t).to :
          /\ Then(t, <<Broadcast(Cur(t).to \ {s})>>)
          /\ newest' = IF s \in closed THEN newest
                       ELSE [newest EXCEPT ![s] = revision]
  /\ UNCHANGED <<opened, table, closed, state, events, registry, fed>>

Handle(t) ==
  \/ Pump(t)
  \/ HelloRegister(t)
  \/ HelloReady(t)
  \/ RefuseHello(t)
  \/ CloseRemove(t)
  \/ Unregister(t)
  \/ SendPeerList(t)

Next ==
  \/ Authenticate
  \/ \E t \in Tasks, s \in SessionIds :
       \/ CloseSession(t, s)
       \/ \E kind \in Kinds : Feed(t, s, kind)
  \/ \E t \in Tasks : Handle(t)

Spec == Init /\ [][Next]_vars

-----------------------------------------------------------------------------
(* A node's lease disappears only when the session that owns it is torn      *)
(* down: a late close_session of a superseded session leaves the lease that  *)
(* replaced it alone.                                                        *)
LeaseReleasedByOwnerOnly ==
  [][\A n \in Nodes :
       lease[n] # Nobody /\ lease'[n] = Nobody => lease[n] \in closed]_vars

(* Once the Hub is quiet, every registered session has been sent the current *)
(* directory: no order of registrations, teardowns and broadcasts leaves     *)
(* one with an older PeerList as its newest.                                 *)
DirectoryIsCurrent ==
  Quiet => \A s \in table : state[s] = "ready" => newest[s] = revision

(* No event is stranded: whoever fed it, some task handles it before the Hub *)
(* goes quiet.                                                               *)
NoStrandedEvent == Quiet => \A s \in SessionIds : events[s] = <<>>

=============================================================================
