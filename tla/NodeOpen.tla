------------------------------ MODULE NodeOpen ------------------------------
(***************************************************************************)
(* Opening streams on a node's Hub session: callers, the session driver,   *)
(* the operation table and the exit that answers.                          *)
(*                                                                         *)
(* A caller of open_with_request_id queues a command and waits, at most    *)
(* OpenTimeout, for the driver's reply.  A chain leg (relay_chain_leg) is  *)
(* opened by the driver itself and waits for the same reply.  The driver   *)
(* is one task: begin_open and on_open_result are atomic.  A call stands   *)
(* for the stream it opens, since stream ids are never reused.             *)
(*                                                                         *)
(* The exit is the far end (a HubExit or a relay bridge): it takes the     *)
(* Open, dials, answers and keeps its stream until it sees Fin or Reset.   *)
(* A lost POST batch or a lagging downlink loses a record for good.        *)
(***************************************************************************)
EXTENDS OperationTable, Sequences

CONSTANTS Calls,       \* calls that open a stream
          ChainLegs,   \* the calls that are chain legs
          RequestOf,   \* the request_id of each call
          MaxStreams   \* SessionConfig.max_streams

ASSUME CallsAssumption ==
  /\ ChainLegs \subseteq Calls
  /\ RequestOf \in [Calls -> RequestIds]
  /\ MaxStreams \in Nat

VARIABLES call,      \* what each caller knows
          started,   \* when it started waiting
          commands,  \* the driver's command queue
          driver,    \* "running" or "ended"
          tracked,   \* Driver.streams: calls that have a StreamSlot
          held,      \* slots that still hold the reply and the SessionStream
          engine,    \* calls whose stream the session engine knows
          exit,      \* the far end's stream
          up,        \* Opens in flight
          down       \* OpenResults in flight

openVars == <<call, started, commands, driver, tracked, held, engine, exit,
              up, down>>
vars == <<tableVars, openVars>>

OpenInit ==
  /\ Init
  /\ call = [c \in Calls |-> "idle"]
  /\ started = [c \in Calls |-> 0]
  /\ commands = <<>>
  /\ driver = "running"
  /\ tracked = {} /\ held = {} /\ engine = {}
  /\ exit = [c \in Calls |-> "none"]
  /\ up = {} /\ down = {}

-----------------------------------------------------------------------------
(* The caller.  A call starts only while its deadline is inside the run. *)
OpenWithRequestId(c) ==
  /\ c \notin ChainLegs
  /\ call[c] = "idle"
  /\ driver = "running"
  /\ now + OpenTimeout <= MaxTime
  /\ call' = [call EXCEPT ![c] = "waiting"]
  /\ started' = [started EXCEPT ![c] = now]
  /\ commands' = Append(commands, c)
  /\ UNCHANGED <<tableVars, driver, tracked, held, engine, exit, up, down>>

\* Mutant: the deadline only covers the wait in the command queue.
OpenTimesOut_WhileQueued(c) ==
  /\ c \notin ChainLegs
  /\ call[c] = "waiting"
  /\ \E i \in DOMAIN commands : commands[i] = c
  /\ now - started[c] >= OpenTimeout
  /\ call' = [call EXCEPT ![c] = "timeout"]
  /\ UNCHANGED <<tableVars, started, commands, driver, tracked, held, engine,
                 exit, up, down>>

OpenTimesOut(c) ==
  /\ c \notin ChainLegs
  /\ call[c] = "waiting"
  /\ now - started[c] >= OpenTimeout
  /\ call' = [call EXCEPT ![c] = "timeout"]
  /\ UNCHANGED <<tableVars, started, commands, driver, tracked, held, engine,
                 exit, up, down>>

-----------------------------------------------------------------------------
(* The driver *)
Reply(state, c, answer) ==
  IF state[c] = "waiting" THEN [state EXCEPT ![c] = answer] ELSE state

\* Mutant: a retry dials although begin did not answer Execute.
Admitted_Always(t, c) == TRUE

Admitted(t, c) == BeginExecutes(t, RequestOf[c])

(* begin_open: tick, begin, and on Execute the engine's open. *)
BeginOpen(c, state) ==
  \E t \in Ticked(table, now) :
    LET begun == Begun(t, RequestOf[c], CHOOSE h \in Hashes : TRUE, now)
    IN
    \/ /\ ~Admitted(t, c)
       /\ table' = t
       /\ call' = Reply(state, c, "refused")
       /\ UNCHANGED <<executed, tracked, held, engine, up>>
    \/ /\ Admitted(t, c)
       /\ Cardinality(engine) >= MaxStreams
       /\ table' = Settle(begun, RequestOf[c], "failed", now)
       /\ call' = Reply(state, c, "refused")
       /\ executed' = [executed EXCEPT ![RequestOf[c]] = @ + 1]
       /\ UNCHANGED <<tracked, held, engine, up>>
    \/ /\ Admitted(t, c)
       /\ Cardinality(engine) < MaxStreams
       /\ table' = begun
       /\ executed' = [executed EXCEPT ![RequestOf[c]] = @ + 1]
       /\ call' = state
       /\ tracked' = tracked \cup {c}
       /\ held' = held \cup {c}
       /\ engine' = engine \cup {c}
       /\ up' = up \cup {c}

DriverOpen ==
  /\ driver = "running"
  /\ commands # <<>>
  /\ BeginOpen(Head(commands), call)
  /\ commands' = Tail(commands)
  /\ UNCHANGED <<now, started, driver, exit, down>>

(* relay_chain_leg: an inbound Open makes the driver open the next leg. *)
DriverChainLeg(c) ==
  /\ driver = "running"
  /\ c \in ChainLegs
  /\ call[c] = "idle"
  /\ BeginOpen(c, [call EXCEPT ![c] = "waiting"])
  /\ started' = [started EXCEPT ![c] = now]
  /\ UNCHANGED <<now, commands, driver, exit, down>>

\* Mutant: only the driver's slot is released.
EngineAfter_Keeps(c, ok) == engine

(* The engine forgets a stream that failed to open, and one whose reply      *)
(* nobody waits for: the SessionStream is dropped.  Nothing is sent.         *)
EngineAfter(c, ok) ==
  IF ok /\ (c \in held => call[c] = "waiting") THEN engine ELSE engine \ {c}

(* The engine's dispatch of an OpenResult, and on_open_result. *)
OnOpenResult(c, ok) ==
  /\ driver = "running"
  /\ <<c, ok>> \in down
  /\ down' = down \ {<<c, ok>>}
  /\ IF c \notin tracked
       THEN UNCHANGED <<table, call, tracked, held>>
       ELSE /\ table' = Settle(table, RequestOf[c],
                               IF ok THEN "complete" ELSE "failed", now)
            /\ call' = Reply(call, c, IF ok THEN "stream" ELSE "failed")
            /\ tracked' = IF ok THEN tracked ELSE tracked \ {c}
            /\ held' = held \ {c}
  /\ engine' = EngineAfter(c, ok)
  /\ UNCHANGED <<now, executed, started, commands, driver, exit, up>>

(* The driver loop ends: a local close, or every carrier is gone.  The       *)
(* command queue and the slots are dropped, and every reply with them;       *)
(* Opens already handed to a carrier may still arrive.                       *)
DriverEnds ==
  /\ driver = "running"
  /\ driver' = "ended"
  /\ commands' = <<>>
  /\ tracked' = {}
  /\ held' = {}
  /\ engine' = engine \ held
  /\ call' = [c \in Calls |-> IF call[c] = "waiting" THEN "closed" ELSE call[c]]
  /\ down' = {}
  /\ UNCHANGED <<tableVars, started, exit, up>>

-----------------------------------------------------------------------------
(* The far end and the carriers *)
ExitTakesOpen(c) ==
  /\ c \in up
  /\ up' = up \ {c}
  /\ exit' = [exit EXCEPT ![c] = "dialing"]
  /\ UNCHANGED <<tableVars, call, started, commands, driver, tracked, held,
                 engine, down>>

ExitAnswers(c, ok) ==
  /\ driver = "running"
  /\ exit[c] = "dialing"
  /\ exit' = [exit EXCEPT ![c] = IF ok THEN "open" ELSE "refused"]
  /\ down' = down \cup {<<c, ok>>}
  /\ UNCHANGED <<tableVars, call, started, commands, driver, tracked, held,
                 engine, up>>

LoseRecord ==
  /\ \/ \E c \in up : up' = up \ {c} /\ UNCHANGED down
     \/ \E m \in down : down' = down \ {m} /\ UNCHANGED up
  /\ UNCHANGED <<tableVars, call, started, commands, driver, tracked, held,
                 engine, exit>>

TimePasses == Advance /\ UNCHANGED openVars

OpenNext ==
  \/ \E c \in Calls :
       \/ OpenWithRequestId(c)
       \/ OpenTimesOut(c)
       \/ DriverChainLeg(c)
       \/ ExitTakesOpen(c)
       \/ \E ok \in BOOLEAN : OnOpenResult(c, ok) \/ ExitAnswers(c, ok)
  \/ DriverOpen
  \/ DriverEnds
  \/ LoseRecord
  \/ TimePasses

OpenSpec == OpenInit /\ [][OpenNext]_vars

(* The runtime keeps polling the driver and its timers, and time passes.     *)
(* Nothing is promised about the network or the exit.                        *)
Fairness ==
  /\ WF_vars(DriverOpen)
  /\ \A c \in Calls, ok \in BOOLEAN : WF_vars(OnOpenResult(c, ok))
  /\ \A c \in Calls : WF_vars(OpenTimesOut(c))
  /\ WF_vars(TimePasses)

FairOpenSpec == OpenSpec /\ Fairness

-----------------------------------------------------------------------------
(* Every stream the engine counts against max_streams either awaits its      *)
(* OpenResult or belongs to a caller: an open that was refused, failed or    *)
(* answered too late leaves no entry behind.                                 *)
EngineStreamsAccountedFor ==
  \A c \in engine : c \in held \/ call[c] = "stream"

(* Every call of open_with_request_id is answered, whatever the network, the *)
(* exit and the session do.                                                  *)
EveryOpenIsAnswered ==
  \A c \in Calls \ ChainLegs : call[c] = "waiting" ~> call[c] # "waiting"
=============================================================================
