----------------------------- MODULE StreamLegs -----------------------------
(***************************************************************************)
(* The legs one stream runs over: for each end of a leg the session        *)
(* engine's StreamEntry, the records on their way to it, and the queue of  *)
(* the task that owns the stream there.                                    *)
(*                                                                         *)
(*   caller ---- callerHub  (the Hub's task)  exitHub ---- exit            *)
(*                                                                         *)
(* A record carries one chunk of payload (MAX_TCP_PAYLOAD), the unit in    *)
(* which offsets, windows and reads are counted here; a chunk is its       *)
(* position in what the source wrote, so a lost, repeated or swapped chunk *)
(* shows.  Every other task of a session flushes the engine's outbound     *)
(* queue at any time, so a record is on the wire as soon as it is sent.    *)
(*                                                                         *)
(* A node's uplink is one carrier and arrives in order; the Hub fans every *)
(* downlink record out to all carriers, so a node may get them out of      *)
(* order.  ReorderBuffer is here what StreamRecv shows of it: chunks are   *)
(* released in order.                                                      *)
(***************************************************************************)
EXTENDS Integers, SequencesExt, FiniteSetsExt

CONSTANTS FLOW_WINDOW,  \* StreamEntry's flow window, in chunks
          Scenarios,    \* bound: the loads and faults considered, see sc
          MaxFaults     \* bound: how many faults happen in one behaviour

VARIABLES sc,       \* what this behaviour is about, a member of Scenarios:
                    \* the route, whether downlinks reorder, the chunks the
                    \* application and the target say, the possible faults
          entry,    \* StreamEntry of each end
          wire,     \* records on their way to each end
          queue,    \* stream events waiting for the task of each end
          sink,     \* ends whose stream has a task registered
          faulted   \* faults that happened (history)

legVars == <<entry, wire, queue, sink, faulted>>

route == sc.route

Ends     == {"caller", "callerHub", "exitHub", "exit"}
HubEnds  == {"callerHub", "exitHub"}
NodeEnds == {"caller", "exit"}

Peer == [caller |-> "callerHub", callerHub |-> "caller",
         exitHub |-> "exit",     exit |-> "exitHub"]

NewEntry == [open |-> TRUE, sent |-> 0, limit |-> FLOW_WINDOW, fin |-> FALSE,
             received |-> 0, held |-> {}, consumed |-> 0]
NoEntry  == [open |-> FALSE, sent |-> 0, limit |-> 0, fin |-> FALSE,
             received |-> 0, held |-> {}, consumed |-> 0]

Rec(kind, at)      == [kind |-> kind, at |-> at, chunk |-> 0]
DataRec(at, chunk) == [kind |-> "Data", at |-> at, chunk |-> chunk]
IsEvent(r, kind)   == r.kind = kind

LegsInit ==
  /\ sc \in Scenarios
  /\ entry = [e \in Ends |->
                IF e \in {"caller", "callerHub"} THEN NewEntry ELSE NoEntry]
  /\ wire = [e \in Ends |-> <<>>]
  /\ queue = [e \in Ends |-> <<>>]
  /\ sink = {"caller", "callerHub"}
  /\ faulted = {}

May(f) ==
  /\ f \in sc.faults /\ f \notin faulted
  /\ Cardinality(faulted \ {"relay"}) < MaxFaults

-----------------------------------------------------------------------------
(* What the engine's calls do; e is the end that calls. *)
OnWire(e, recs) == [wire EXCEPT ![Peer[e]] = @ \o recs]

Room(e) == entry[e].limit - entry[e].sent

send_data(e, chunks) ==
  /\ entry' = [entry EXCEPT ![e].sent = @ + Len(chunks)]
  /\ wire' = OnWire(e, [i \in 1 .. Len(chunks) |->
                          DataRec(entry[e].sent + i - 1, chunks[i])])

send_fin(e) ==
  /\ entry' = [entry EXCEPT ![e].fin = TRUE]
  /\ wire' = IF entry[e].fin THEN wire
               ELSE OnWire(e, <<Rec("Fin", entry[e].sent)>>)

send_reset(e) ==
  /\ entry' = [entry EXCEPT ![e] = NoEntry]
  /\ wire' = OnWire(e, <<Rec("Reset", 0)>>)

close_stream(e) ==
  /\ entry' = [entry EXCEPT ![e] = NoEntry]
  /\ UNCHANGED wire

(* send_open_result: a success is followed by Ready, a refusal forgets the   *)
(* stream.                                                                   *)
send_open_result(e, ok) ==
  IF ok THEN /\ wire' = OnWire(e, <<Rec("OpenOk", 0), Rec("Ready", 0)>>)
             /\ UNCHANGED entry
        ELSE /\ wire' = OnWire(e, <<Rec("OpenFailed", 0)>>)
             /\ entry' = [entry EXCEPT ![e] = NoEntry]

(* consume: the limit is always one window past what was consumed, so every  *)
(* call grants credit and sends Progress.                                    *)
consume(e, n) ==
  /\ entry' = [entry EXCEPT ![e].consumed = @ + n]
  /\ wire' = OnWire(e, <<Rec("Progress",
                             entry[e].consumed + n + FLOW_WINDOW)>>)

-----------------------------------------------------------------------------
(* dispatch and deliver_data: the entry after record r, and the events.      *)
Released(d, r) ==
  LET held == d.held \cup {r}
  IN  {x \in held :
         \A i \in d.received .. x.at : \E y \in held : y.at = i}

Dispatched(d, r) ==
  CASE IsEvent(r, "Data") /\ d.open ->
         LET out == Released(d, r)
         IN  [d EXCEPT !.held = (@ \cup {r}) \ out,
                       !.received = @ + Cardinality(out)]
    [] IsEvent(r, "Progress") /\ d.open ->
         [d EXCEPT !.limit = IF r.at > @ THEN r.at ELSE @]
    [] r.kind \in {"Reset", "OpenFailed"} -> NoEntry
    [] OTHER -> d

Events(d, r) ==
  IF ~IsEvent(r, "Data") THEN <<r>>
  ELSE IF ~d.open THEN <<>>
  ELSE SetToSortSeq(Released(d, r), LAMBDA x, y : x.at < y.at)

(* The records of an end that may arrive next, and the wire without the one  *)
(* that does.                                                                *)
Arriving(e) ==
  IF sc.reorder /\ e \in NodeEnds THEN DOMAIN wire[e]
                                  ELSE {1} \cap DOMAIN wire[e]
Without(e, i) == [wire EXCEPT ![e] = RemoveAt(@, i)]

\* Mutant: an event for a stream without a task is ignored.
HubReceive_Ignores(e) ==
  /\ wire[e] # <<>>
  /\ LET r == Head(wire[e])
     IN  /\ entry' = [entry EXCEPT ![e] = Dispatched(@, r)]
         /\ queue' = IF e \in sink
                       THEN [queue EXCEPT ![e] = @ \o Events(entry[e], r)]
                       ELSE queue
         /\ wire' = Without(e, 1)
  /\ UNCHANGED <<sink, faulted>>

(* on_stream_event: an event goes to the stream's task; without a task every *)
(* event but a Reset is answered with a Reset, which forgets the stream.     *)
HubReceive(e) ==
  /\ wire[e] # <<>>
  /\ LET r      == Head(wire[e])
         events == Events(entry[e], r)
         resets == IF e \in sink \/ IsEvent(r, "Reset") THEN <<>>
                     ELSE [i \in DOMAIN events |-> Rec("Reset", 0)]
     IN  /\ entry' = [entry EXCEPT ![e] = IF resets = <<>>
                                            THEN Dispatched(@, r) ELSE NoEntry]
         /\ queue' = IF e \in sink
                       THEN [queue EXCEPT ![e] = @ \o events] ELSE queue
         /\ wire' = [Without(e, 1) EXCEPT ![Peer[e]] = @ \o resets]
  /\ UNCHANGED <<sink, faulted>>

(* Driver::run, on_event and deliver: what the node's driver hands to the    *)
(* stream; Ready is only logged.                                             *)
NodeReceive(e) ==
  /\ \E i \in Arriving(e) :
       LET r == wire[e][i]
       IN  /\ r.kind \in {"Data", "Fin", "Reset", "Progress", "Ready"}
           /\ entry' = [entry EXCEPT ![e] = Dispatched(@, r)]
           /\ queue' = IF e \in sink /\ ~IsEvent(r, "Ready")
                         THEN [queue EXCEPT ![e] = @ \o Events(entry[e], r)]
                         ELSE queue
           /\ wire' = Without(e, i)
  /\ UNCHANGED <<sink, faulted>>

(* A failed POST loses its batch, a lagging carrier skips records. *)
Lose(e) ==
  /\ May("loss")
  /\ wire[e] # <<>>
  /\ wire' = Without(e, 1)
  /\ faulted' = faulted \cup {"loss"}
  /\ UNCHANGED <<entry, queue, sink>>

Carry ==
  \/ \E e \in HubEnds : HubReceive(e)
  \/ \E e \in NodeEnds : NodeReceive(e)
=============================================================================
