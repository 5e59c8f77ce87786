------------------------------ MODULE ExitPump ------------------------------
(***************************************************************************)
(* The task that owns the target socket of a stream: HubExit when the Hub  *)
(* itself is the exit (route "hub"), serve_inbound on the publishing node  *)
(* otherwise.  Both dial, answer the Open and pump until both directions   *)
(* are closed; they differ in how they send what the target said and in    *)
(* what they release at the end.                                           *)
(*                                                                         *)
(* ex holds the loop's locals, tgt the target: the chunks it was written   *)
(* and how many it has said.                                               *)
(***************************************************************************)
EXTENDS StreamLegs

CONSTANTS MaxRead  \* bound: chunks one read returns

VARIABLES ex, tgt

E == IF route = "hub" THEN "callerHub" ELSE "exit"

None == -1

ExitInit ==
  /\ ex = [pc |-> IF route = "hub" THEN "dial" ELSE "idle",
           pending |-> <<>>, eof |-> FALSE, fin |-> FALSE,
           final |-> None, shut |-> FALSE]
  /\ tgt = [got |-> <<>>, said |-> 0]

Goto(pc) == ex' = [ex EXCEPT !.pc = pc]

Engine == <<entry, wire>>
Tasks  == <<queue, sink, faulted>>

(* on_inbound_open: the driver registers the stream and starts the task. *)
OnInboundOpen ==
  /\ \E i \in Arriving("exit") :
       /\ IsEvent(wire["exit"][i], "Open")
       /\ wire' = Without("exit", i)
  /\ entry' = [entry EXCEPT !["exit"] = NewEntry]
  /\ sink' = sink \cup {"exit"}
  /\ Goto("dial")
  /\ UNCHANGED <<queue, faulted, tgt>>

(* The target cannot be dialled, or the node refuses to. *)
DialFails ==
  /\ ex.pc = "dial"
  /\ send_open_result(E, FALSE)
  /\ Goto("release")
  /\ UNCHANGED <<Tasks, tgt>>

DialSucceeds ==
  /\ ex.pc = "dial"
  /\ send_open_result(E, TRUE)
  /\ Goto("select")
  /\ UNCHANGED <<Tasks, tgt>>

-----------------------------------------------------------------------------
(* The top of the loop: send what credit allows.  HubExit sends the part     *)
(* that fits and resets a stream the engine no longer has; serve_inbound     *)
(* sends all of it or waits.                                                 *)
Fitting ==
  IF route = "hub" THEN Min({Room(E), Len(ex.pending)})
  ELSE IF Len(ex.pending) <= Room(E) THEN Len(ex.pending) ELSE 0

(* The write half is shut down once everything below the final offset was    *)
(* written.                                                                  *)
MayShut(x, got) == x.final # None /\ Len(got) >= x.final

FinIsDue(x) == x.eof /\ x.pending = <<>> /\ ~x.fin

(* The next step of the loop that has something to do: half-close, or wait. *)
Settled(x, got) ==
  [x EXCEPT !.pc = IF FinIsDue(x) \/ (~x.shut /\ MayShut(x, got))
                     THEN "finish" ELSE "select"]

(* The same from the top, where pending chunks are sent first. *)
Again(x, got) ==
  IF x.pending # <<>> THEN [x EXCEPT !.pc = "deliver"] ELSE Settled(x, got)

Deliver ==
  /\ ex.pc = "deliver"
  /\ IF entry[E].open
       THEN /\ send_data(E, SubSeq(ex.pending, 1, Fitting))
            /\ ex' = Settled([ex EXCEPT !.pending =
                                SubSeq(@, Fitting + 1, Len(@))], tgt.got)
       ELSE IF route = "hub" THEN send_reset(E) /\ Goto("release")
       ELSE ex' = Settled(ex, tgt.got) /\ UNCHANGED Engine
  /\ UNCHANGED <<Tasks, tgt>>

(* The half-closes, and the end of the loop once both are through. *)
Finish ==
  /\ ex.pc = "finish"
  /\ LET fin  == ex.fin \/ FinIsDue(ex)
         shut == ex.shut \/ MayShut(ex, tgt.got)
     IN  IF FinIsDue(ex) /\ ~entry[E].open
           THEN Goto("release") /\ UNCHANGED Engine
           ELSE /\ IF FinIsDue(ex) THEN send_fin(E) ELSE UNCHANGED Engine
                /\ ex' = [ex EXCEPT
                            !.fin = fin, !.shut = shut,
                            !.pc = IF fin /\ shut THEN "release" ELSE "select"]
  /\ UNCHANGED <<Tasks, tgt>>

-----------------------------------------------------------------------------
(* The select: what the target says is read only when nothing is pending. *)
ReadTarget ==
  /\ ex.pc = "select" /\ ~ex.eof /\ ex.pending = <<>>
  /\ \E n \in 1 .. MaxRead :
       /\ tgt.said + n <= sc.down
       /\ tgt' = [tgt EXCEPT !.said = @ + n]
       /\ ex' = [ex EXCEPT !.pc = "deliver",
                           !.pending = [i \in 1 .. n |-> tgt.said + i]]
  /\ UNCHANGED legVars

ReadEof ==
  /\ ex.pc = "select" /\ ~ex.eof /\ ex.pending = <<>>
  /\ ex' = [ex EXCEPT !.pc = "finish", !.eof = TRUE]
  /\ UNCHANGED <<legVars, tgt>>

(* The target socket fails under a read or a write. *)
TargetFails ==
  /\ May("target")
  /\ ex.pc = "select"
  /\ faulted' = faulted \cup {"target"}
  /\ send_reset(E)
  /\ Goto("release")
  /\ UNCHANGED <<queue, sink, tgt>>

(* write_all, and only then the credit. *)
WriteTarget ==
  /\ ex.pc = "select" /\ queue[E] # <<>> /\ IsEvent(Head(queue[E]), "Data")
  /\ tgt' = [tgt EXCEPT !.got = Append(@, Head(queue[E]).chunk)]
  /\ queue' = [queue EXCEPT ![E] = Tail(@)]
  /\ IF entry[E].open THEN consume(E, 1) ELSE
     IF route = "hub" THEN send_reset(E) ELSE UNCHANGED Engine
  /\ IF route = "hub" /\ ~entry[E].open
       THEN Goto("release") ELSE ex' = Again(ex, tgt'.got)
  /\ UNCHANGED <<sink, faulted>>

OtherEvent ==
  /\ ex.pc = "select" /\ queue[E] # <<>> /\ ~IsEvent(Head(queue[E]), "Data")
  /\ LET r == Head(queue[E])
     IN  IF IsEvent(r, "Reset") THEN Goto("release")
         ELSE ex' = Again([ex EXCEPT !.final = IF IsEvent(r, "Fin")
                                                 THEN r.at ELSE @], tgt.got)
  /\ queue' = [queue EXCEPT ![E] = Tail(@)]
  /\ UNCHANGED <<Engine, sink, faulted, tgt>>

(* The end of the task: the stream's sink goes, and the Hub also forgets the *)
(* engine's stream.  serve_inbound only returns.                             *)
Unregister ==
  /\ ex.pc = "release"
  /\ sink' = sink \ {E}
  /\ queue' = [queue EXCEPT ![E] = <<>>]
  /\ Goto(IF route = "hub" THEN "close" ELSE "done")
  /\ UNCHANGED <<Engine, faulted, tgt>>

CloseStream ==
  /\ ex.pc = "close"
  /\ close_stream(E)
  /\ Goto("done")
  /\ UNCHANGED <<Tasks, tgt>>

ExitStep ==
  \/ OnInboundOpen \/ DialFails \/ DialSucceeds
  \/ Deliver \/ Finish
  \/ ReadTarget \/ ReadEof \/ WriteTarget \/ OtherEvent
  \/ Unregister \/ CloseStream

ExitFault == TargetFails
=============================================================================
