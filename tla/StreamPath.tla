----------------------------- MODULE StreamPath -----------------------------
(***************************************************************************)
(* One stream end to end: the caller's SessionStream, the Hub's task and   *)
(* the exit.  authorize_open chose the route: the Hub dials the target     *)
(* itself ("hub"), or a Bridge carries the stream to the publishing node   *)
(* ("node").  The model starts when the Hub has accepted the Open.         *)
(***************************************************************************)
EXTENDS SessionStream, Bridge, ExitPump

vars == <<sc, legVars, app, br, ex, tgt>>

Init ==
  /\ LegsInit
  /\ AppInit
  /\ BridgeInit(route = "node")
  /\ ExitInit

Step ==
  \/ Carry /\ UNCHANGED <<app, br, ex, tgt, sc>>
  \/ AppStep /\ UNCHANGED <<br, ex, tgt, sc>>
  \/ BridgeStep /\ UNCHANGED <<app, ex, tgt, sc>>
  \/ ExitStep /\ UNCHANGED <<app, br, sc>>

Fault ==
  \/ (\E e \in Ends : Lose(e)) /\ UNCHANGED <<app, br, ex, tgt, sc>>
  \/ AppFault /\ UNCHANGED <<br, ex, tgt, sc>>
  \/ ExitFault /\ UNCHANGED <<app, br, sc>>

Next == Step \/ Fault

Spec == Init /\ [][Next]_vars

(* The weakest scheduling there is: while some task, carrier or running      *)
(* timer can take a step, one does; the application and the target close     *)
(* their halves when nothing else is left to do.  No fault has to happen.    *)
FairSpec == Spec /\ WF_vars(Step)

-----------------------------------------------------------------------------
(* What the two ends of the stream have seen.  Only a relay passes on what   *)
(* comes after a lost record.                                                *)
Pipe == INSTANCE BytePipe WITH
  Burst    <- Max({MaxWrite, MaxRead, FLOW_WINDOW}),
  pipe     <- [d \in {"up", "down"} |->
                 IF d = "up" THEN [wrote |-> app.wrote, got |-> tgt.got,
                                   shut |-> app.shut, eof |-> ex.shut]
                 ELSE [wrote |-> tgt.said, got |-> app.got,
                       shut |-> ex.eof, eof |-> app.eof]],
  err      <- app.err,
  troubled <- faulted # {} \/ sc.reorder,
  holed    <- route = "node" /\ "loss" \in faulted

(* The session stream, the bridge, the exit and both engines implement a     *)
(* byte pipe in each direction: whatever is lost, reordered, credited late   *)
(* or torn down, no chunk is repeated, skipped or swapped; end of file is    *)
(* reported once, after everything that was written before the half-close,   *)
(* unless a relay lost a record; and without a fault, and with downlinks in  *)
(* order, the application sees no error although the Hub answers events      *)
(* that arrive after it released the stream with a reset.                    *)
IsABytePipe == Pipe!Spec

(* What section 7.2 of the design asks of every hop: the final offset guards *)
(* the half-close against missing bytes, so an end of file that is reported  *)
(* follows everything that was written.                                      *)
NeverTruncated ==
  /\ ex.shut => app.shut /\ Len(tgt.got) = app.wrote
  /\ app.eof => ex.eof /\ Len(app.got) = tgt.said

Waiting(e) == Len(SelectSeq(queue[e], LAMBDA r : IsEvent(r, "Data")))

Buffered(e) ==
  CASE e = "caller" -> Len(app.rbuf)
    [] e \in HubEnds /\ route = "node" ->
         Len(br.from[e]) + (IF br.at = e THEN br.owed ELSE 0)
    [] OTHER -> 0

Carrying == {"open", "claim", "await", "answer", "push", "ack", "fin", "select"}

(* Credit follows consumption, never arrival: as long as a stream's task     *)
(* runs, what its end received and has not credited is exactly what sits in  *)
(* the task's queue and buffers.  No credit is granted early (the buffers    *)
(* stay within one window) and none is forgotten (the sender is not starved).*)
CreditFollowsConsumption ==
  \A e \in sink :
    entry[e].open /\ (e = "caller" => app.st \in {"opening", "open"})
                 /\ (route = "node" /\ e \in HubEnds => br.pc \in Carrying)
      => /\ entry[e].received - entry[e].consumed = Waiting(e) + Buffered(e)
         /\ Waiting(e) + Buffered(e) <= FLOW_WINDOW

Ended ==
  /\ app.st \in {"failed", "dropped"}
  /\ ex.pc \in {"idle", "done"}
  /\ br.pc \in {"idle", "end"}

(* Both tasks and the application's stream come to an end when both sides    *)
(* close, whether the dial, the target or the relay's handshake fails or     *)
(* not: no wait in the pumps is left without the event that ends it.         *)
Completes == <>[](faulted \subseteq {"relay", "target"} => Ended)

=============================================================================
