------------------------------- MODULE Bridge -------------------------------
(***************************************************************************)
(* The Hub's Bridge: it opens the second leg on the publishing node's      *)
(* session, answers the caller when that leg is ready, and carries chunks  *)
(* between the two legs.                                                   *)
(*                                                                         *)
(* br holds the task's locals, per leg where the code has one of each:     *)
(* from[e] are chunks that arrived on end e and still have to leave on the *)
(* other, fin[e] that the leg was half-closed, finSent[e] that a Fin was   *)
(* sent on it, done[e] that it needs no Reset.                             *)
(***************************************************************************)
EXTENDS StreamLegs

VARIABLES br

Other == [callerHub |-> "exitHub", exitHub |-> "callerHub"]
Each(v) == [e \in HubEnds |-> v]

BridgeInit(relayed) ==
  br = [pc |-> IF relayed THEN "open" ELSE "idle", at |-> "callerHub",
        ready |-> FALSE, owed |-> 0, from |-> Each(<<>>),
        fin |-> Each(FALSE), finSent |-> Each(FALSE), done |-> Each(FALSE)]

engine == <<entry, wire>>
tasks  == <<queue, sink, faulted>>

Jump(pc, e) == br' = [br EXCEPT !.pc = pc, !.at = e]

-----------------------------------------------------------------------------
(* open_on_publisher: the Open is in the engine's outbound queue, where any  *)
(* flush of the session finds it, before the stream is claimed.              *)
OpenOnPublisher ==
  /\ br.pc = "open"
  /\ entry' = [entry EXCEPT !["exitHub"] = NewEntry]
  /\ wire' = OnWire("exitHub", <<Rec("Open", 0)>>)
  /\ Jump("claim", "exitHub")
  /\ UNCHANGED tasks

(* The publisher's session cannot take another stream. *)
PublisherUnavailable ==
  /\ br.pc = "open"
  /\ Jump("refuse", "callerHub")
  /\ UNCHANGED <<engine, tasks>>

ClaimStream ==
  /\ br.pc = "claim"
  /\ sink' = sink \cup {"exitHub"}
  /\ Jump("await", "exitHub")
  /\ UNCHANGED <<engine, queue, faulted>>

Refusal == {"OpenFailed", "Reset", "Fin", "Data"}

(* await_open: success is OpenResult{Ok} and then Ready. *)
AwaitOpen ==
  /\ br.pc = "await" /\ queue["exitHub"] # <<>>
  /\ LET r == Head(queue["exitHub"])
     IN  br' = [br EXCEPT
                  !.ready = @ \/ IsEvent(r, "OpenOk"),
                  !.pc = IF r.kind \in Refusal THEN "refuse"
                         ELSE IF IsEvent(r, "Ready") /\ br.ready THEN "answer"
                         ELSE @]
  /\ queue' = [queue EXCEPT !["exitHub"] = Tail(@)]
  /\ UNCHANGED <<engine, sink, faulted>>

(* RELAY_OPEN_TIMEOUT: a running timer, so not counted among the faults. *)
AwaitTimesOut ==
  /\ "relay" \in sc.faults
  /\ br.pc = "await"
  /\ faulted' = faulted \cup {"relay"}
  /\ Jump("refuse", "callerHub")
  /\ UNCHANGED <<engine, queue, sink>>

(* refuse_caller *)
RefuseCaller ==
  /\ br.pc = "refuse"
  /\ IF entry["callerHub"].open
       THEN send_open_result("callerHub", FALSE) ELSE UNCHANGED engine
  /\ Jump("release", "callerHub")
  /\ UNCHANGED tasks

(* answer_caller *)
AnswerCaller ==
  /\ br.pc = "answer"
  /\ IF entry["callerHub"].open
       THEN send_open_result("callerHub", TRUE) /\ Jump("select", "callerHub")
       ELSE UNCHANGED engine /\ Jump("release", "exitHub")
  /\ UNCHANGED tasks

(* release_caller and release_publisher, in the order of the path that gave  *)
(* up: only a publisher whose stream is still installed is told.             *)
Release ==
  /\ br.pc = "release"
  /\ IF br.at = "exitHub" /\ entry["exitHub"].open
       THEN send_reset("exitHub") ELSE close_stream(br.at)
  /\ sink' = sink \ {br.at}
  /\ queue' = [queue EXCEPT ![br.at] = <<>>]
  /\ IF Other[br.at] \in sink THEN Jump("release", Other[br.at])
                              ELSE Jump("end", br.at)
  /\ UNCHANGED faulted

-----------------------------------------------------------------------------
(* One round of the loop: forward what the caller sent, then what the        *)
(* publisher sent, then the two half-closes, and wait.  A step with nothing  *)
(* to do is passed over.                                                     *)
Round == << <<"push", "callerHub">>, <<"push", "exitHub">>,
            <<"fin",  "callerHub">>, <<"fin",  "exitHub">> >>

FinDue_Overtakes(b, e) == b.fin[e] /\ ~b.finSent[Other[e]]

(* A half-close goes out only after every chunk before it. *)
FinDue(b, e) == b.fin[e] /\ ~b.finSent[Other[e]] /\ b.from[e] = <<>>

Due(b, i) ==
  LET e == Round[i][2]
  IN  IF Round[i][1] = "push" THEN b.from[e] # <<>> ELSE FinDue(b, e)

(* b at the first step of the round from the i-th on that has work; once     *)
(* both half-closes are out, nothing is left to tell.                        *)
Onward(b, i) ==
  LET due == {j \in i .. Len(Round) : Due(b, j)}
  IN  IF due # {} THEN [b EXCEPT !.pc = Round[Min(due)][1],
                                 !.at = Round[Min(due)][2]]
      ELSE IF \A e \in HubEnds : b.finSent[e]
             THEN [b EXCEPT !.pc = "teardown", !.done = Each(TRUE)]
      ELSE [b EXCEPT !.pc = "select"]

After(b, pc) ==
  Onward(b, 1 + CHOOSE i \in 1 .. Len(Round) : Round[i] = <<pc, b.at>>)

(* push: what the other leg's credit allows goes out. *)
Push ==
  /\ br.pc = "push"
  /\ LET o == Other[br.at]
         n == Min({Room(o), Len(br.from[br.at])})
     IN  IF ~entry[o].open THEN Jump("teardown", br.at) /\ UNCHANGED engine
         ELSE IF n = 0 THEN br' = After(br, "push") /\ UNCHANGED engine
         ELSE /\ send_data(o, SubSeq(br.from[br.at], 1, n))
              /\ br' = [br EXCEPT !.pc = "ack", !.owed = n,
                                  !.from[br.at] = SubSeq(@, n + 1, Len(@))]
  /\ UNCHANGED tasks

(* The leg the chunks came from earns the credit. *)
Acknowledge ==
  /\ br.pc = "ack"
  /\ IF entry[br.at].open
       THEN /\ consume(br.at, br.owed)
            /\ br' = After([br EXCEPT !.owed = 0], "push")
       ELSE UNCHANGED engine /\ Jump("teardown", br.at)
  /\ UNCHANGED tasks

ForwardFin ==
  /\ br.pc = "fin"
  /\ LET o == Other[br.at]
     IN  IF ~entry[o].open THEN Jump("teardown", br.at) /\ UNCHANGED engine
         ELSE /\ send_fin(o)
              /\ br' = After([br EXCEPT !.finSent[o] = TRUE], "fin")
  /\ UNCHANGED tasks

Select(e) ==
  /\ br.pc = "select" /\ queue[e] # <<>>
  /\ queue' = [queue EXCEPT ![e] = Tail(@)]
  /\ LET r == Head(queue[e])
     IN  CASE IsEvent(r, "Data") /\ br.fin[e] ->
                Jump("teardown", e) /\ UNCHANGED engine
           [] IsEvent(r, "Data") /\ ~br.fin[e] ->
                /\ br' = Onward([br EXCEPT !.from[e] = Append(@, r.chunk)], 1)
                /\ UNCHANGED engine
           [] IsEvent(r, "Fin") ->
                /\ br' = Onward([br EXCEPT !.fin[e] = TRUE], 1)
                /\ UNCHANGED engine
           [] IsEvent(r, "Reset") ->
                /\ br' = [br EXCEPT !.pc = "teardown", !.done = Each(TRUE)]
                /\ send_reset(Other[e])
           [] OTHER -> br' = Onward(br, 1) /\ UNCHANGED engine
  /\ UNCHANGED <<sink, faulted>>

-----------------------------------------------------------------------------
(* Whichever half is still open is reset, and both mappings are released. *)
Teardown ==
  /\ br.pc = "teardown"
  /\ entry' = [e \in Ends |-> IF e \in HubEnds /\ ~br.done[e]
                                THEN NoEntry ELSE entry[e]]
  /\ wire' = [e \in Ends |-> IF Peer[e] \in HubEnds /\ ~br.done[Peer[e]]
                               THEN Append(wire[e], Rec("Reset", 0))
                               ELSE wire[e]]
  /\ Jump("unregister", "callerHub")
  /\ UNCHANGED tasks

UnregisterStream ==
  /\ br.pc = "unregister"
  /\ sink' = sink \ {br.at}
  /\ queue' = [queue EXCEPT ![br.at] = <<>>]
  /\ Jump("close", br.at)
  /\ UNCHANGED <<engine, faulted>>

CloseLeg ==
  /\ br.pc = "close"
  /\ close_stream(br.at)
  /\ IF br.at = "callerHub" THEN Jump("unregister", "exitHub")
                            ELSE Jump("end", "exitHub")
  /\ UNCHANGED tasks

BridgeStep ==
  \/ OpenOnPublisher \/ PublisherUnavailable \/ ClaimStream
  \/ AwaitOpen \/ AwaitTimesOut \/ RefuseCaller \/ AnswerCaller \/ Release
  \/ Push \/ Acknowledge \/ ForwardFin
  \/ \E e \in HubEnds : Select(e)
  \/ Teardown \/ UnregisterStream \/ CloseLeg
=============================================================================
