--------------------------- MODULE SessionStream ----------------------------
(***************************************************************************)
(* The caller's half: SessionStream behind copy_bidirectional, which is    *)
(* how the SOCKS5 and Local Forward entry points use it.  One task polls   *)
(* both directions, so a poll is one step.                                 *)
(*                                                                         *)
(* app holds SessionStream's fields (rbuf, finAt, reset, wbuf, shut) and   *)
(* what the application has seen: got, wrote, eof, err.                    *)
(***************************************************************************)
EXTENDS StreamLegs

CONSTANTS MaxWrite  \* bound: chunks one write passes

VARIABLES app

Unset == -1

AppInit ==
  app = [st |-> "opening", rbuf |-> <<>>, finAt |-> Unset, reset |-> FALSE,
         wbuf |-> <<>>, shut |-> FALSE,
         got |-> <<>>, wrote |-> 0, eof |-> FALSE, err |-> FALSE]

Here == "caller"

(* on_open_result: a success hands the stream to the caller of open, unless  *)
(* it gave up waiting, in which case the stream is dropped.                  *)
OnOpenResult ==
  /\ \E i \in Arriving(Here) :
       LET r == wire[Here][i]
       IN  /\ r.kind \in {"OpenOk", "OpenFailed"}
           /\ wire' = Without(Here, i)
           /\ IF IsEvent(r, "OpenOk") /\ app.st = "opening"
                THEN /\ app' = [app EXCEPT !.st = "open"]
                     /\ UNCHANGED <<entry, sink>>
                ELSE /\ app' = [app EXCEPT
                                  !.st = IF @ = "opening" THEN "failed" ELSE @]
                     /\ entry' = [entry EXCEPT ![Here] = NoEntry]
                     /\ sink' = sink \ {Here}
  /\ UNCHANGED <<queue, faulted>>

(* OPERATION_OPEN_TIMEOUT_SECS *)
OpenTimesOut ==
  /\ May("timeout")
  /\ app.st = "opening"
  /\ app' = [app EXCEPT !.st = "failed"]
  /\ faulted' = faulted \cup {"timeout"}
  /\ UNCHANGED <<entry, wire, queue, sink>>

-----------------------------------------------------------------------------
(* absorb *)
Data(events)   == SelectSeq(events, LAMBDA r : IsEvent(r, "Data"))
Finals(events) == {events[i].at : i \in {j \in DOMAIN events :
                                           IsEvent(events[j], "Fin")}}

Absorbed(events) ==
  [app EXCEPT
     !.rbuf  = @ \o [i \in DOMAIN Data(events) |-> Data(events)[i].chunk],
     !.finAt = Max({@} \cup Finals(events)),
     !.reset = @ \/ \E i \in DOMAIN events : IsEvent(events[i], "Reset")]

Queue == queue[Here]

(* poll_write with an empty write buffer: the chunks are sent, or buffered   *)
(* when the window does not cover all of them.                               *)
PollWrite ==
  /\ app.st = "open" /\ ~app.shut /\ app.wbuf = <<>>
  /\ \E n \in 1 .. MaxWrite :
       LET chunks == [i \in 1 .. n |-> app.wrote + i]
       IN  /\ app.wrote + n <= sc.up
           /\ IF ~entry[Here].open
                THEN /\ app' = [Absorbed(Queue) EXCEPT !.err = TRUE,
                                                       !.st = "dropping"]
                     /\ UNCHANGED <<entry, wire>>
              ELSE IF n <= Room(Here)
                THEN /\ app' = [Absorbed(Queue) EXCEPT !.wrote = @ + n]
                     /\ send_data(Here, chunks)
                ELSE /\ app' = [Absorbed(Queue) EXCEPT !.wrote = @ + n,
                                                       !.wbuf = chunks]
                     /\ UNCHANGED <<entry, wire>>
  /\ queue' = [queue EXCEPT ![Here] = <<>>]
  /\ UNCHANGED <<sink, faulted>>

(* poll_write or poll_flush with a full write buffer: pump and flush_writes, *)
(* which sends the whole buffer or nothing.                                  *)
PollFlush ==
  /\ app.st = "open" /\ app.wbuf # <<>>
  /\ Queue # <<>> \/ ~entry[Here].open \/ Len(app.wbuf) <= Room(Here)
  /\ IF ~entry[Here].open
       THEN /\ app' = [Absorbed(Queue) EXCEPT !.err = TRUE, !.st = "dropping"]
            /\ UNCHANGED <<entry, wire>>
     ELSE IF Len(app.wbuf) <= Room(Here)
       THEN /\ app' = [Absorbed(Queue) EXCEPT !.wbuf = <<>>]
            /\ send_data(Here, app.wbuf)
       ELSE /\ app' = Absorbed(Queue)
            /\ UNCHANGED <<entry, wire>>
  /\ queue' = [queue EXCEPT ![Here] = <<>>]
  /\ UNCHANGED <<sink, faulted>>

(* The local side half-closes: poll_flush, and poll_shutdown once it is      *)
(* through.  A stream the engine no longer has counts as shut down.          *)
PollShutdown ==
  /\ app.st = "open" /\ ~app.shut /\ app.wbuf = <<>>
  /\ app' = [Absorbed(Queue) EXCEPT !.shut = TRUE]
  /\ queue' = [queue EXCEPT ![Here] = <<>>]
  /\ IF entry[Here].open THEN send_fin(Here) ELSE UNCHANGED <<entry, wire>>
  /\ UNCHANGED <<sink, faulted>>

-----------------------------------------------------------------------------
(* Everything below the final offset was delivered. *)
AtEof(a) == a.finAt # Unset /\ Len(a.got) >= a.finAt

(* What poll_read reports once its read buffer is empty: a reset before the  *)
(* end of the file.                                                          *)
Reported(a) ==
  IF a.reset THEN [a EXCEPT !.err = TRUE, !.st = "dropping"]
  ELSE IF AtEof(a) THEN [a EXCEPT !.eof = TRUE] ELSE a

\* Mutant: credit for everything that arrived, not for what was taken.
Taken_CreditsAll(a, n) ==
  /\ app' = [a EXCEPT !.rbuf = SubSeq(@, n + 1, Len(@)),
                      !.got = @ \o SubSeq(a.rbuf, 1, n)]
  /\ IF entry[Here].open
       THEN consume(Here, entry[Here].received - entry[Here].consumed + 1)
       ELSE UNCHANGED <<entry, wire>>

Taken(a, n) ==
  /\ app' = [a EXCEPT !.rbuf = SubSeq(@, n + 1, Len(@)),
                      !.got = @ \o SubSeq(a.rbuf, 1, n)]
  /\ IF entry[Here].open THEN consume(Here, n) ELSE UNCHANGED <<entry, wire>>

(* poll_read: buffered chunks first, then a reset, the end of the file, and  *)
(* only then the next message.                                               *)
PollRead ==
  /\ app.st = "open" /\ ~app.eof
  /\ \/ /\ app.rbuf # <<>>
        /\ \E n \in 1 .. Len(app.rbuf) : Taken(app, n)
        /\ UNCHANGED queue
     \/ /\ app.rbuf = <<>> /\ Reported(app) # app
        /\ app' = Reported(app)
        /\ UNCHANGED <<entry, wire, queue>>
     \/ /\ app.rbuf = <<>> /\ Reported(app) = app /\ Queue # <<>>
        /\ queue' = [queue EXCEPT ![Here] = Tail(@)]
        /\ LET a == Absorbed(<<Head(Queue)>>)
           IN  IF a.rbuf # <<>> THEN Taken(a, 1)
               ELSE app' = Reported(a) /\ UNCHANGED <<entry, wire>>
  /\ UNCHANGED <<sink, faulted>>

(* The local client goes away. *)
ClientFails ==
  /\ May("client")
  /\ app.st = "open"
  /\ app' = [app EXCEPT !.err = TRUE, !.st = "dropping"]
  /\ faulted' = faulted \cup {"client"}
  /\ UNCHANGED <<entry, wire, queue, sink>>

(* copy_bidirectional returned: the stream is dropped, which only forgets    *)
(* the engine's state.                                                       *)
DropStream ==
  /\ app.st = "dropping" \/ (app.st = "open" /\ app.eof /\ app.shut)
  /\ app' = [app EXCEPT !.st = "dropped"]
  /\ close_stream(Here)
  /\ sink' = sink \ {Here}
  /\ queue' = [queue EXCEPT ![Here] = <<>>]
  /\ UNCHANGED faulted

AppStep ==
  \/ OnOpenResult
  \/ PollWrite \/ PollFlush \/ PollShutdown \/ PollRead
  \/ DropStream

AppFault == OpenTimesOut \/ ClientFails
=============================================================================
