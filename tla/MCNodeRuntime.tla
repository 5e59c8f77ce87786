--------------------------- MODULE MCNodeRuntime ----------------------------
(***************************************************************************)
(* Two Hubs for NodeRuntime, with the loads a behaviour is chosen from.    *)
(***************************************************************************)
EXTENDS NodeRuntime

CONSTANTS h1, h2

Order == <<h1, h2>>

Quiet == [faults |-> 0, callers |-> 0, unreadable |-> {}, lists |-> {}, service |-> FALSE,
          flows |-> FALSE, stops |-> FALSE, ws |-> FALSE]

\* Faults on HTTP and WebSocket sessions; a Hub whose secret cannot be read;
\* a shutdown with a fault; another caller; flows that choose
\* while a Hub's directory changes.
MCLoads ==
  {[Quiet EXCEPT !.faults = 2, !.ws = w] : w \in BOOLEAN}
    \cup {[Quiet EXCEPT !.faults = 1, !.unreadable = {h1}],
          [Quiet EXCEPT !.faults = 1, !.stops = TRUE, !.ws = TRUE],
          [Quiet EXCEPT !.callers = 1],
          [Quiet EXCEPT !.flows = TRUE, !.faults = 1],
          [Quiet EXCEPT !.flows = TRUE, !.service = TRUE, !.lists = {<<h1, 1>>, <<h2, 2>>}]}
=============================================================================
