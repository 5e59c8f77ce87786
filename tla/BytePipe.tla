------------------------------ MODULE BytePipe ------------------------------
(***************************************************************************)
(* What a stream promises: two pipes, "up" from the application to the     *)
(* target and "down" back.  A pipe delivers what was written, in order and *)
(* once, and reports its end after all of it was delivered.  The           *)
(* application sees an error only if there was trouble; a pipe with a hole *)
(* may end early but still delivers nothing but a prefix.                  *)
(***************************************************************************)
EXTENDS Naturals, Sequences

CONSTANT Burst  \* the most chunks one write or one read passes

VARIABLES
  pipe,      \* for each direction: chunks wrote and got, shut by its writer, eof seen
  err,       \* the application saw an error
  troubled,  \* something failed, or carriers may reorder
  holed      \* a chunk that a relay had to pass on may be missing

pipeVars == <<pipe, err, troubled, holed>>
Directions == {"up", "down"}

Init ==
  /\ pipe = [d \in Directions |-> [wrote |-> 0, got |-> <<>>, shut |-> FALSE, eof |-> FALSE]]
  /\ err = FALSE /\ troubled \in BOOLEAN /\ holed = FALSE

Write(d) ==
  /\ ~pipe[d].shut
  /\ \E n \in 1 .. Burst : pipe' = [pipe EXCEPT ![d].wrote = @ + n]
  /\ UNCHANGED <<err, troubled, holed>>

Shut(d) ==
  /\ ~pipe[d].shut /\ pipe' = [pipe EXCEPT ![d].shut = TRUE]
  /\ UNCHANGED <<err, troubled, holed>>

\* The chunks are numbered as they were written.
Deliver(d) ==
  /\ ~pipe[d].eof
  /\ \E n \in 1 .. Burst :
       /\ Len(pipe[d].got) + n <= pipe[d].wrote
       /\ pipe' = [pipe EXCEPT ![d].got = @ \o [i \in 1 .. n |-> Len(@) + i]]
  /\ UNCHANGED <<err, troubled, holed>>

Eof(d) ==
  /\ ~pipe[d].eof
  /\ holed \/ (pipe[d].shut /\ Len(pipe[d].got) = pipe[d].wrote)
  /\ pipe' = [pipe EXCEPT ![d].eof = TRUE]
  /\ UNCHANGED <<err, troubled, holed>>

Trouble ==
  /\ troubled' = TRUE /\ holed' \in {holed, TRUE} /\ err' \in {err, TRUE}
  /\ UNCHANGED pipe

Next == Trouble \/ \E d \in Directions : Write(d) \/ Shut(d) \/ Deliver(d) \/ Eof(d)

Spec == Init /\ [][Next]_pipeVars
=============================================================================
