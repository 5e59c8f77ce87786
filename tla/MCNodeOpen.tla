----------------------------- MODULE MCNodeOpen -----------------------------
(* Two calls that retry one request_id, and a third with its own. *)
EXTENDS NodeOpen

CONSTANTS c1, c2, c3, r1, r3

RetryRequests == [c \in Calls |-> IF c = c3 THEN r3 ELSE r1]
=============================================================================
