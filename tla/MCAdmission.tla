---------------------------- MODULE MCAdmission ----------------------------
(* Two Auths of one node, one of them dated ahead, and one of another node;  *)
(* two proofs for one session.                                               *)
EXTENDS Admission, TLC

CONSTANTS t1, t2, a1, a2, a3, n1, n2, p1, p2

MCNodeOf    == a1 :> n1 @@ a2 :> n1 @@ a3 :> n2
MCTsOf      == a1 :> 2 @@ a2 :> 3 @@ a3 :> 2
MCSessionOf == p1 :> a1 @@ p2 :> a1
MCExpiresOf == p1 :> 3 @@ p2 :> 4
Alike       == Permutations({t1, t2})
Backwards   == {-2}
MCLoads     == {[what |-> {a1, a2, a3}, faults |-> 0],
                [what |-> {a1, a2}, faults |-> 1],
                [what |-> {a1}, faults |-> 2],
                [what |-> {a1, p1, p2}, faults |-> 1]}
=============================================================================
