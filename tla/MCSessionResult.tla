---------------------------- MODULE MCSessionResult ----------------------------
(***************************************************************************)
(* Instances of SessionResult for TLC.                                     *)
(***************************************************************************)
EXTENDS SessionResult

CONSTANTS t1, t2, c1, c2, q1, q2, d1

Symmetry == Permutations(Turn) \cup Permutations(Category) \cup Permutations(Retrier)
=============================================================================
