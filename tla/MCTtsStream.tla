------------------------------ MODULE MCTtsStream ------------------------------
(***************************************************************************)
(* Instances of TtsStream for TLC.                                         *)
(***************************************************************************)
EXTENDS TtsStream, TLC

CONSTANTS w1, w2

Symmetry == Permutations(Worker)
=============================================================================
