--------------------------- MODULE MCInterviewSetup ---------------------------
(***************************************************************************)
(* Instances of InterviewSetup for TLC.                                    *)
(***************************************************************************)
EXTENDS InterviewSetup, TLC

CONSTANTS d1, d2, a1, a2, c1, c2, w1, w2

Symmetry ==
    Permutations(Document) \cup Permutations(Analysis)
        \cup Permutations(Configuration) \cup Permutations(Worker)
=============================================================================
