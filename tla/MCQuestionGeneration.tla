------------------------ MODULE MCQuestionGeneration ------------------------
(***************************************************************************)
(* Instances of QuestionGeneration for TLC: chunks of two documents, one   *)
(* with an older version, one below the threshold, one of another user.    *)
(***************************************************************************)
EXTENDS QuestionGeneration

CONSTANTS resume, letter, user, other

Chunk(id, u, d, v, s) ==
    [id |-> id, user |-> u, document |-> d, version |-> v, similarity |-> s]

TwoVersions == (resume :> 2) @@ (letter :> 1)

\* Three that may be shown, of which TopK are; an older version, another user's, and
\* one below the threshold.
Chunks == {Chunk(1, user, resume, 2, 3), Chunk(2, user, letter, 1, 3),
           Chunk(3, user, resume, 2, 4), Chunk(4, user, resume, 1, 5),
           Chunk(5, other, resume, 2, 5), Chunk(6, user, letter, 1, 1)}
=============================================================================
