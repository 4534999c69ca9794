----------------------------- MODULE MCJobQueue -----------------------------
(***************************************************************************)
(* Instances of JobQueue for TLC: one domain row of one room or document,  *)
(* with its job, and where the row may be retried by its user with a       *)
(* second job.                                                             *)
(***************************************************************************)
EXTENDS JobQueue, TLC

CONSTANTS j1, j2, t1, s1

\* Backoff of the reaper: 2 ** max(0, attempts - 1).
ReaperBackoff == [n \in 1..MaxAttempts |-> 2 ^ (n - 1)]

\* Jobs of the row: j2 of TwoJobs is the job of a user retry.
OneJob == j1 :> t1
TwoJobs == j1 :> t1 @@ j2 :> t1

OneRow == t1 :> s1

\* Job types of the row.
Feedback == t1 :> "turn_feedback"
UserMessage == t1 :> "conversation_text"
Analysis == t1 :> "interview_document_analysis"
Configuration == t1 :> "interview_configuration_generation"

Symmetry == Permutations(Workers)
=============================================================================
