---------------------------- MODULE JobContract ----------------------------
(***************************************************************************)
(* What the job queue promises a client that polls a job and reads the     *)
(* domain row: the life of a job, without messages, tokens, deadlines,     *)
(* workers or crashes.  An output appears in one step with the end of the  *)
(* job that produced it and comes from the job's last attempt; a failure   *)
(* and its dead letter are one step; a job that has ended never moves.     *)
(***************************************************************************)
EXTENDS Naturals

CONSTANTS Jobs, Targets, TargetOf, MaxAttempts, NoResult

VARIABLES
    phase,    \* status of the job
    tries,    \* attempts started
    stored,   \* <<job, attempt>> whose output the domain row holds
    dead      \* dead letters of the job

cvars == <<phase, tries, stored, dead>>

Running == {"queued", "processing"}

Init ==
    /\ phase = [j \in Jobs |-> "none"]
    /\ tries = [j \in Jobs |-> 0]
    /\ stored = [t \in Targets |-> NoResult]
    /\ dead = [j \in Jobs |-> 0]

\* One job at a time works for a domain row.
Create(j) ==
    /\ phase[j] = "none"
    /\ \A i \in Jobs : TargetOf[i] = TargetOf[j] => phase[i] \notin Running
    /\ phase' = [phase EXCEPT ![j] = "queued"]
    /\ UNCHANGED <<tries, stored, dead>>

Start(j) ==
    /\ phase[j] = "queued"
    /\ tries[j] < MaxAttempts
    /\ phase' = [phase EXCEPT ![j] = "processing"]
    /\ tries' = [tries EXCEPT ![j] = @ + 1]
    /\ UNCHANGED <<stored, dead>>

Finish(j) ==
    /\ phase[j] = "processing"
    /\ phase' = [phase EXCEPT ![j] = "succeeded"]
    /\ stored' = [stored EXCEPT ![TargetOf[j]] = <<j, tries[j]>>]
    /\ UNCHANGED <<tries, dead>>

\* Attempts given up on: the jobs again wait for another one, the others fail.
GiveUp(again, others) ==
    /\ again \cap others = {}
    /\ \A j \in again \cup others : phase[j] = "processing"
    /\ \A j \in again : tries[j] < MaxAttempts
    /\ phase' = [j \in Jobs |-> CASE j \in again  -> "queued"
                                  [] j \in others -> "failed"
                                  [] OTHER        -> phase[j]]
    /\ dead' = [j \in Jobs |-> IF j \in others THEN dead[j] + 1 ELSE dead[j]]
    /\ UNCHANGED <<tries, stored>>

Cancel(S) ==
    /\ \A j \in S : phase[j] \in Running
    /\ phase' = [j \in Jobs |-> IF j \in S THEN "cancelled" ELSE phase[j]]
    /\ UNCHANGED <<tries, stored, dead>>

\* The domain rows T go, and every job that was made for them.
Delete(T) ==
    /\ phase' = [j \in Jobs |-> IF TargetOf[j] \in T /\ phase[j] # "none"
                                THEN "deleted" ELSE phase[j]]
    /\ stored' = [t \in Targets |-> IF t \in T THEN NoResult ELSE stored[t]]
    /\ UNCHANGED <<tries, dead>>

Next ==
    \/ \E j \in Jobs : Create(j) \/ Start(j) \/ Finish(j)
    \/ \E again, others \in SUBSET Jobs : GiveUp(again, others)
    \/ \E S \in SUBSET Jobs : Cancel(S)
    \/ \E T \in SUBSET Targets : Delete(T)

Spec == Init /\ [][Next]_cvars
=============================================================================
