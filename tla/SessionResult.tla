----------------------------- MODULE SessionResult -----------------------------
(***************************************************************************)
(* Scores: the feedback on each turn of a room and the result of the whole *)
(* session, which is made from them.                                       *)
(*   worker/domain_adapters.py      FeedbackAdapter, SessionResultAdapter  *)
(*   app/ai/schemas.py              InterviewEvaluation.from_scores        *)
(*   app/repositories/feedback.py   retry_feedback                         *)
(*   app/repositories/results.py    retry, delete                          *)
(*   app/repositories/conversation.py   complete_practice                  *)
(*                                                                         *)
(* The queue is JobQueue's subject.  Here a feedback attempt is the token  *)
(* it was claimed with, and the result's job is its number and status.     *)
(* Two requests are split where another transaction can commit in between  *)
(* under READ COMMITTED: retry selects the result with the snapshot it had *)
(* before it waited for the room's lock, and delete looks for an active    *)
(* job and then deletes.                                                   *)
(***************************************************************************)
EXTENDS Integers, FiniteSets, FiniteSetsExt, TLC

CONSTANTS
    Turn,           \* user messages that may be answered
    Category,       \* categories of a score
    Points,         \* the values of one score
    Retrier,        \* requests to retry the result
    Deleter,        \* requests to delete the result
    MaxToken,       \* bound: attempts at one feedback
    MaxJobs         \* bound: jobs of the result

ASSUME SessionResultAssumption ==
    /\ IsFiniteSet(Turn) /\ IsFiniteSet(Category)
    /\ Points \subseteq Nat \ {0}
    /\ MaxToken \in Nat \ {0} /\ MaxJobs \in Nat

VARIABLES
    room,       \* kind, turns with a reply, whether it is completed, feedback ready by then
    feedback,   \* turn_feedback and feedback_scores of a turn
    attempt,    \* the token of the attempt that waits for the provider, 0 for none
    result,     \* session_results with its scores
    job,        \* the latest job of the result
    claim,      \* what the worker of the result has read
    retrier,    \* what a retry request has read
    deleter     \* whether a delete request has looked for active jobs

vars == <<room, feedback, attempt, result, job, claim, retrier, deleter>>

\* practice_type = 'interview'
Interview == room.interview

NoScore == -1
Partial(S) == UNION {[D -> Points] : D \in SUBSET S}      \* one score per category at most
Total(scores) == MapThenSumSet(LAMBDA c : scores[c], DOMAIN scores)
Complete(scores) == DOMAIN scores = Category

NoFeedback == [status |-> "none", token |-> 0, scores |-> <<>>, overall |-> NoScore]
NoResult == [status |-> "none", id |-> 0, scores |-> <<>>, overall |-> NoScore, missing |-> {},
             scope |-> {}]
NoClaim == [job |-> 0, scope |-> {}, overall |-> NoScore]
NewRetry == [step |-> "new", status |-> "none", id |-> 0]
NewDelete == [step |-> "new", id |-> 0]

TypeOK ==
    /\ room \in [interview : BOOLEAN, turns : SUBSET Turn, completed : BOOLEAN, cutoff : SUBSET Turn]
    /\ \A t \in Turn :
         /\ feedback[t].status \in {"none", "processing", "ready", "partial", "failed"}
         /\ feedback[t].token \in 0 .. MaxToken
         /\ feedback[t].scores \in Partial(Category)
         /\ feedback[t].overall \in Nat \cup {NoScore}
    /\ attempt \in [Turn -> 0 .. MaxToken]
    /\ result.status \in {"none", "processing", "succeeded", "partial", "failed"}
    /\ result.id \in 0 .. MaxJobs
    /\ result.scores \in Partial(Category) /\ result.missing \subseteq Category
    /\ result.overall \in Nat \cup {NoScore} /\ result.scope \subseteq Turn
    /\ job \in [no : 0 .. MaxJobs, status : {"none", "queued", "processing", "ended"}]
    /\ claim \in [job : 0 .. MaxJobs, scope : SUBSET Turn, overall : Nat \cup {NoScore}]
    /\ claim.job # 0 => claim.overall \in Nat
    /\ retrier \in [Retrier -> [step : {"new", "selected", "done"}, id : 0 .. MaxJobs,
                                status : {"none", "processing", "succeeded", "partial", "failed"}]]
    /\ deleter \in [Deleter -> [step : {"new", "checked", "done"}, id : 0 .. MaxJobs]]

Init ==
    /\ \E i \in BOOLEAN :
         room = [interview |-> i, turns |-> {}, completed |-> FALSE, cutoff |-> {}]
    /\ feedback = [t \in Turn |-> NoFeedback]
    /\ attempt = [t \in Turn |-> 0]
    /\ result = NoResult
    /\ job = [no |-> 0, status |-> "none"]
    /\ claim = NoClaim
    /\ retrier = [q \in Retrier |-> NewRetry]
    /\ deleter = [q \in Deleter |-> NewDelete]

-------------------------------------------------------------------------------
\* The conversation

\* ConversationAdapter.complete: a turn is confirmed; _fan_out asks for its feedback.
ConfirmTurn(t) ==
    /\ ~room.completed /\ t \notin room.turns
    /\ room' = [room EXCEPT !.turns = @ \cup {t}]
    /\ feedback' = IF Interview THEN feedback
                   ELSE [feedback EXCEPT ![t] = [NoFeedback EXCEPT !.status = "processing",
                                                                   !.token = 1]]
    /\ UNCHANGED <<attempt, result, job, claim, retrier, deleter>>

Ready == {t \in Turn : feedback[t].status = "ready"}

\* A new job for the result's row, whose other columns stay as they are.  A row that is
\* inserted is named after its first job.
StartJob(row) ==
    /\ job.no < MaxJobs
    /\ job' = [no |-> job.no + 1, status |-> "queued"]
    /\ result' = [row EXCEPT !.status = "processing",
                             !.id = IF @ = 0 THEN job.no + 1 ELSE @]

\* complete_practice, complete_interview and _complete_room: a room with turns has a result.
EndPractice ==
    /\ ~room.completed
    /\ room' = [room EXCEPT !.completed = TRUE, !.cutoff = Ready]
    /\ IF room.turns = {} THEN UNCHANGED <<result, job>> ELSE StartJob(NoResult)
    /\ UNCHANGED <<feedback, attempt, claim, retrier, deleter>>

-------------------------------------------------------------------------------
\* Turn feedback

\* FeedbackAdapter.claim takes the token of the row.
ClaimFeedback(t) ==
    /\ feedback[t].status = "processing" /\ attempt[t] # feedback[t].token
    /\ attempt' = [attempt EXCEPT ![t] = feedback[t].token]
    /\ UNCHANGED <<room, feedback, result, job, claim, retrier, deleter>>

\* New scores are written over the old ones, which are not deleted first.
FaultyScored(row, scores) ==
    [row EXCEPT !.scores = scores @@ row.scores,
                !.status = IF Complete(scores) THEN "ready" ELSE "partial",
                !.overall = IF Complete(scores) THEN Total(scores) ELSE NoScore]

\* The row after complete: a total only when no category is missing.
Scored(row, scores) ==
    [row EXCEPT !.scores = scores,
                !.status = IF Complete(scores) THEN "ready" ELSE "partial",
                !.overall = IF Complete(scores) THEN Total(scores) ELSE NoScore]

\* FeedbackAdapter.complete: the scores are replaced if the token is still the row's.
CompleteFeedback(t) ==
    /\ attempt[t] # 0
    /\ \E scores \in Partial(Category) :
         feedback' = IF feedback[t].status = "processing" /\ attempt[t] = feedback[t].token
                     THEN [feedback EXCEPT ![t] = Scored(@, scores)]
                     ELSE feedback
    /\ attempt' = [attempt EXCEPT ![t] = 0]
    /\ UNCHANGED <<room, result, job, claim, retrier, deleter>>

\* fail and recover_expired: the scores of an earlier attempt stay.
FailFeedback(t) ==
    /\ feedback[t].status = "processing"
    /\ feedback' = [feedback EXCEPT ![t].status = "failed"]
    /\ UNCHANGED <<room, attempt, result, job, claim, retrier, deleter>>

\* The reaper gives the row to a new attempt.
RequeueFeedback(t) ==
    /\ feedback[t].status = "processing" /\ feedback[t].token < MaxToken
    /\ feedback' = [feedback EXCEPT ![t].token = @ + 1]
    /\ UNCHANGED <<room, attempt, result, job, claim, retrier, deleter>>

\* A retry of any feedback that is not being made.
FaultyRetryable(row) == row.status \in {"failed", "partial", "ready"}

Retryable(row) == row.status \in {"failed", "partial"}

\* retry_feedback: the row and its scores stay, with a new token.
RetryFeedback(t) ==
    /\ Retryable(feedback[t]) /\ feedback[t].token < MaxToken
    /\ feedback' = [feedback EXCEPT ![t].status = "processing", ![t].token = @ + 1]
    /\ UNCHANGED <<room, attempt, result, job, claim, retrier, deleter>>

-------------------------------------------------------------------------------
\* The result

\* int(Decimal(avg).quantize(1)): rounded to the nearest, a half to the even neighbour.
Rounded(sum, n) ==
    LET low == sum \div n
        rest == 2 * (sum % n)
    IN IF rest > n \/ (rest = n /\ low % 2 = 1) THEN low + 1 ELSE low

\* The average of the ready feedback, and 0 if there is none.
Average(turns) ==
    IF turns = {} THEN 0
    ELSE Rounded(MapThenSumSet(LAMBDA t : feedback[t].overall, turns), Cardinality(turns))

\* SessionResultAdapter.claim reads the average of the turns.
ClaimResult ==
    /\ job.status = "queued" /\ result.status = "processing"
    /\ job' = [job EXCEPT !.status = "processing"]
    /\ claim' = [job |-> job.no, scope |-> Ready, overall |-> Average(Ready)]
    /\ UNCHANGED <<room, feedback, attempt, result, retrier, deleter>>

\* from_scores without the normalisation of duplicates.
FaultyFromScores(given) ==
    LET scores == [c \in {g[1] : g \in given} |-> Min({g[2] : g \in {h \in given : h[1] = c}})]
    IN [status |-> IF given = {} THEN "failed"
                   ELSE IF Complete(scores) THEN "succeeded" ELSE "partial",
        scores |-> scores,
        overall |-> IF Complete(scores) THEN MapThenSumSet(LAMBDA g : g[2], given) ELSE NoScore,
        missing |-> Category \ DOMAIN scores]

\* InterviewEvaluation.from_scores: of several scores of a category the lowest counts.
FromScores(given) ==
    LET scores == [c \in {g[1] : g \in given} |-> Min({g[2] : g \in {h \in given : h[1] = c}})]
    IN [status |-> IF given = {} THEN "failed"
                   ELSE IF Complete(scores) THEN "succeeded" ELSE "partial",
        scores |-> scores,
        overall |-> IF Complete(scores) THEN Total(scores) ELSE NoScore,
        missing |-> Category \ DOMAIN scores]

\* What complete writes: the evaluation of an interview, or the scores of the session
\* beside the average of its turns.
Outcome(given) ==
    IF Interview
    THEN FromScores(given)
    ELSE [status |-> "succeeded", overall |-> claim.overall, missing |-> {},
          scores |-> [c \in {g[1] : g \in given} |-> CHOOSE p \in Points : <<c, p>> \in given]]

\* _session_result: an interview may name a category twice, the other output may not.
Outputs ==
    {given \in SUBSET (Category \X Points) :
       Interview \/ \A g, h \in given : g[1] = h[1] => g = h}

\* complete of the adapter and the queue: row and job must still be in processing, and the
\* trigger refuses a failed result of a succeeded job.
CompleteResult ==
    /\ claim.job # 0
    /\ result.status = "processing" /\ job = [no |-> claim.job, status |-> "processing"]
    /\ \E given \in Outputs :
         LET made == Outcome(given)
         IN /\ made.status # "failed"
            /\ result' = [result EXCEPT !.status = made.status, !.scores = made.scores,
                                        !.overall = made.overall, !.missing = made.missing,
                                        !.scope = claim.scope]
    /\ job' = [job EXCEPT !.status = "ended"]
    /\ claim' = NoClaim
    /\ UNCHANGED <<room, feedback, attempt, retrier, deleter>>

\* The worker plans a retry: the row is left alone, the next claim reads again.
RequeueResult ==
    /\ claim.job # 0 /\ job = [no |-> claim.job, status |-> "processing"]
    /\ job' = [job EXCEPT !.status = "queued"]
    /\ claim' = NoClaim
    /\ UNCHANGED <<room, feedback, attempt, result, retrier, deleter>>

\* An exception, a crash, or an answer that comes too late.
LoseClaim ==
    /\ claim.job # 0
    /\ claim' = NoClaim
    /\ UNCHANGED <<room, feedback, attempt, result, job, retrier, deleter>>

Failed(row) ==
    [row EXCEPT !.status = "failed", !.overall = NoScore,
                !.missing = IF Interview THEN Category ELSE @]

\* fail, by the worker or by the reaper under it.
FailResult ==
    /\ job.status = "processing" /\ result.status = "processing"
    /\ result' = Failed(result)
    /\ job' = [job EXCEPT !.status = "ended"]
    /\ UNCHANGED <<room, feedback, attempt, claim, retrier, deleter>>

JobActive == job.status \in {"queued", "processing"}

\* retry, first statement: the latest result of a completed room.
SelectForRetry(q) ==
    /\ retrier[q].step = "new" /\ room.completed
    /\ retrier' = [retrier EXCEPT ![q] = [step |-> "selected", status |-> result.status,
                                          id |-> result.id]]
    /\ UNCHANGED <<room, feedback, attempt, result, job, claim, deleter>>

\* Without session_results_interview_score_contract.
FaultyRestarts(seen) ==
    /\ seen.status = "failed" /\ ~JobActive
    /\ result.id = seen.id

\* retry, the rest, for a result that it saw failed: no active job, the row is still there
\* (foreign key), and of an interview it has no total (session_results_interview_score_contract).
Restarts(seen) ==
    /\ seen.status = "failed" /\ ~JobActive
    /\ result.id = seen.id
    /\ Interview => result.overall = NoScore

\* ... and for a room without a result: there is still none (unique room_id).
Inserts(seen) == seen.id = 0 /\ result.id = 0

Retry(q) ==
    /\ retrier[q].step = "selected"
    /\ IF Restarts(retrier[q]) \/ Inserts(retrier[q])
       THEN StartJob(result) ELSE UNCHANGED <<result, job>>
    /\ retrier' = [retrier EXCEPT ![q] = [NewRetry EXCEPT !.step = "done"]]
    /\ UNCHANGED <<room, feedback, attempt, claim, deleter>>

\* delete, first statement: a result with an active job is refused.
CheckForDelete(q) ==
    /\ deleter[q].step = "new" /\ result.id # 0
    /\ deleter' = [deleter EXCEPT ![q] =
                     IF JobActive THEN [step |-> "done", id |-> 0]
                     ELSE [step |-> "checked", id |-> result.id]]
    /\ UNCHANGED <<room, feedback, attempt, result, job, claim, retrier>>

\* delete, second statement: scores and jobs go with the row.
Delete(q) ==
    /\ deleter[q].step = "checked"
    /\ IF result.id = deleter[q].id
       THEN result' = NoResult /\ job' = [job EXCEPT !.status = "ended"]
       ELSE UNCHANGED <<result, job>>
    /\ deleter' = [deleter EXCEPT ![q] = [step |-> "done", id |-> 0]]
    /\ UNCHANGED <<room, feedback, attempt, claim, retrier>>

-------------------------------------------------------------------------------
Next ==
    \/ \E t \in Turn :
         \/ ConfirmTurn(t)
         \/ ClaimFeedback(t) \/ CompleteFeedback(t) \/ FailFeedback(t)
         \/ RequeueFeedback(t) \/ RetryFeedback(t)
    \/ EndPractice
    \/ ClaimResult \/ CompleteResult \/ RequeueResult \/ LoseClaim \/ FailResult
    \/ \E q \in Retrier : SelectForRetry(q) \/ Retry(q)
    \/ \E q \in Deleter : CheckForDelete(q) \/ Delete(q)

Spec == Init /\ [][Next]_vars

-------------------------------------------------------------------------------
\* Properties

\* A total is shown exactly when every category has a score, and is the sum of those that
\* are stored, after any mix of attempts that fail, are given up on or come late
\* (FeedbackAdapter.complete, retry_feedback).
TotalsAddUp ==
    \A t \in Turn :
        /\ feedback[t].overall # NoScore <=> feedback[t].status = "ready"
        /\ feedback[t].status = "ready" =>
             Complete(feedback[t].scores) /\ feedback[t].overall = Total(feedback[t].scores)
        /\ feedback[t].status = "partial" => ~Complete(feedback[t].scores)

\* The total of a chat or scenario stays explained by the feedback it was averaged from:
\* those turns still have their feedback, and their mean is within half a point
\* (SessionResultAdapter.claim, complete and retry_feedback).
ScoreIsExplained ==
    ~Interview /\ result.status = "succeeded" =>
        LET n == Cardinality(result.scope)
            sum == MapThenSumSet(LAMBDA t : feedback[t].overall, result.scope)
        IN /\ result.scope \subseteq Ready
           /\ 2 * (result.overall * n - sum) <= n /\ 2 * (sum - result.overall * n) <= n

\* The result of an interview and its five scores agree, through failures and retries: all
\* scores and their sum, or the missing ones named and no total (from_scores, fail).
InterviewAddsUp ==
    Interview =>
        /\ result.status = "succeeded" =>
             Complete(result.scores) /\ result.overall = Total(result.scores) /\ result.missing = {}
        /\ result.status \in {"partial", "failed"} => result.overall = NoScore
        /\ result.status = "partial" =>
             result.missing = Category \ DOMAIN result.scores /\ result.missing # {}
        /\ result.status = "failed" => result.missing = Category

\* "result is not retryable": the result of an interview that has succeeded is not made
\* again, although requests to retry it may have seen it failed (retry).
SucceededIsFinal ==
    [][Interview /\ result.status = "succeeded" =>
          result'.status \in {"succeeded", "none"}]_vars

\* The same of every room.
EveryResultIsFinal ==
    [][result.status = "succeeded" => result'.status \in {"succeeded", "none"}]_vars

\* "result has an active job": a result is not deleted under its job (delete).
DeletedAtRest == [][JobActive => result'.id = result.id]_vars

\* The design of the screens: where no score could be made, none is shown.
ScoreHasBasis == ~Interview /\ result.overall # NoScore => result.scope # {}

\* The README: what is evaluated is fixed when the room ends.
ScopeIsFixed ==
    ~Interview /\ result.status = "succeeded" => result.scope = room.cutoff
=============================================================================
