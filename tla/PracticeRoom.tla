----------------------------- MODULE PracticeRoom -----------------------------
(***************************************************************************)
(* Turns of practice rooms: messages and replies, the questions of an      *)
(* interview, the goals of a scenario, and how a room ends.                *)
(*   app/repositories/conversation.py   create_message_and_job,            *)
(*       complete_interview, complete_practice, dismiss_goal_prompt,       *)
(*       retry_response                                                    *)
(*   worker/domain_adapters.py          ConversationAdapter,               *)
(*       GoalProgressAdapter                                               *)
(*   worker/executors.py                _conversation                      *)
(*                                                                         *)
(* The queue itself is the subject of JobQueue; here a reply is queued,    *)
(* processing, succeeded or failed, and the processing token is the worker *)
(* that holds the claim.  A message is its place in the room's sequence,   *)
(* which is sequence_no: max + 1 under a unique constraint leaves no gap.  *)
(*                                                                         *)
(* Two transactions are split where another can come between their         *)
(* statements.  create_message_and_job locks the room's row, counts the    *)
(* user's active jobs, inserts and commits.  complete reads max            *)
(* (sequence_no) without a lock on the room; its insert waits for whoever  *)
(* holds that lock (the foreign key) and is then checked.                  *)
(***************************************************************************)
EXTENDS Integers, Sequences, FiniteSets

CONSTANTS
    Room, TypeOf,       \* the user's rooms and their practice_type
    Questions,          \* number of questions of an interview room
    Condition,          \* success conditions of a scenario ...
    Required,           \* ... and those that are required
    MaxTurns,           \* max_turns of a scenario
    Limit,              \* user_queue_limit
    Worker,             \* consumers of conversation_text
    Nobody,
    MaxMessages         \* bound: user messages of each room

PracticeType == {"interview", "scenario", "free_chat"}

ASSUME PracticeRoomAssumption ==
    /\ TypeOf \in [Room -> PracticeType]
    /\ Questions \in [Room -> Nat \ {0}] /\ MaxMessages \in Nat
    /\ MaxTurns \in Nat \ {0} /\ Limit \in Nat \ {0}
    /\ Required \subseteq Condition
    /\ Nobody \notin Worker

VARIABLES
    room,      \* status, ended_reason, turn_count, goal_prompt_dismissed_at
    msgs,      \* room_messages with their answer and reply records
    open,      \* a create_message_and_job that holds the room's lock
    work,      \* what a worker is doing
    evals,     \* goal evaluations by turn
    achieved,  \* conditions recorded as achieved
    results,   \* session_results rows of a room
    side       \* active jobs for speech, feedback and results of the user

vars == <<room, msgs, open, work, evals, achieved, results, side>>

\* open[r] is the question an open request answers, 0 for none; Closed is no request.
Closed == -1
NoQuestion == 0

Idle == [step |-> "idle", room |-> Nobody, msg |-> 0, limit |-> FALSE, seq |-> 0,
         complete |-> FALSE, end |-> FALSE]

TypeOK ==
    /\ room \in [Room ->
         [status : {"in_progress", "completed"},
          ended : {"none", "awaiting_user_end", "goal_achieved", "completed"},
          turns : Nat, dismissed : BOOLEAN]]
    /\ \A r \in Room : \A i \in DOMAIN msgs[r] :
         msgs[r][i] \in [by : {"user", "persona"}, replyTo : Nat,
                         question : 0 .. Questions[r], attempt : Nat, current : BOOLEAN,
                         reply : {"none", "queued", "processing", "succeeded", "failed"},
                         holder : Worker \cup {Nobody}]
    /\ \A r \in Room : open[r] \in Closed .. Questions[r]
    /\ work \in [Worker ->
         [step : {"idle", "executing", "storing"}, room : Room \cup {Nobody},
          msg : Nat, limit : BOOLEAN, seq : Nat, complete : BOOLEAN, end : BOOLEAN]]
    /\ \A r \in Room : evals[r] \in [1 .. MaxMessages -> {"none", "processing", "ended"}]
    /\ achieved \in [Room -> SUBSET Condition]
    /\ results \in [Room -> Nat]
    /\ side \in Nat

Init ==
    /\ room = [r \in Room |-> [status |-> "in_progress", ended |-> "none",
                               turns |-> 0, dismissed |-> FALSE]]
    /\ msgs = [r \in Room |-> <<>>]
    /\ open = [r \in Room |-> Closed]
    /\ work = [w \in Worker |-> Idle]
    /\ evals = [r \in Room |-> [t \in 1 .. MaxMessages |-> "none"]]
    /\ achieved = [r \in Room |-> {}]
    /\ results = [r \in Room |-> 0]
    /\ side = 0

InProgress(r) == room[r].status = "in_progress"
Unlocked(r) == open[r] = Closed
UserMessages(r) == {i \in DOMAIN msgs[r] : msgs[r][i].by = "user"}
AnswersTo(r, q) == {i \in UserMessages(r) : msgs[r][i].question = q}
Answered(r, q) == \E i \in AnswersTo(r, q) : msgs[r][i].current
Answers(r) == {i \in UserMessages(r) : msgs[r][i].question # NoQuestion}

\* The first question without a current answer.
NextQuestion(r) ==
    LET left == {q \in 1 .. Questions[r] : ~Answered(r, q)}
    IN IF left = {} THEN NoQuestion ELSE CHOOSE q \in left : \A p \in left : q <= p

PendingReplies(r) == {i \in UserMessages(r) : msgs[r][i].reply \in {"queued", "processing"}}
PendingEvals(r) == {t \in DOMAIN evals[r] : evals[r][t] = "processing"}

\* The user's jobs that are queued or processing.
ActiveJobs ==
    side + Cardinality(UNION {{<<r, i, "reply">> : i \in PendingReplies(r)} : r \in Room})
         + Cardinality(UNION {{<<r, t, "goal">> : t \in PendingEvals(r)} : r \in Room})

SetMessage(r, i, m) == msgs' = [msgs EXCEPT ![r][i] = m]

-------------------------------------------------------------------------------
\* Requests of the user

\* A request that trusts the question its client names.
FaultyAccepts(r, q) ==
    /\ InProgress(r) /\ room[r].ended # "awaiting_user_end"
    /\ TypeOf[r] # "interview" => q = NoQuestion
    /\ ActiveJobs < Limit

\* The room is active and not waiting to be closed, an interview is given an answer to
\* its next question, and the user has fewer active jobs than allowed.
Accepts(r, q) ==
    /\ InProgress(r) /\ room[r].ended # "awaiting_user_end"
    /\ q = IF TypeOf[r] = "interview" THEN NextQuestion(r) ELSE NoQuestion
    /\ ActiveJobs < Limit

OpenMessage(r, q) ==
    /\ Unlocked(r) /\ Cardinality(UserMessages(r)) < MaxMessages
    /\ Accepts(r, q)
    /\ open' = [open EXCEPT ![r] = q]
    /\ UNCHANGED <<room, msgs, work, evals, achieved, results, side>>

\* Message, answer, reply record, job and queue message are committed.
CommitMessage(r) ==
    /\ ~Unlocked(r)
    /\ msgs' = [msgs EXCEPT ![r] = Append(@,
         [by |-> "user", replyTo |-> 0, question |-> open[r],
          attempt |-> IF open[r] = NoQuestion THEN 0
                      ELSE Cardinality(AnswersTo(r, open[r])) + 1,
          current |-> FALSE, reply |-> "queued", holder |-> Nobody])]
    /\ open' = [open EXCEPT ![r] = Closed]
    /\ UNCHANGED <<room, work, evals, achieved, results, side>>

\* retry_response: the reply failed; nothing is asked of the room.
RetryResponse(r, i) ==
    /\ i \in UserMessages(r) /\ msgs[r][i].reply = "failed"
    /\ SetMessage(r, i, [msgs[r][i] EXCEPT !.reply = "queued", !.holder = Nobody])
    /\ UNCHANGED <<room, open, work, evals, achieved, results, side>>

Ended(r) == [room[r] EXCEPT !.status = "completed", !.ended = "completed"]

\* complete_interview
CompleteInterview(r) ==
    /\ Unlocked(r) /\ InProgress(r) /\ TypeOf[r] = "interview"
    /\ room[r].ended = "awaiting_user_end"
    /\ room' = [room EXCEPT ![r] = Ended(r)]
    /\ results' = [results EXCEPT ![r] = @ + 1]
    /\ side' = side + 1
    /\ UNCHANGED <<msgs, open, work, evals, achieved>>

\* A completion that asks for a result of a room without a turn.
FaultyCompletePractice(r) ==
    /\ Unlocked(r) /\ InProgress(r)
    /\ room' = [room EXCEPT ![r] = Ended(r)]
    /\ results' = [results EXCEPT ![r] = @ + 1]
    /\ side' = side + 1
    /\ UNCHANGED <<msgs, open, work, evals, achieved>>

\* complete_practice: a room without a turn gets no result.
CompletePractice(r) ==
    /\ Unlocked(r) /\ InProgress(r)
    /\ room' = [room EXCEPT ![r] = Ended(r)]
    /\ IF room[r].turns < 1 THEN UNCHANGED <<results, side>>
       ELSE results' = [results EXCEPT ![r] = @ + 1] /\ side' = side + 1
    /\ UNCHANGED <<msgs, open, work, evals, achieved>>

\* dismiss_goal_prompt: "continue".
DismissGoalPrompt(r) ==
    /\ Unlocked(r) /\ InProgress(r) /\ room[r].ended = "goal_achieved"
    /\ room' = [room EXCEPT ![r].ended = "none", ![r].dismissed = TRUE]
    /\ UNCHANGED <<msgs, open, work, evals, achieved, results, side>>

-------------------------------------------------------------------------------
\* The reply

Mine(w) == msgs[work[w].room][work[w].msg]

\* ConversationAdapter.claim; a reply of a room that has ended is not claimed.
ClaimReply(w, r, i) ==
    /\ work[w].step = "idle"
    /\ i \in UserMessages(r) /\ msgs[r][i].reply = "queued"
    /\ InProgress(r) /\ Unlocked(r)
    /\ SetMessage(r, i, [msgs[r][i] EXCEPT !.reply = "processing", !.holder = w])
    /\ work' = [work EXCEPT ![w] =
         [Idle EXCEPT !.step = "executing", !.room = r, !.msg = i,
                      !.limit = Cardinality(Answers(r)) >= Questions[r] * 3]]
    /\ UNCHANGED <<room, open, evals, achieved, results, side>>

\* A verdict that looks for the next question before it looks at the answer.
FaultyVerdict(m, last, limit, says, evades) ==
    [complete |-> m.attempt >= 3 \/ (says /\ ~(evades /\ m.attempt <= 2)),
     end |-> m.question = last]

\* What _conversation makes of the model's verdict on an answer: an evasion does not
\* count before the third attempt, the third attempt always counts, and a complete
\* answer to the last question ends the interview, as does the limit on answers.
Verdict(m, last, limit, says, evades) ==
    LET complete == m.attempt >= 3 \/ (says /\ ~(evades /\ m.attempt <= 2))
    IN IF m.question = NoQuestion \/ limit
       THEN [complete |-> TRUE, end |-> TRUE]
       ELSE [complete |-> complete, end |-> complete /\ m.question = last]

\* A store that does not look whether the reply is still its own.
FaultyIsCurrent(w) == InProgress(work[w].room)

IsCurrent(w) ==
    /\ Mine(w).reply = "processing" /\ Mine(w).holder = w
    /\ InProgress(work[w].room)

\* The provider has answered; complete begins: the reply record still waits for this
\* token in an active room; the new sequence number is read.
BeginStore(w, says, evades) ==
    /\ work[w].step = "executing" /\ IsCurrent(w)
    /\ TypeOf[work[w].room] # "interview" => ~says /\ ~evades
    /\ LET v == Verdict(Mine(w), Questions[work[w].room], work[w].limit, says, evades)
       IN work' = [work EXCEPT
            ![w].step = "storing", ![w].seq = Len(msgs[work[w].room]) + 1,
            ![w].complete = TypeOf[work[w].room] = "interview" /\ v.complete,
            ![w].end = TypeOf[work[w].room] = "interview" /\ v.end]
    /\ UNCHANGED <<room, msgs, open, evals, achieved, results, side>>

\* The claim is no longer current: the result is discarded.
DiscardReply(w) ==
    /\ work[w].step = "executing" /\ ~IsCurrent(w)
    /\ work' = [work EXCEPT ![w] = Idle]
    /\ UNCHANGED <<room, msgs, open, evals, achieved, results, side>>

\* A sequence number that is taken; a second current answer to a question
\* (interview_answers_one_current_idx); a room that ended since: the transaction is
\* rolled back and the error logged.
SequenceTaken(w) == Len(msgs[work[w].room]) >= work[w].seq
SecondCurrent(w) ==
    /\ work[w].complete /\ Mine(w).question # NoQuestion
    /\ Answered(work[w].room, Mine(w).question)

StoreRaises(w) ==
    /\ work[w].step = "storing" /\ Unlocked(work[w].room)
    /\ SequenceTaken(w) \/ SecondCurrent(w) \/ ~InProgress(work[w].room)
    /\ work' = [work EXCEPT ![w] = Idle]
    /\ UNCHANGED <<room, msgs, open, evals, achieved, results, side>>

\* A turn that is counted although the room has ended meanwhile.
FaultyStoreReply(w) ==
    LET r == work[w].room  i == work[w].msg IN
    /\ work[w].step = "storing" /\ Unlocked(r)
    /\ ~SequenceTaken(w) /\ ~SecondCurrent(w)
    /\ msgs' = [msgs EXCEPT ![r] = Append(
         [@ EXCEPT ![i].reply = "succeeded", ![i].current = work[w].complete],
         [by |-> "persona", replyTo |-> i, question |-> NoQuestion, attempt |-> 0,
          current |-> FALSE, reply |-> "none", holder |-> Nobody])]
    /\ work' = [work EXCEPT ![w] = Idle]
    /\ IF TypeOf[r] = "scenario" /\ room[r].turns + 1 >= MaxTurns
       THEN /\ room' = [room EXCEPT ![r] = [Ended(r) EXCEPT !.turns = @ + 1]]
            /\ results' = [results EXCEPT ![r] = @ + 1]
       ELSE /\ room' = [room EXCEPT ![r].turns = @ + 1,
                          ![r].ended = IF work[w].end THEN "awaiting_user_end" ELSE @]
            /\ UNCHANGED results
    /\ UNCHANGED <<open, evals, achieved, side>>

\* _should_complete and _complete_room: a scenario ends with its last turn.
LastTurn(r) == TypeOf[r] = "scenario" /\ room[r].turns + 1 >= MaxTurns

\* _enqueue_goal_progress: the room has conditions, no mark and no dismissal.
WantsEvaluation(r) ==
    /\ TypeOf[r] = "scenario" /\ ~LastTurn(r) /\ Condition # {}
    /\ room[r].ended = "none" /\ ~room[r].dismissed

\* The reply, the speech and feedback jobs of _fan_out, the turn and what follows from
\* it are committed.
StoreReply(w) ==
    LET r == work[w].room  i == work[w].msg IN
    /\ work[w].step = "storing" /\ Unlocked(r)
    /\ ~SequenceTaken(w) /\ ~SecondCurrent(w) /\ InProgress(r)
    /\ msgs' = [msgs EXCEPT ![r] = Append(
         [@ EXCEPT ![i].reply = "succeeded", ![i].current = work[w].complete],
         [by |-> "persona", replyTo |-> i, question |-> NoQuestion, attempt |-> 0,
          current |-> FALSE, reply |-> "none", holder |-> Nobody])]
    /\ work' = [work EXCEPT ![w] = Idle]
    /\ IF LastTurn(r)
       THEN /\ room' = [room EXCEPT ![r] = [Ended(r) EXCEPT !.turns = @ + 1]]
            /\ results' = [results EXCEPT ![r] = @ + 1]
       ELSE /\ room' = [room EXCEPT ![r].turns = @ + 1,
                          ![r].ended = IF work[w].end THEN "awaiting_user_end" ELSE @]
            /\ UNCHANGED results
    /\ evals' = IF WantsEvaluation(r)
                THEN [evals EXCEPT ![r][room[r].turns + 1] = "processing"] ELSE evals
    /\ side' = side + (IF TypeOf[r] = "interview" THEN 1 ELSE 2)
                    + (IF LastTurn(r) THEN 1 ELSE 0)
    /\ UNCHANGED <<open, achieved>>

\* The provider fails: queued again, or failed.
FailReply(w) ==
    /\ work[w].step = "executing"
    /\ work' = [work EXCEPT ![w] = Idle]
    /\ IF Mine(w).reply = "processing" /\ Mine(w).holder = w
       THEN \E s \in {"queued", "failed"} :
              SetMessage(work[w].room, work[w].msg, [Mine(w) EXCEPT !.reply = s])
       ELSE UNCHANGED msgs
    /\ UNCHANGED <<room, open, evals, achieved, results, side>>

\* The deadline passes; the rows of a transaction under way are locked.
Reap(r, i) ==
    /\ i \in UserMessages(r) /\ msgs[r][i].reply = "processing"
    /\ \A w \in Worker : ~(work[w].step = "storing" /\ work[w].room = r /\ work[w].msg = i)
    /\ SetMessage(r, i, [msgs[r][i] EXCEPT !.reply = "failed"])
    /\ UNCHANGED <<room, open, work, evals, achieved, results, side>>

-------------------------------------------------------------------------------
\* Goals of a scenario, and the other jobs

\* room_success_condition_progress: an achieved condition is not updated any more.
Recorded(r, found) == achieved[r] \cup found

\* A mark that forgets what the user answered.
FaultyMarks(r) == InProgress(r) /\ room[r].ended = "none"

Marks(r) == InProgress(r) /\ room[r].ended = "none" /\ ~room[r].dismissed

\* GoalProgressAdapter.complete with the conditions the model found achieved;
\* evaluations of several turns end in any order.
Evaluate(r, t, found) ==
    /\ t \in PendingEvals(r) /\ Unlocked(r)
    /\ achieved' = [achieved EXCEPT ![r] = Recorded(r, found)]
    /\ room' = IF Required \subseteq Recorded(r, found) /\ Marks(r)
               THEN [room EXCEPT ![r].ended = "goal_achieved"] ELSE room
    /\ evals' = [evals EXCEPT ![r][t] = "ended"]
    /\ UNCHANGED <<msgs, open, work, results, side>>

EvaluationFails(r, t) ==
    /\ t \in PendingEvals(r)
    /\ evals' = [evals EXCEPT ![r][t] = "ended"]
    /\ UNCHANGED <<room, msgs, open, work, achieved, results, side>>

\* A job for speech, feedback or a result ends.
SideJobEnds ==
    /\ side > 0
    /\ side' = side - 1
    /\ UNCHANGED <<room, msgs, open, work, evals, achieved, results>>

Next ==
    \/ \E r \in Room :
          \/ \E q \in 0 .. Questions[r] : OpenMessage(r, q)
          \/ CommitMessage(r) \/ CompleteInterview(r) \/ CompletePractice(r)
          \/ DismissGoalPrompt(r)
          \/ \E i \in DOMAIN msgs[r] : RetryResponse(r, i) \/ Reap(r, i)
          \/ \E t \in DOMAIN evals[r] :
                (\E found \in SUBSET Condition : Evaluate(r, t, found))
                    \/ EvaluationFails(r, t)
    \/ \E w \in Worker :
          \/ \E r \in Room : \E i \in DOMAIN msgs[r] : ClaimReply(w, r, i)
          \/ \E says, evades \in BOOLEAN : BeginStore(w, says, evades)
          \/ DiscardReply(w) \/ StoreRaises(w) \/ StoreReply(w) \/ FailReply(w)
    \/ SideJobEnds

Spec == Init /\ [][Next]_vars

-------------------------------------------------------------------------------
\* Properties

Replies(r) == {i \in DOMAIN msgs[r] : msgs[r][i].by = "persona"}

\* A message has at most one reply, the reply comes after it, and the turns of a room
\* are its replies, whatever was retried, given up or sent out of turn.
OneReplyPerMessage ==
    \A r \in Room :
        /\ room[r].turns = Cardinality(Replies(r))
        /\ \A i, j \in Replies(r) :
              msgs[r][i].replyTo = msgs[r][j].replyTo => i = j
        /\ \A i \in Replies(r) :
              /\ msgs[r][i].replyTo \in 1 .. i - 1
              /\ msgs[r][msgs[r][i].replyTo].reply = "succeeded"

\* An interview moves through its questions in order although several answers may be
\* under way: a question has one current answer at most, and none before those of the
\* questions that precede it.
QuestionsInOrder ==
    \A r \in Room : \A i, j \in Answers(r) :
        msgs[r][i].current =>
            /\ msgs[r][j].current /\ msgs[r][i].question = msgs[r][j].question => i = j
            /\ \A q \in 1 .. msgs[r][i].question - 1 : Answered(r, q)

\* An interview waits to be closed only when all is answered or the limit is used up.
AwaitingEndIsEarned ==
    \A r \in Room :
        room[r].ended = "awaiting_user_end" =>
            \/ \A q \in 1 .. Questions[r] : Answered(r, q)
            \/ Cardinality(Answers(r)) >= Questions[r] * 3

\* A room that ended after a turn has one result, any other room has none: the user,
\* the last turn and the end of the interview compete.
OneResult ==
    \A r \in Room :
        results[r] = IF InProgress(r) \/ room[r].turns = 0 THEN 0 ELSE 1

\* Who chose to continue is not asked again, although evaluations of earlier turns may
\* still be on their way.
DismissedIsFinal ==
    [][\A r \in Room : room[r].dismissed =>
          room'[r].dismissed /\ room'[r].ended # "goal_achieved"]_vars

\* A completed room takes no message and no turn any more.
CompletedIsFinal ==
    [][\A r \in Room : ~InProgress(r) =>
          ~InProgress(r)' /\ room'[r].turns = room[r].turns /\ Len(msgs'[r]) = Len(msgs[r])]_vars

\* The architecture: the user's queued and processing jobs are limited atomically, so
\* that a message which is admitted leaves no more of them than allowed.
WithinLimit ==
    [][\A r \in Room : ~Unlocked(r) /\ Unlocked(r)' => ActiveJobs' <= Limit]_vars

\* The product document: a reply that the provider gave is added to the conversation.
ReplyIsAdded ==
    [][\A w \in Worker :
          work[w].step = "storing" /\ work'[w].step = "idle" /\ InProgress(work[w].room)
             => msgs'[work[w].room][work[w].msg].reply = "succeeded"]_vars

\* The architecture: a room ends for exactly one of four reasons.
EndedForAReason ==
    \A r \in Room : ~InProgress(r) =>
        room[r].ended \in {"goal_achieved", "max_turns_reached", "interview_completed",
                           "user_ended"}

-------------------------------------------------------------------------------
\* What the turns of a room implement

Line(r, i) == [by |-> msgs[r][i].by, replyTo |-> msgs[r][i].replyTo,
               question |-> msgs[r][i].question]

Stage(r) ==
    IF ~InProgress(r) THEN "over"
    ELSE IF room[r].ended = "awaiting_user_end" THEN "closing"
    ELSE IF room[r].ended = "goal_achieved" THEN "prompted"
    ELSE "open"

Talk == INSTANCE Conversation WITH
    lines <- [r \in Room |-> [i \in DOMAIN msgs[r] |-> Line(r, i)]],
    counted <- [r \in Room |-> {i \in UserMessages(r) : msgs[r][i].current}],
    stage <- [r \in Room |-> Stage(r)],
    declined <- [r \in Room |-> room[r].dismissed],
    results <- results

\* Requests, workers, verdicts and evaluations of a room, in whatever order they meet,
\* keep the promise that its user relies on (Conversation): what was said stays said,
\* every message is replied to once, questions come in order, and an end is an end.
KeepsConversation == Talk!Spec
=============================================================================
