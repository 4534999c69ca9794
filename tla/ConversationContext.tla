-------------------------- MODULE ConversationContext --------------------------
(***************************************************************************)
(* What the providers are told of a conversation: the summary of a room,   *)
(* which replaces its older messages, and the raw messages sent beside it. *)
(*   worker/domain_adapters.py   ConversationAdapter, FeedbackAdapter      *)
(*   worker/executors.py         _conversation, split_conversation_messages*)
(*                                                                         *)
(* A message is its sequence_no, a summary is the set of messages it was   *)
(* made from.  A claim is two statements of one READ COMMITTED             *)
(* transaction: the first reads the row with the room's context (its       *)
(* snapshot may be older than the lock it waits for), the second reads the *)
(* messages.  Replies are stored one at a time: complete inserts           *)
(* max(sequence_no) + 1 under a unique constraint, and one that loses      *)
(* rolls back (Release).  The room is a chat or a scenario in progress:    *)
(* interviews have no turn feedback, and how rooms end is PracticeRoom's.  *)
(***************************************************************************)
EXTENDS Integers, Sequences, FiniteSetsExt

CONSTANTS
    Worker,         \* consumers of conversation_text
    Evaluator,      \* consumers of turn_feedback
    MaxMessages     \* bound: messages of the room

ASSUME ContextAssumption == MaxMessages \in Nat

VARIABLES
    msgs,       \* room_messages: who sent the message with this sequence_no
    replied,    \* user messages whose reply is stored
    context,    \* room_contexts: the summary and summarized_through_message_id
    reply,      \* what a conversation worker is doing
    feedback,   \* user messages whose feedback is due
    review      \* what an evaluator is doing

vars == <<msgs, replied, context, reply, feedback, review>>

Positions == 1 .. MaxMessages
NoSummary == [through |-> 0, covers |-> {}]
Summaries == [through : 0 .. MaxMessages, covers : SUBSET Positions]
Works == [step : {"idle", "reading", "asking", "storing"}, msg : 0 .. MaxMessages,
          given : Summaries, raw : SUBSET Positions, new : BOOLEAN]
Idle == [step |-> "idle", msg |-> 0, given |-> NoSummary, raw |-> {}, new |-> FALSE]

TypeOK ==
    /\ msgs \in Seq({"user", "persona"}) /\ Len(msgs) <= MaxMessages
    /\ replied \subseteq DOMAIN msgs /\ feedback \subseteq replied
    /\ context \in Summaries
    /\ reply \in [Worker -> Works]
    /\ review \in [Evaluator -> Works]
    /\ \A w \in Worker : reply[w].msg <= Len(msgs) /\ reply[w].raw \subseteq DOMAIN msgs
    /\ \A e \in Evaluator : review[e].msg <= Len(msgs) /\ review[e].raw \subseteq DOMAIN msgs

Init ==
    /\ msgs = <<>> /\ replied = {} /\ feedback = {}
    /\ context = NoSummary
    /\ reply = [w \in Worker |-> Idle]
    /\ review = [e \in Evaluator |-> Idle]

-------------------------------------------------------------------------------
\* Replies

\* create_message_and_job: a message takes the next sequence_no.
SendMessage ==
    /\ Len(msgs) < MaxMessages
    /\ msgs' = Append(msgs, "user")
    /\ UNCHANGED <<replied, context, reply, feedback, review>>

\* claim, first statement: the row of the message with the context of its room.  A
\* worker whose claim was given up on cannot store any more and is left out.
ClaimReply(w, m) ==
    /\ reply[w].step = "idle"
    /\ m \in DOMAIN msgs /\ msgs[m] = "user" /\ m \notin replied
    /\ \A v \in Worker : reply[v].msg # m
    /\ reply' = [reply EXCEPT ![w] =
                   [Idle EXCEPT !.step = "reading", !.msg = m, !.given = context]]
    /\ UNCHANGED <<msgs, replied, context, feedback, review>>

\* A query that starts from recent_message_start_sequence, one too far.
FaultyUncovered(summary) == {i \in DOMAIN msgs : i > summary.through + 1}

\* The messages that the summary of a claim does not cover.
Uncovered(summary) == {i \in DOMAIN msgs : i > summary.through}

\* claim, second statement: every message after summarized_through_message_id.
ReadMessages(w) ==
    /\ reply[w].step = "reading"
    /\ reply' = [reply EXCEPT ![w].step = "asking", ![w].raw = Uncovered(reply[w].given)]
    /\ UNCHANGED <<msgs, replied, context, feedback, review>>

\* split_conversation_messages: all but the last two.
Older(raw) == {i \in raw : \E j, k \in raw : i < j /\ j < k}

\* The existing summary and the older messages are summarised together, up to the last
\* of the older ones.
Summarised(summary, older) ==
    [through |-> Max(older), covers |-> summary.covers \cup older]

Shortened(work) ==
    [work EXCEPT !.step = "storing", !.new = TRUE,
                 !.given = Summarised(work.given, Older(work.raw)),
                 !.raw = work.raw \ Older(work.raw)]

\* _conversation: above the token trigger, older messages are replaced by a new summary.
Generate(w) ==
    /\ reply[w].step = "asking"
    /\ \/ reply' = [reply EXCEPT ![w] = [reply[w] EXCEPT !.step = "storing"]]
       \/ /\ Older(reply[w].raw) # {}
          /\ reply' = [reply EXCEPT ![w] = Shortened(reply[w])]
    /\ UNCHANGED <<msgs, replied, context, feedback, review>>

\* The mark only moves forward, and the summary is replaced all the same.
FaultyStored(work) ==
    IF work.new
    THEN [work.given EXCEPT !.through = Max({@, context.through})]
    ELSE context

\* The summary's row after complete: the new summary replaces whatever is there, also one
\* that reaches further.
Stored(work) ==
    IF work.new THEN work.given ELSE context

\* complete: the reply, the context of the room, and a feedback job (_fan_out).
StoreReply(w) ==
    /\ reply[w].step = "storing" /\ Len(msgs) < MaxMessages
    /\ msgs' = Append(msgs, "persona")
    /\ replied' = replied \cup {reply[w].msg}
    /\ context' = Stored(reply[w])
    /\ feedback' = feedback \cup {reply[w].msg}
    /\ reply' = [reply EXCEPT ![w] = Idle]
    /\ UNCHANGED review

\* The attempt fails, is retried, or finds that another one has been faster.
Release(w) ==
    /\ reply[w].step # "idle"
    /\ reply' = [reply EXCEPT ![w] = Idle]
    /\ UNCHANGED <<msgs, replied, context, feedback, review>>

-------------------------------------------------------------------------------
\* Turn feedback, which may be claimed long after its turn (retry_feedback)

\* FeedbackAdapter.claim, first statement.
ClaimFeedback(e, m) ==
    /\ review[e].step = "idle" /\ m \in feedback
    /\ \A d \in Evaluator : review[d].msg # m
    /\ review' = [review EXCEPT ![e] =
                    [Idle EXCEPT !.step = "reading", !.msg = m, !.given = context]]
    /\ UNCHANGED <<msgs, replied, context, reply, feedback>>

\* Second statement: the messages before the target that the summary does not cover.
ReadPreceding(e) ==
    /\ review[e].step = "reading"
    /\ review' = [review EXCEPT ![e].step = "asking",
                    ![e].raw = {i \in Uncovered(review[e].given) : i < review[e].msg}]
    /\ UNCHANGED <<msgs, replied, context, reply, feedback>>

\* The scores are stored; otherwise the feedback stays due for a retry.
EndFeedback(e) ==
    /\ review[e].step = "asking"
    /\ feedback' \in {feedback, feedback \ {review[e].msg}}
    /\ review' = [review EXCEPT ![e] = Idle]
    /\ UNCHANGED <<msgs, replied, context, reply>>

\* previous_persona_message: the last line of the persona among the raw messages.
PreviousLine(raw) ==
    LET lines == {i \in raw : msgs[i] = "persona"}
    IN IF lines = {} THEN 0 ELSE Max(lines)

-------------------------------------------------------------------------------
Next ==
    \/ SendMessage
    \/ \E w \in Worker :
         \/ \E m \in DOMAIN msgs : ClaimReply(w, m)
         \/ ReadMessages(w) \/ Generate(w) \/ StoreReply(w) \/ Release(w)
    \/ \E e \in Evaluator :
         \/ \E m \in feedback : ClaimFeedback(e, m)
         \/ ReadPreceding(e) \/ EndFeedback(e)

Spec == Init /\ [][Next]_vars

-------------------------------------------------------------------------------
\* Properties

\* Whatever is summarised, by whom and in which order, a provider is told of every message
\* up to the one it answers, and of none twice: by the summary or as it was written
\* (claim and _conversation, against the summaries that other workers store).
ReplyContextComplete ==
    \A w \in Worker : reply[w].step \in {"asking", "storing"} =>
        /\ 1 .. reply[w].msg \subseteq reply[w].given.covers \cup reply[w].raw
        /\ reply[w].given.covers \cap reply[w].raw = {}

\* The same for the messages before the one whose feedback is written
\* (FeedbackAdapter.claim).
FeedbackContextComplete ==
    \A e \in Evaluator : review[e].step = "asking" =>
        1 .. (review[e].msg - 1) \subseteq review[e].given.covers \cup review[e].raw

\* The prompt of the feedback: previous_persona_message is the line that the user has
\* just answered.
PreviousLineIsGiven ==
    \A e \in Evaluator : review[e].step = "asking" =>
        PreviousLine(review[e].raw) = PreviousLine(1 .. (review[e].msg - 1))

\* The prompt of the feedback: earlier_summary is about what was said before.
SummaryIsEarlier ==
    \A e \in Evaluator : review[e].step = "asking" =>
        \A i \in review[e].given.covers : i < review[e].msg
=============================================================================
