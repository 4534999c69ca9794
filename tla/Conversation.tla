----------------------------- MODULE Conversation -----------------------------
(***************************************************************************)
(* What the user of a practice room is promised: a conversation that only  *)
(* grows, without jobs, workers, verdicts, evaluations and locks.  A       *)
(* message is replied to once, however often the reply was tried; an       *)
(* interview asks its questions in order, and counts one answer to each;   *)
(* it waits to be closed only when its questions or its answers are used   *)
(* up; a scenario ends with its last turn and proposes to end only to who  *)
(* has not declined; and a room that has ended has one result of its       *)
(* turns, and is never touched again.                                      *)
(*                                                                         *)
(* It does not promise that a message is ever replied to.                  *)
(***************************************************************************)
EXTENDS Integers, Sequences, FiniteSets

CONSTANTS Room, TypeOf, Questions, MaxTurns

VARIABLES
    lines,      \* what was said in a room: by whom, to which question, in reply to what
    counted,    \* the messages that are the answer to their question
    stage,      \* "open", "prompted" to end, "closing" (waits to be closed), "over"
    declined,   \* the user chose to go on
    results     \* results of the room's turns

cvars == <<lines, counted, stage, declined, results>>

Init ==
    /\ lines = [r \in Room |-> <<>>]
    /\ counted = [r \in Room |-> {}]
    /\ stage = [r \in Room |-> "open"]
    /\ declined = [r \in Room |-> FALSE]
    /\ results = [r \in Room |-> 0]

Said(r, who) == {i \in DOMAIN lines[r] : lines[r][i].by = who}
Turns(r) == Cardinality(Said(r, "persona"))
Settled(r, q) == \E i \in counted[r] : lines[r][i].question = q
AllSettled(r) == \A q \in 1 .. Questions[r] : Settled(r, q)
AnswersGiven(r) == {i \in Said(r, "user") : lines[r][i].question # 0}
AnswersUsed(r) == Cardinality(AnswersGiven(r)) >= Questions[r] * 3

Adds(r, who, to, q) ==
    lines' = [lines EXCEPT ![r] = Append(@, [by |-> who, replyTo |-> to, question |-> q])]

\* An interview is given an answer to its first question that is not settled, or a word
\* after the last.
IsNext(r, q) ==
    /\ \A p \in 1 .. q - 1 : Settled(r, p)
    /\ IF q = 0 THEN AllSettled(r) ELSE ~Settled(r, q)

Say(r, q) ==
    /\ stage[r] \in {"open", "prompted"}
    /\ IF TypeOf[r] = "interview" THEN IsNext(r, q) ELSE q = 0
    /\ Adds(r, "user", 0, q)
    /\ UNCHANGED <<counted, stage, declined, results>>

\* Message i is replied to, and settles its question or not.
RepliedTo(r, i) == \E k \in Said(r, "persona") : lines[r][k].replyTo = i

Reply(r, i, settles) ==
    /\ stage[r] # "over"
    /\ i \in Said(r, "user") /\ ~RepliedTo(r, i)
    /\ settles /\ lines[r][i].question # 0 => ~Settled(r, lines[r][i].question)
    /\ Adds(r, "persona", i, 0)
    /\ counted' = [counted EXCEPT ![r] = IF settles THEN @ \cup {i} ELSE @]
    /\ UNCHANGED declined
    /\ IF TypeOf[r] = "scenario" /\ Turns(r) + 1 >= MaxTurns
       THEN stage' = [stage EXCEPT ![r] = "over"] /\ results' = [results EXCEPT ![r] = 1]
       ELSE /\ \/ UNCHANGED stage
               \/ /\ TypeOf[r] = "interview" /\ (AllSettled(r) \/ AnswersUsed(r))'
                  /\ stage' = [stage EXCEPT ![r] = "closing"]
            /\ UNCHANGED results

\* The goal is reached: who has not declined is asked whether to end.
Prompt(r) ==
    /\ stage[r] = "open" /\ ~declined[r]
    /\ stage' = [stage EXCEPT ![r] = "prompted"]
    /\ UNCHANGED <<lines, counted, declined, results>>

GoOn(r) ==
    /\ stage[r] = "prompted"
    /\ stage' = [stage EXCEPT ![r] = "open"]
    /\ declined' = [declined EXCEPT ![r] = TRUE]
    /\ UNCHANGED <<lines, counted, results>>

\* The user ends the room, whatever is still on its way.
End(r) ==
    /\ stage[r] # "over"
    /\ stage' = [stage EXCEPT ![r] = "over"]
    /\ results' = [results EXCEPT ![r] = IF Turns(r) = 0 THEN 0 ELSE 1]
    /\ UNCHANGED <<lines, counted, declined>>

Next ==
    \E r \in Room :
        \/ \E q \in 0 .. Questions[r] : Say(r, q)
        \/ \E i \in DOMAIN lines[r], settles \in BOOLEAN : Reply(r, i, settles)
        \/ Prompt(r) \/ GoOn(r) \/ End(r)

Spec == Init /\ [][Next]_cvars
=============================================================================
