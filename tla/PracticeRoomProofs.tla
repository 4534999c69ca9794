-------------------------- MODULE PracticeRoomProofs --------------------------
(***************************************************************************)
(* Proofs about PracticeRoom, for every number of rooms, questions, turns  *)
(* and workers.  What the properties of the messages, of the interview and *)
(* of the result of a room have in common is Inv, which follows a message  *)
(* from the request that opens it to the reply that is stored for it.      *)
(***************************************************************************)
EXTENDS PracticeRoom, FiniteSetTheorems, SequenceTheorems,
    WellFoundedInduction, TLAPS

RoomRecord ==
    [status : {"in_progress", "completed"},
     ended : {"none", "awaiting_user_end", "goal_achieved", "completed"},
     turns : Nat, dismissed : BOOLEAN]

Message(r) ==
    [by : {"user", "persona"}, replyTo : Nat, question : 0 .. Questions[r],
     attempt : Nat, current : BOOLEAN,
     reply : {"none", "queued", "processing", "succeeded", "failed"},
     holder : Worker \cup {Nobody}]

Work ==
    [step : {"idle", "executing", "storing"}, room : Room \cup {Nobody},
     msg : Nat, limit : BOOLEAN, seq : Nat, complete : BOOLEAN, end : BOOLEAN]

MsgsType ==
    /\ msgs = [r \in Room |-> msgs[r]]
    /\ \A r \in Room : msgs[r] \in Seq(Message(r))

\* TypeOK, and that the functions have the rooms as their domain and the messages of a
\* room are a sequence.
TypeInv ==
    /\ MsgsType
    /\ room \in [Room -> RoomRecord]
    /\ open \in [Room -> Int]
    /\ \A r \in Room : open[r] \in Closed .. Questions[r]
    /\ work \in [Worker -> Work]
    /\ evals \in [Room -> [1 .. MaxMessages -> {"none", "processing", "ended"}]]
    /\ achieved \in [Room -> SUBSET Condition]
    /\ results \in [Room -> Nat]
    /\ side \in Nat

AllAnswered(r) == \A p \in 1 .. Questions[r] : Answered(r, p)
LimitUsed(r) == Cardinality(Answers(r)) >= Questions[r] * 3

\* A message for question q was or may be accepted: the questions before q have current
\* answers, and a message of an interview is for none only if all have.
InTurn(r, q) ==
    /\ \A p \in 1 .. q - 1 : Answered(r, p)
    /\ TypeOf[r] = "interview" /\ q = NoQuestion => AllAnswered(r)

MessageInv(r, i) ==
    /\ msgs[r][i].current => msgs[r][i].reply = "succeeded"
    /\ msgs[r][i].by = "user" => InTurn(r, msgs[r][i].question)

MessagesInv == \A r \in Room : \A i \in DOMAIN msgs[r] : MessageInv(r, i)

\* The lock keeps the room in progress, and its questions as they were.
OpenInv == \A r \in Room : ~Unlocked(r) => InProgress(r) /\ InTurn(r, open[r])

\* What a worker has in hand is a message of the user; nobody takes a reply from a
\* worker that is storing it, and the end it carries is earned.
EndEarned(w) ==
    /\ TypeOf[work[w].room] = "interview"
    /\ \/ Mine(w).question = NoQuestion
       \/ work[w].limit
       \/ work[w].complete /\ Mine(w).question = Questions[work[w].room]

Holds(w) ==
    /\ work[w].room \in Room /\ work[w].msg \in UserMessages(work[w].room)
    /\ work[w].limit => LimitUsed(work[w].room)
    /\ work[w].step = "storing" =>
          /\ Mine(w).reply = "processing" /\ Mine(w).holder = w
          /\ work[w].end => EndEarned(w)

WorkInv == \A w \in Worker : work[w].step # "idle" => Holds(w)

\* The marks of a room fit each other.
RoomInv(r) ==
    /\ room[r].ended = "awaiting_user_end" => room[r].turns >= 1
    /\ room[r].dismissed => room[r].ended # "goal_achieved"

RoomsInv == \A r \in Room : RoomInv(r)

Inv ==
    /\ TypeInv /\ MessagesInv /\ OpenInv /\ WorkInv /\ RoomsInv
    /\ OneReplyPerMessage /\ QuestionsInOrder /\ AwaitingEndIsEarned /\ OneResult

-------------------------------------------------------------------------------
\* The operators of the model

\* A set of numbers that is not empty has a least element.
LEMMA LeastElement ==
    ASSUME NEW S \in SUBSET Nat, S # {}
    PROVE  \E x \in S : \A y \in S : x <= y
  <1> DEFINE R == {ss \in Nat \X Nat : ss[1] < ss[2]}
  <1>1. IsWellFoundedOn(R, Nat)
    BY NatLessThanWellFounded DEF OpToRel
  <1>2. \A x, y \in Nat : <<y, x>> \in R <=> y < x
    OBVIOUS
  <1> HIDE DEF R
  <1>3. PICK x \in S : \A y \in S : ~(<<y, x>> \in R)
    BY <1>1, WFMin
  <1>4. ASSUME NEW y \in S PROVE x <= y
    <2>1. x \in Nat /\ y \in Nat
      OBVIOUS
    <2>2. ~(y < x)
      BY <1>2, <1>3, <2>1
    <2> QED
      BY <2>1, <2>2
  <1> QED
    BY <1>4

\* The next question of an interview is in turn, and it is a question of the interview
\* or none.
LEMMA NextQuestionInTurn ==
    ASSUME NEW r \in Room
    PROVE  NextQuestion(r) \in 0 .. Questions[r] /\ InTurn(r, NextQuestion(r))
  <1> DEFINE left == {q \in 1 .. Questions[r] : ~Answered(r, q)}
  <1>0. Questions[r] \in Nat
    BY PracticeRoomAssumption
  <1>1. CASE left = {}
    <2>1. NextQuestion(r) = NoQuestion
      BY <1>1 DEF NextQuestion
    <2>2. AllAnswered(r)
      BY <1>1 DEF AllAnswered
    <2> QED
      BY <1>0, <2>1, <2>2 DEF InTurn, NoQuestion
  <1>2. CASE left # {}
    <2>1. NextQuestion(r) = CHOOSE q \in left : \A p \in left : q <= p
      BY <1>2 DEF NextQuestion
    <2>2. left \in SUBSET Nat
      BY <1>0
    <2> HIDE DEF left
    <2>3. \E q \in left : \A p \in left : q <= p
      BY <1>2, <2>2, LeastElement
    <2>4. PICK q : q = NextQuestion(r) /\ q \in left /\ \A p \in left : q <= p
      BY <2>1, <2>3
    <2>5. q \in 1 .. Questions[r]
      BY <2>4 DEF left
    <2>6. \A p \in 1 .. q - 1 : Answered(r, p)
      <3>1. SUFFICES ASSUME NEW p \in 1 .. q - 1, ~Answered(r, p) PROVE FALSE
        OBVIOUS
      <3>2. p \in left
        BY <1>0, <2>5, <3>1 DEF left
      <3> QED
        BY <1>0, <2>4, <2>5, <3>2
    <2> QED
      BY <1>0, <2>4, <2>5, <2>6 DEF InTurn, NoQuestion
  <1> QED
    BY <1>1, <1>2

\* The sets of messages of a room are finite.
LEMMA FiniteSets ==
    ASSUME TypeInv, NEW r \in Room
    PROVE  /\ DOMAIN msgs[r] = 1 .. Len(msgs[r]) /\ Len(msgs[r]) \in Nat
           /\ \A S \in SUBSET DOMAIN msgs[r] : IsFiniteSet(S) /\ Cardinality(S) \in Nat
           /\ \A i \in DOMAIN msgs[r] : msgs[r][i] \in Message(r)
  <1>1. msgs[r] \in Seq(Message(r))
    BY DEF TypeInv, MsgsType
  <1>2. Len(msgs[r]) \in Nat /\ DOMAIN msgs[r] = 1 .. Len(msgs[r])
    BY <1>1, LenProperties
  <1>3. IsFiniteSet(1 .. Len(msgs[r]))
    BY <1>2, FS_Interval
  <1>4. ASSUME NEW S \in SUBSET DOMAIN msgs[r] PROVE IsFiniteSet(S) /\ Cardinality(S) \in Nat
    BY <1>2, <1>3, <1>4, FS_Subset, FS_CardinalityType
  <1> QED
    BY <1>1, <1>2, <1>4, ElementOfSeq

\* What StoreReply makes of a verdict.
LEMMA VerdictEnds ==
    ASSUME NEW m, NEW last, NEW limit, NEW says, NEW evades,
           Verdict(m, last, limit, says, evades).end
    PROVE  \/ m.question = NoQuestion
           \/ limit
           \/ /\ Verdict(m, last, limit, says, evades).complete
              /\ m.question = last
  BY DEF Verdict

-------------------------------------------------------------------------------
\* What a step does to the messages

\* Messages keep what they say; no reply becomes or stops being stored.
Steady ==
    \A r \in Room :
        /\ DOMAIN msgs'[r] = DOMAIN msgs[r]
        /\ \A i \in DOMAIN msgs[r] :
              /\ msgs'[r][i].by = msgs[r][i].by
              /\ msgs'[r][i].replyTo = msgs[r][i].replyTo
              /\ msgs'[r][i].question = msgs[r][i].question
              /\ msgs'[r][i].current = msgs[r][i].current
              /\ msgs'[r][i].reply = "succeeded" <=> msgs[r][i].reply = "succeeded"

\* Messages are added and keep what they say; a stored reply and a current answer stay.
Grows ==
    \A r \in Room :
        /\ DOMAIN msgs[r] \subseteq DOMAIN msgs'[r]
        /\ \A i \in DOMAIN msgs[r] :
              /\ msgs'[r][i].by = msgs[r][i].by
              /\ msgs'[r][i].replyTo = msgs[r][i].replyTo
              /\ msgs'[r][i].question = msgs[r][i].question
              /\ msgs[r][i].current => msgs'[r][i].current
              /\ msgs[r][i].reply = "succeeded" => msgs'[r][i].reply = "succeeded"

LEMMA SteadyGrows == Steady => Grows
  BY DEF Steady, Grows

\* When messages stay as they are, so do the sets the properties speak of.
LEMMA SteadySets ==
    ASSUME Steady, NEW r \in Room
    PROVE  /\ UserMessages(r)' = UserMessages(r) /\ Answers(r)' = Answers(r)
           /\ Replies(r)' = Replies(r)
           /\ \A q : Answered(r, q)' <=> Answered(r, q)
           /\ \A q : InTurn(r, q)' <=> InTurn(r, q)
  <1>1. UserMessages(r)' = UserMessages(r) /\ Replies(r)' = Replies(r)
    BY DEF Steady, UserMessages, Replies
  <1>2. Answers(r)' = Answers(r)
    BY <1>1 DEF Answers, Steady, UserMessages
  <1>3. \A q : Answered(r, q)' <=> Answered(r, q)
    BY <1>1 DEF Answered, AnswersTo, Steady, UserMessages
  <1>4. \A q : InTurn(r, q)' <=> InTurn(r, q)
    BY <1>3 DEF InTurn, AllAnswered
  <1> QED
    BY <1>1, <1>2, <1>3, <1>4

\* When messages are added, what was answered stays answered.
LEMMA GrowsSets ==
    ASSUME TypeInv, TypeInv', Grows, NEW r \in Room
    PROVE  /\ UserMessages(r) \subseteq UserMessages(r)' /\ Answers(r) \subseteq Answers(r)'
           /\ \A q : Answered(r, q) => Answered(r, q)'
           /\ \A q : InTurn(r, q) => InTurn(r, q)'
           /\ AllAnswered(r) => AllAnswered(r)'
           /\ LimitUsed(r) => LimitUsed(r)'
  <1>1. UserMessages(r) \subseteq UserMessages(r)'
    BY DEF Grows, UserMessages
  <1>2. Answers(r) \subseteq Answers(r)'
    BY <1>1 DEF Answers, Grows, UserMessages
  <1>3. \A q : Answered(r, q) => Answered(r, q)'
    BY <1>1 DEF Answered, AnswersTo, Grows, UserMessages
  <1>4. \A q : InTurn(r, q) => InTurn(r, q)'
    BY <1>3 DEF InTurn, AllAnswered
  <1>5. AllAnswered(r) => AllAnswered(r)'
    BY <1>3 DEF AllAnswered
  <1>6. LimitUsed(r) => LimitUsed(r)'
    <2>1. Answers(r) \in SUBSET DOMAIN msgs[r]
      BY DEF Answers, UserMessages
    <2>2. Answers(r)' \in SUBSET DOMAIN msgs'[r]
      BY DEF Answers, UserMessages
    <2>3. Cardinality(Answers(r)) \in Nat
      BY <2>1, FiniteSets
    <2>4. IsFiniteSet(Answers(r)') /\ Cardinality(Answers(r)') \in Nat
      <3>1. DOMAIN msgs'[r] = 1 .. Len(msgs'[r]) /\ Len(msgs'[r]) \in Nat
        BY LenProperties DEF TypeInv, MsgsType
      <3>2. IsFiniteSet(1 .. Len(msgs'[r]))
        BY <3>1, FS_Interval
      <3>3. IsFiniteSet(Answers(r)')
        BY <2>2, <3>1, <3>2, FS_Subset
      <3> QED
        BY <3>3, FS_CardinalityType
    <2>5. Cardinality(Answers(r)) <= Cardinality(Answers(r)')
      BY <1>2, <2>4, FS_Subset
    <2>6. Questions[r] * 3 \in Int
      BY PracticeRoomAssumption
    <2>7. Cardinality(Answers(r))' = Cardinality(Answers(r)')
      OBVIOUS
    <2> QED
      BY <2>3, <2>4, <2>5, <2>6, <2>7 DEF LimitUsed
  <1> QED
    BY <1>1, <1>2, <1>3, <1>4, <1>5, <1>6

\* SetMessage replaces one message of one room.
LEMMA EditedMessages ==
    ASSUME TypeInv, NEW r \in Room, NEW i \in DOMAIN msgs[r], NEW m \in Message(r),
           SetMessage(r, i, m)
    PROVE  /\ MsgsType'
           /\ \A x \in Room :
                 /\ DOMAIN msgs'[x] = DOMAIN msgs[x]
                 /\ \A j \in DOMAIN msgs[x] :
                       msgs'[x][j] = IF x = r /\ j = i THEN m ELSE msgs[x][j]
  <1> DEFINE t == [msgs[r] EXCEPT ![i] = m]
  <1>1. \A x \in Room : msgs'[x] = IF x = r THEN t ELSE msgs[x]
    BY DEF TypeInv, MsgsType, SetMessage
  <1>2. msgs' = [x \in Room |-> msgs'[x]]
    BY DEF TypeInv, MsgsType, SetMessage
  <1>3. msgs[r] \in Seq(Message(r)) /\ i \in 1 .. Len(msgs[r])
    BY FiniteSets DEF TypeInv, MsgsType
  <1>4. /\ t \in Seq(Message(r)) /\ Len(t) = Len(msgs[r])
        /\ \A j \in 1 .. Len(msgs[r]) : t[j] = IF j = i THEN m ELSE msgs[r][j]
    BY <1>3, ExceptSeq
  <1>5. DOMAIN t = DOMAIN msgs[r] /\ DOMAIN msgs[r] = 1 .. Len(msgs[r])
    BY <1>3, LenProperties
  <1> HIDE DEF t
  <1>6. \A x \in Room : msgs'[x] \in Seq(Message(x))
    BY <1>1, <1>4 DEF TypeInv, MsgsType
  <1> QED
    BY <1>1, <1>2, <1>4, <1>5, <1>6 DEF MsgsType

\* The reply of a message changes while the provider is asked, not what was said.
LEMMA EditedSteady ==
    ASSUME TypeInv, NEW r \in Room, NEW i \in UserMessages(r), NEW m,
           SetMessage(r, i, m),
           \E s \in {"queued", "processing", "failed"}, h \in Worker \cup {Nobody} :
              m = [msgs[r][i] EXCEPT !.reply = s, !.holder = h],
           msgs[r][i].reply # "succeeded"
    PROVE  Steady /\ MsgsType'
  <1>1. i \in DOMAIN msgs[r]
    BY DEF UserMessages
  <1>2. msgs[r][i] \in Message(r)
    BY <1>1, FiniteSets
  <1>3. /\ m \in Message(r)
        /\ m.by = msgs[r][i].by /\ m.replyTo = msgs[r][i].replyTo
        /\ m.question = msgs[r][i].question /\ m.current = msgs[r][i].current
        /\ m.reply # "succeeded"
    BY <1>2 DEF Message
  <1>4. /\ MsgsType'
        /\ \A x \in Room :
              /\ DOMAIN msgs'[x] = DOMAIN msgs[x]
              /\ \A j \in DOMAIN msgs[x] :
                    msgs'[x][j] = IF x = r /\ j = i THEN m ELSE msgs[x][j]
    BY <1>1, <1>3, EditedMessages
  <1> QED
    BY <1>3, <1>4 DEF Steady

LEMMA SameSteady ==
    ASSUME TypeInv, UNCHANGED msgs
    PROVE  Steady /\ MsgsType'
  BY DEF Steady, TypeInv, MsgsType

-------------------------------------------------------------------------------
\* The parts of Inv that a step leaves alone

\* OneReplyPerMessage, spelt out for one room.
LEMMA RepliesFollow ==
    ASSUME Inv, NEW r \in Room
    PROVE  /\ room[r].turns = Cardinality(Replies(r))
           /\ \A i, j \in Replies(r) : msgs[r][i].replyTo = msgs[r][j].replyTo => i = j
           /\ \A i \in Replies(r) : /\ i \in DOMAIN msgs[r]
                                    /\ msgs[r][i].replyTo \in DOMAIN msgs[r]
                                    /\ msgs[r][i].replyTo \in 1 .. i - 1
                                    /\ msgs[r][msgs[r][i].replyTo].reply = "succeeded"
  <1>1. /\ room[r].turns = Cardinality(Replies(r))
        /\ \A i, j \in Replies(r) : msgs[r][i].replyTo = msgs[r][j].replyTo => i = j
        /\ \A i \in Replies(r) : /\ msgs[r][i].replyTo \in 1 .. i - 1
                                 /\ msgs[r][msgs[r][i].replyTo].reply = "succeeded"
    BY DEF Inv, OneReplyPerMessage
  <1>2. DOMAIN msgs[r] = 1 .. Len(msgs[r]) /\ Len(msgs[r]) \in Nat
    BY FiniteSets DEF Inv
  <1>3. \A i \in Replies(r) : i \in DOMAIN msgs[r]
    BY DEF Replies
  <1>4. \A i \in Replies(r) : msgs[r][i].replyTo \in DOMAIN msgs[r]
    BY <1>1, <1>2, <1>3
  <1> QED
    BY <1>1, <1>3, <1>4

\* The parts about messages, when these stay as they are and no turn is counted.
LEMMA SteadyInv ==
    ASSUME Inv, TypeInv', Steady, \A r \in Room : room'[r].turns = room[r].turns
    PROVE  MessagesInv' /\ OneReplyPerMessage' /\ QuestionsInOrder'
  <1>1. MessagesInv'
    <2>1. SUFFICES ASSUME NEW r \in Room, NEW i \in DOMAIN msgs[r] PROVE MessageInv(r, i)'
      BY DEF MessagesInv, Steady
    <2>2. MessageInv(r, i)
      BY <2>1 DEF Inv, MessagesInv
    <2>3. \A q : InTurn(r, q)' <=> InTurn(r, q)
      BY SteadySets
    <2> QED
      BY <2>1, <2>2, <2>3 DEF MessageInv, Steady
  <1>2. OneReplyPerMessage'
    <2>1. SUFFICES ASSUME NEW r \in Room
          PROVE /\ room'[r].turns = Cardinality(Replies(r)')
                /\ \A i, j \in Replies(r)' :
                      msgs'[r][i].replyTo = msgs'[r][j].replyTo => i = j
                /\ \A i \in Replies(r)' :
                      /\ msgs'[r][i].replyTo \in 1 .. i - 1
                      /\ msgs'[r][msgs'[r][i].replyTo].reply = "succeeded"
      BY DEF OneReplyPerMessage
    <2>2. Replies(r)' = Replies(r)
      BY SteadySets
    <2>3. /\ room[r].turns = Cardinality(Replies(r))
          /\ \A i, j \in Replies(r) : msgs[r][i].replyTo = msgs[r][j].replyTo => i = j
          /\ \A i \in Replies(r) : /\ i \in DOMAIN msgs[r]
                                   /\ msgs[r][i].replyTo \in DOMAIN msgs[r]
                                   /\ msgs[r][i].replyTo \in 1 .. i - 1
                                   /\ msgs[r][msgs[r][i].replyTo].reply = "succeeded"
      BY RepliesFollow
    <2> QED
      BY <2>2, <2>3 DEF Steady
  <1>3. QuestionsInOrder'
    <2>1. SUFFICES ASSUME NEW r \in Room, NEW i \in Answers(r)', NEW j \in Answers(r)',
                          msgs'[r][i].current
          PROVE /\ msgs'[r][j].current /\ msgs'[r][i].question = msgs'[r][j].question
                      => i = j
                /\ \A q \in 1 .. msgs'[r][i].question - 1 : Answered(r, q)'
      BY DEF QuestionsInOrder
    <2>2. Answers(r)' = Answers(r) /\ \A q : Answered(r, q)' <=> Answered(r, q)
      BY SteadySets
    <2>3. i \in DOMAIN msgs[r] /\ j \in DOMAIN msgs[r]
      BY <2>1, <2>2 DEF Answers, UserMessages
    <2> QED
      BY <2>1, <2>2, <2>3 DEF Inv, QuestionsInOrder, Steady
  <1> QED
    BY <1>1, <1>2, <1>3

\* A room that waits to be closed went on waiting.
LEMMA AwaitingStays ==
    ASSUME Inv, TypeInv', Grows,
           \A r \in Room : room'[r].ended = "awaiting_user_end"
                              => room[r].ended = "awaiting_user_end"
    PROVE  AwaitingEndIsEarned'
  <1>1. SUFFICES ASSUME NEW r \in Room, room'[r].ended = "awaiting_user_end"
                 PROVE  AllAnswered(r)' \/ LimitUsed(r)'
    BY DEF AwaitingEndIsEarned, AllAnswered, LimitUsed
  <1>2. AllAnswered(r) \/ LimitUsed(r)
    BY <1>1 DEF Inv, AwaitingEndIsEarned, AllAnswered, LimitUsed
  <1> QED
    BY <1>2, GrowsSets DEF Inv

\* An open request keeps its place while the room stays in progress.
LEMMA OpenStays ==
    ASSUME Inv, TypeInv', Grows, NEW r \in Room, open'[r] = open[r],
           ~Unlocked(r) => InProgress(r)'
    PROVE  ~Unlocked(r)' => InProgress(r)' /\ InTurn(r, open[r])'
  <1>1. Unlocked(r)' <=> Unlocked(r)
    BY DEF Unlocked
  <1>2. ~Unlocked(r) => InTurn(r, open[r])
    BY DEF Inv, OpenInv
  <1>3. \A q : InTurn(r, q) => InTurn(r, q)'
    BY GrowsSets DEF Inv
  <1>4. \A q : q = open[r] => (InTurn(r, open[r])' <=> InTurn(r, q)')
    BY DEF InTurn
  <1> QED
    BY <1>1, <1>2, <1>3, <1>4

\* A worker keeps what it has in hand while nobody takes the reply from it.
LEMMA WorkStays ==
    ASSUME Inv, TypeInv', Grows, NEW w \in Worker, work'[w] = work[w],
           work[w].step = "storing" =>
              /\ Mine(w)'.reply = Mine(w).reply /\ Mine(w)'.holder = Mine(w).holder
    PROVE  work'[w].step # "idle" => Holds(w)'
  <1>1. SUFFICES ASSUME work[w].step # "idle" PROVE Holds(w)'
    OBVIOUS
  <1>2. Holds(w)
    BY <1>1 DEF Inv, WorkInv
  <1>3. PICK r \in Room : r = work[w].room
    BY <1>2 DEF Holds
  <1>4. UserMessages(r) \subseteq UserMessages(r)' /\ (LimitUsed(r) => LimitUsed(r)')
    BY GrowsSets DEF Inv
  <1>5. /\ work'[w].room \in Room
        /\ work'[w].msg \in UserMessages(work[w].room)'
        /\ work'[w].limit => LimitUsed(work[w].room)'
    <2>1. work[w].msg \in UserMessages(r) /\ (work[w].limit => LimitUsed(r))
      BY <1>2, <1>3 DEF Holds
    <2> QED
      BY <1>3, <1>4, <2>1 DEF UserMessages, LimitUsed, Answers
  <1>6. ASSUME work[w].step = "storing"
        PROVE  /\ Mine(w)'.reply = "processing" /\ Mine(w)'.holder = w
               /\ work'[w].end => EndEarned(w)'
    <2>1. /\ Mine(w).reply = "processing" /\ Mine(w).holder = w
          /\ work[w].end => EndEarned(w)
      BY <1>2, <1>6 DEF Holds
    <2>2. Mine(w)'.question = Mine(w).question
      BY <1>2, <1>3 DEF Holds, Mine, UserMessages, Grows
    <2> QED
      BY <2>1, <2>2, <1>6 DEF EndEarned
  <1> QED
    BY <1>5, <1>6 DEF Holds

LEMMA RoomsStay ==
    ASSUME Inv, UNCHANGED <<room, results>>
    PROVE  /\ RoomsInv' /\ OneResult'
           /\ \A r \in Room : room'[r].turns = room[r].turns
           /\ \A r \in Room : room'[r].ended = "awaiting_user_end"
                                 => room[r].ended = "awaiting_user_end"
           /\ \A r \in Room : InProgress(r)' <=> InProgress(r)
  BY DEF Inv, RoomsInv, RoomInv, OneResult, InProgress

\* A step that changes neither messages, work nor open requests disturbs only what is
\* said of the rooms.
LEMMA RoomStep ==
    ASSUME Inv, TypeInv', UNCHANGED <<msgs, work, open>>,
           \A r \in Room : /\ room'[r].turns = room[r].turns
                           /\ room'[r].ended = "awaiting_user_end"
                                 => room[r].ended = "awaiting_user_end"
                           /\ ~Unlocked(r) => InProgress(r)',
           RoomsInv', OneResult'
    PROVE  Inv'
  <1>1. Steady /\ Grows
    BY SameSteady, SteadyGrows DEF Inv
  <1>2. MessagesInv' /\ OneReplyPerMessage' /\ QuestionsInOrder'
    BY <1>1, SteadyInv
  <1>3. AwaitingEndIsEarned'
    BY <1>1, AwaitingStays
  <1>4. ASSUME NEW r \in Room PROVE ~Unlocked(r)' => InProgress(r)' /\ InTurn(r, open[r])'
    BY <1>1, OpenStays
  <1>5. ASSUME NEW w \in Worker PROVE work'[w].step # "idle" => Holds(w)'
    <2>1. Mine(w)' = Mine(w)
      BY DEF Mine
    <2> QED
      BY <1>1, <2>1, WorkStays
  <1>6. OpenInv' /\ WorkInv'
    BY <1>4, <1>5 DEF OpenInv, WorkInv
  <1> QED
    BY <1>2, <1>3, <1>6 DEF Inv

\* Work that is given up or done; the other workers keep what they have in hand.
LEMMA WorkChanges ==
    ASSUME Inv, TypeInv', Grows, NEW w \in Worker,
           \A v \in Worker \ {w} :
              /\ work'[v] = work[v]
              /\ work[v].step = "storing" =>
                    /\ Mine(v)'.reply = Mine(v).reply /\ Mine(v)'.holder = Mine(v).holder,
           work'[w].step # "idle" => Holds(w)'
    PROVE  WorkInv'
  <1>1. ASSUME NEW v \in Worker PROVE work'[v].step # "idle" => Holds(v)'
    <2>1. CASE v = w
      BY <2>1
    <2>2. CASE v # w
      BY <2>2, WorkStays
    <2> QED
      BY <2>1, <2>2
  <1> QED
    BY <1>1 DEF WorkInv

-------------------------------------------------------------------------------
\* The invariant holds initially, and every step keeps it.

LEMMA InitInv == Init => Inv
  <1> SUFFICES ASSUME Init PROVE Inv
    OBVIOUS
  <1>1. TypeInv
    <2>1. MsgsType
      BY EmptySeq DEF Init, MsgsType
    <2>2. \A r \in Room : Questions[r] \in Nat
      BY PracticeRoomAssumption
    <2>3. open \in [Room -> Int] /\ \A r \in Room : open[r] \in Closed .. Questions[r]
      BY <2>2 DEF Init, Closed
    <2>4. room \in [Room -> RoomRecord]
      BY DEF Init, RoomRecord
    <2>5. Idle \in Work
      BY DEF Idle, Work
    <2>6. work \in [Worker -> Work]
      BY <2>5 DEF Init
    <2>7. /\ evals \in [Room -> [1 .. MaxMessages -> {"none", "processing", "ended"}]]
          /\ achieved \in [Room -> SUBSET Condition]
          /\ results \in [Room -> Nat] /\ side \in Nat
      BY DEF Init
    <2> QED
      BY <2>1, <2>3, <2>4, <2>6, <2>7 DEF TypeInv
  <1>2. \A r \in Room : DOMAIN msgs[r] = {}
    BY DEF Init
  <1>3. \A r \in Room : Replies(r) = {} /\ Answers(r) = {}
    BY <1>2 DEF Replies, Answers, UserMessages
  <1>4. MessagesInv /\ QuestionsInOrder
    BY <1>2, <1>3 DEF MessagesInv, QuestionsInOrder
  <1>5. OpenInv
    BY DEF Init, OpenInv, Unlocked
  <1>6. WorkInv
    BY DEF Init, WorkInv, Idle
  <1>7. RoomsInv /\ AwaitingEndIsEarned /\ OneResult
    BY DEF Init, RoomsInv, RoomInv, AwaitingEndIsEarned, OneResult, InProgress
  <1>8. OneReplyPerMessage
    BY <1>3, FS_EmptySet DEF Init, OneReplyPerMessage
  <1> QED
    BY <1>1, <1>4, <1>5, <1>6, <1>7, <1>8 DEF Inv

LEMMA OpenMessageInv ==
    ASSUME Inv, NEW r \in Room, NEW q \in 0 .. Questions[r], OpenMessage(r, q)
    PROVE  Inv'
  <1>0. Questions[r] \in Nat
    BY PracticeRoomAssumption
  <1>1. \A x \in Room : open'[x] = IF x = r THEN q ELSE open[x]
    BY DEF OpenMessage, Inv, TypeInv
  <1>2. UNCHANGED <<room, msgs, work, evals, achieved, results, side>>
    BY DEF OpenMessage
  <1>3. Steady /\ Grows /\ MsgsType'
    BY <1>2, SameSteady, SteadyGrows DEF Inv
  <1>4. TypeInv'
    <2>1. open' \in [Room -> Int] /\ \A x \in Room : open'[x] \in Closed .. Questions[x]
      BY <1>0, <1>1 DEF OpenMessage, Inv, TypeInv, Closed
    <2> QED
      BY <1>2, <1>3, <2>1 DEF Inv, TypeInv
  <1>5. MessagesInv' /\ OneReplyPerMessage' /\ QuestionsInOrder'
    BY <1>2, <1>3, <1>4, SteadyInv
  <1>6. RoomsInv' /\ OneResult' /\ AwaitingEndIsEarned'
    BY <1>2, <1>3, <1>4, RoomsStay, AwaitingStays
  <1>7. WorkInv'
    <2>1. ASSUME NEW w \in Worker PROVE work'[w].step # "idle" => Holds(w)'
      <3>1. Mine(w)' = Mine(w)
        BY <1>2 DEF Mine
      <3> QED
        BY <1>2, <1>3, <1>4, <3>1, WorkStays
    <2> QED
      BY <2>1 DEF WorkInv
  <1>8. InProgress(r)' /\ InTurn(r, q)'
    <2>1. InProgress(r)'
      BY <1>2 DEF OpenMessage, Accepts, InProgress
    <2>2. InTurn(r, q)
      <3>1. CASE TypeOf[r] = "interview"
        BY <3>1, NextQuestionInTurn DEF OpenMessage, Accepts
      <3>2. CASE TypeOf[r] # "interview"
        BY <3>2 DEF OpenMessage, Accepts, InTurn, NoQuestion
      <3> QED
        BY <3>1, <3>2
    <2> QED
      BY <1>3, <2>1, <2>2, SteadySets
  <1>9. OpenInv'
    <2>1. ASSUME NEW x \in Room PROVE ~Unlocked(x)' => InProgress(x)' /\ InTurn(x, open[x])'
      <3>1. CASE x = r
        BY <1>1, <1>8, <3>1 DEF InTurn
      <3>2. CASE x # r
        <4>1. open'[x] = open[x]
          BY <1>1, <3>2
        <4>2. ~Unlocked(x) => InProgress(x)'
          BY <1>2 DEF Inv, OpenInv, InProgress
        <4> QED
          BY <1>3, <1>4, <4>1, <4>2, OpenStays
      <3> QED
        BY <3>1, <3>2
    <2> QED
      BY <2>1 DEF OpenInv
  <1> QED
    BY <1>4, <1>5, <1>6, <1>7, <1>9 DEF Inv

\* A room that is completed with its turns and, if there are any, a result.
LEMMA CompletionInv ==
    ASSUME Inv, NEW r \in Room, Unlocked(r), InProgress(r),
           room' = [room EXCEPT ![r] = Ended(r)],
           results' = [results EXCEPT ![r] = IF room[r].turns = 0 THEN @ ELSE @ + 1],
           side' \in Nat,
           UNCHANGED <<msgs, open, work, evals, achieved>>
    PROVE  Inv'
  <1>1. Ended(r) \in RoomRecord /\ Ended(r).turns = room[r].turns
        /\ Ended(r).status = "completed" /\ Ended(r).ended = "completed"
    BY DEF Inv, TypeInv, RoomRecord, Ended
  <1>2. \A x \in Room : room'[x] = IF x = r THEN Ended(r) ELSE room[x]
    BY DEF Inv, TypeInv
  <1>3. \A x \in Room : results'[x] = IF x = r /\ room[r].turns # 0 THEN results[r] + 1
                                      ELSE results[x]
    BY DEF Inv, TypeInv
  <1>4. TypeInv'
    <2>1. room' \in [Room -> RoomRecord]
      BY <1>1 DEF Inv, TypeInv
    <2>2. results' \in [Room -> Nat]
      BY DEF Inv, TypeInv
    <2> QED
      BY <2>1, <2>2, SameSteady DEF Inv, TypeInv
  <1>5. RoomsInv'
    BY <1>1, <1>2 DEF Inv, RoomsInv, RoomInv
  <1>6. OneResult'
    BY <1>1, <1>2, <1>3 DEF Inv, OneResult, InProgress
  <1>7. \A x \in Room : /\ room'[x].turns = room[x].turns
                        /\ room'[x].ended = "awaiting_user_end"
                              => room[x].ended = "awaiting_user_end"
                        /\ ~Unlocked(x) => InProgress(x)'
    BY <1>1, <1>2 DEF Inv, OpenInv, InProgress
  <1> QED
    BY <1>4, <1>5, <1>6, <1>7, RoomStep

LEMMA CompleteInterviewInv ==
    ASSUME Inv, NEW r \in Room, CompleteInterview(r)
    PROVE  Inv'
  <1>1. ~(room[r].turns = 0)
    BY DEF Inv, RoomsInv, RoomInv, CompleteInterview, TypeInv, RoomRecord
  <1>2. results' = [results EXCEPT ![r] = IF room[r].turns = 0 THEN @ ELSE @ + 1]
    BY <1>1 DEF CompleteInterview
  <1>3. side' \in Nat
    BY DEF Inv, TypeInv, CompleteInterview
  <1> QED
    BY <1>2, <1>3, CompletionInv DEF CompleteInterview

LEMMA CompletePracticeInv ==
    ASSUME Inv, NEW r \in Room, CompletePractice(r)
    PROVE  Inv'
  <1>1. room[r].turns \in Nat
    BY DEF Inv, TypeInv, RoomRecord
  <1>2. results' = [results EXCEPT ![r] = IF room[r].turns = 0 THEN @ ELSE @ + 1]
    BY <1>1 DEF CompletePractice, Inv, TypeInv
  <1>3. side' \in Nat
    BY DEF Inv, TypeInv, CompletePractice
  <1> QED
    BY <1>2, <1>3, CompletionInv DEF CompletePractice

LEMMA DismissGoalPromptInv ==
    ASSUME Inv, NEW r \in Room, DismissGoalPrompt(r)
    PROVE  Inv'
  <1>1. room[r] \in RoomRecord
    BY DEF Inv, TypeInv
  <1>2. \A x \in Room : /\ room'[x] \in RoomRecord
                        /\ room'[x].turns = room[x].turns /\ room'[x].status = room[x].status
                        /\ x # r => room'[x] = room[x]
                        /\ x = r => room'[x].ended = "none"
    BY <1>1 DEF Inv, TypeInv, DismissGoalPrompt, RoomRecord
  <1>3. TypeInv'
    <2>1. room' \in [Room -> RoomRecord]
      BY <1>2 DEF DismissGoalPrompt, Inv, TypeInv
    <2> QED
      BY <2>1, SameSteady DEF Inv, TypeInv, DismissGoalPrompt
  <1>4. RoomsInv' /\ OneResult'
    <2>1. results' = results
      BY DEF DismissGoalPrompt
    <2> QED
      BY <1>2, <2>1 DEF Inv, RoomsInv, RoomInv, OneResult, InProgress
  <1>5. \A x \in Room : /\ room'[x].ended = "awaiting_user_end"
                              => room[x].ended = "awaiting_user_end"
                        /\ ~Unlocked(x) => InProgress(x)'
    BY <1>2 DEF Inv, OpenInv, InProgress
  <1> QED
    BY <1>2, <1>3, <1>4, <1>5, RoomStep DEF DismissGoalPrompt

LEMMA EvaluateInv ==
    ASSUME Inv, NEW r \in Room, NEW t \in DOMAIN evals[r], NEW found \in SUBSET Condition,
           Evaluate(r, t, found)
    PROVE  Inv'
  <1>1. room[r] \in RoomRecord
    BY DEF Inv, TypeInv
  <1>2. \A x \in Room : /\ room'[x] \in RoomRecord
                        /\ room'[x].turns = room[x].turns /\ room'[x].status = room[x].status
                        /\ \/ room'[x] = room[x]
                           \/ ~room[x].dismissed /\ ~room'[x].dismissed
                              /\ room'[x].ended = "goal_achieved"
    BY <1>1 DEF Inv, TypeInv, Evaluate, RoomRecord, Marks
  <1>3. TypeInv'
    <2>1. room' \in [Room -> RoomRecord]
      BY <1>2 DEF Evaluate, Inv, TypeInv
    <2>2. achieved' \in [Room -> SUBSET Condition]
      BY DEF Evaluate, Recorded, Inv, TypeInv
    <2>3. evals' \in [Room -> [1 .. MaxMessages -> {"none", "processing", "ended"}]]
      BY DEF Evaluate, Inv, TypeInv
    <2> QED
      BY <2>1, <2>2, <2>3, SameSteady DEF Inv, TypeInv, Evaluate
  <1>4. RoomsInv' /\ OneResult'
    BY <1>2 DEF Inv, RoomsInv, RoomInv, OneResult, InProgress, Evaluate
  <1>5. \A x \in Room : /\ room'[x].ended = "awaiting_user_end"
                              => room[x].ended = "awaiting_user_end"
                        /\ ~Unlocked(x) => InProgress(x)'
    BY <1>2 DEF Inv, OpenInv, InProgress
  <1> QED
    BY <1>2, <1>3, <1>4, <1>5, RoomStep DEF Evaluate

LEMMA EvaluationFailsInv ==
    ASSUME Inv, NEW r \in Room, NEW t \in DOMAIN evals[r], EvaluationFails(r, t)
    PROVE  Inv'
  <1>1. evals' \in [Room -> [1 .. MaxMessages -> {"none", "processing", "ended"}]]
    BY DEF EvaluationFails, Inv, TypeInv
  <1>2. TypeInv'
    BY <1>1, SameSteady DEF EvaluationFails, Inv, TypeInv
  <1>3. \A x \in Room : ~Unlocked(x) => InProgress(x)'
    BY RoomsStay DEF EvaluationFails, Inv, OpenInv
  <1> QED
    BY <1>2, <1>3, RoomsStay, RoomStep DEF EvaluationFails

LEMMA SideJobEndsInv ==
    ASSUME Inv, SideJobEnds
    PROVE  Inv'
  <1>1. TypeInv'
    BY SameSteady DEF SideJobEnds, Inv, TypeInv
  <1>2. \A x \in Room : ~Unlocked(x) => InProgress(x)'
    BY RoomsStay DEF SideJobEnds, Inv, OpenInv
  <1> QED
    BY <1>1, <1>2, RoomsStay, RoomStep DEF SideJobEnds

LEMMA StutterInv ==
    ASSUME Inv, UNCHANGED vars
    PROVE  Inv'
  <1>1. TypeInv'
    BY SameSteady DEF vars, Inv, TypeInv
  <1>2. \A x \in Room : ~Unlocked(x) => InProgress(x)'
    BY RoomsStay DEF vars, Inv, OpenInv
  <1> QED
    BY <1>1, <1>2, RoomsStay, RoomStep DEF vars

\* A step of the queue: no room and no request changes, and no message is added.
LEMMA ReplyStep ==
    ASSUME Inv, TypeInv', Steady, UNCHANGED <<room, open, results>>, WorkInv'
    PROVE  Inv'
  <1>1. MessagesInv' /\ OneReplyPerMessage' /\ QuestionsInOrder'
    BY SteadyInv
  <1>2. RoomsInv' /\ OneResult' /\ AwaitingEndIsEarned'
    BY RoomsStay, AwaitingStays, SteadyGrows
  <1>3. OpenInv'
    <2>1. ASSUME NEW r \in Room PROVE ~Unlocked(r)' => InProgress(r)' /\ InTurn(r, open[r])'
      <3>1. ~Unlocked(r) => InProgress(r)'
        BY RoomsStay DEF Inv, OpenInv
      <3> QED
        BY <3>1, OpenStays, SteadyGrows
    <2> QED
      BY <2>1 DEF OpenInv
  <1> QED
    BY <1>1, <1>2, <1>3 DEF Inv

\* Another worker's message is not the one that is edited.
LEMMA EditedOther ==
    ASSUME Inv, NEW r \in Room, NEW i \in UserMessages(r), NEW m \in Message(r),
           SetMessage(r, i, m), NEW w \in Worker, work'[w] = work[w],
           work[w].step = "storing", ~(work[w].room = r /\ work[w].msg = i)
    PROVE  Mine(w)'.reply = Mine(w).reply /\ Mine(w)'.holder = Mine(w).holder
  <1>1. \A x \in Room : \A j \in DOMAIN msgs[x] :
           msgs'[x][j] = IF x = r /\ j = i THEN m ELSE msgs[x][j]
    BY EditedMessages DEF Inv, UserMessages
  <1>2. work[w].room \in Room /\ work[w].msg \in DOMAIN msgs[work[w].room]
    BY DEF Inv, WorkInv, Holds, UserMessages
  <1> QED
    BY <1>1, <1>2 DEF Mine

\* A message that is waiting or was given up is in no storing hand.
LEMMA NotStored ==
    ASSUME Inv, NEW r \in Room, NEW i \in DOMAIN msgs[r], NEW w \in Worker,
           work[w].step = "storing", work[w].room = r /\ work[w].msg = i
    PROVE  msgs[r][i].reply = "processing" /\ msgs[r][i].holder = w
  BY DEF Inv, WorkInv, Holds, Mine

LEMMA EditType ==
    ASSUME TypeInv, NEW r \in Room, NEW i \in UserMessages(r),
           NEW s \in {"queued", "processing", "failed"}, NEW h \in Worker \cup {Nobody}
    PROVE  [msgs[r][i] EXCEPT !.reply = s, !.holder = h] \in Message(r)
  <1>1. msgs[r][i] \in Message(r)
    BY FiniteSets DEF UserMessages
  <1> QED
    BY <1>1 DEF Message

LEMMA RetryResponseInv ==
    ASSUME Inv, NEW r \in Room, NEW i \in DOMAIN msgs[r], RetryResponse(r, i)
    PROVE  Inv'
  <1> DEFINE m == [msgs[r][i] EXCEPT !.reply = "queued", !.holder = Nobody]
  <1>1. /\ i \in UserMessages(r) /\ msgs[r][i].reply = "failed" /\ SetMessage(r, i, m)
        /\ UNCHANGED <<room, open, work, evals, achieved, results, side>>
    BY DEF RetryResponse
  <1>2. m \in Message(r)
    BY <1>1, EditType DEF Inv
  <1>3. Steady /\ MsgsType'
    BY <1>1, EditedSteady DEF Inv
  <1>4. TypeInv'
    BY <1>1, <1>3 DEF Inv, TypeInv
  <1> HIDE DEF m
  <1>5. ASSUME NEW w \in Worker PROVE work'[w].step # "idle" => Holds(w)'
    <2>1. work[w].step = "storing" => ~(work[w].room = r /\ work[w].msg = i)
      BY <1>1, NotStored
    <2> QED
      BY <1>1, <1>2, <1>3, <1>4, <2>1, EditedOther, WorkStays, SteadyGrows
  <1>6. WorkInv'
    BY <1>5 DEF WorkInv
  <1> QED
    BY <1>1, <1>3, <1>4, <1>6, ReplyStep

LEMMA ReapInv ==
    ASSUME Inv, NEW r \in Room, NEW i \in DOMAIN msgs[r], Reap(r, i)
    PROVE  Inv'
  <1> DEFINE m == [msgs[r][i] EXCEPT !.reply = "failed"]
  <1>1. /\ i \in UserMessages(r) /\ msgs[r][i].reply = "processing" /\ SetMessage(r, i, m)
        /\ \A w \in Worker : ~(work[w].step = "storing" /\ work[w].room = r
                                  /\ work[w].msg = i)
        /\ UNCHANGED <<room, open, work, evals, achieved, results, side>>
    BY DEF Reap
  <1>2. /\ msgs[r][i].holder \in Worker \cup {Nobody}
        /\ m = [msgs[r][i] EXCEPT !.reply = "failed", !.holder = msgs[r][i].holder]
    BY FiniteSets DEF Inv, Message
  <1>3. m \in Message(r)
    BY <1>1, <1>2, EditType DEF Inv
  <1>4. Steady /\ MsgsType'
    BY <1>1, <1>2, EditedSteady DEF Inv
  <1>5. TypeInv'
    BY <1>1, <1>4 DEF Inv, TypeInv
  <1> HIDE DEF m
  <1>6. ASSUME NEW w \in Worker PROVE work'[w].step # "idle" => Holds(w)'
    BY <1>1, <1>3, <1>4, <1>5, EditedOther, WorkStays, SteadyGrows
  <1>7. WorkInv'
    BY <1>6 DEF WorkInv
  <1> QED
    BY <1>1, <1>4, <1>5, <1>7, ReplyStep

LEMMA ClaimReplyInv ==
    ASSUME Inv, NEW w \in Worker, NEW r \in Room, NEW i \in DOMAIN msgs[r],
           ClaimReply(w, r, i)
    PROVE  Inv'
  <1> DEFINE m == [msgs[r][i] EXCEPT !.reply = "processing", !.holder = w]
             full == Cardinality(Answers(r)) >= Questions[r] * 3
             job == [Idle EXCEPT !.step = "executing", !.room = r, !.msg = i,
                                 !.limit = full]
  <1>1. /\ i \in UserMessages(r) /\ msgs[r][i].reply = "queued" /\ SetMessage(r, i, m)
        /\ work[w].step = "idle" /\ work' = [work EXCEPT ![w] = job]
        /\ UNCHANGED <<room, open, evals, achieved, results, side>>
    BY DEF ClaimReply
  <1>2. m \in Message(r)
    BY <1>1, EditType DEF Inv
  <1>3. Steady /\ MsgsType'
    BY <1>1, EditedSteady DEF Inv
  <1>4. /\ job.step = "executing" /\ job.room = r /\ job.msg = i /\ job.limit = full
        /\ job \in Work
    <2>1. i \in Nat
      BY FiniteSets DEF Inv
    <2>2. full \in BOOLEAN
      OBVIOUS
    <2> HIDE DEF full
    <2> QED
      BY <2>1, <2>2 DEF Idle, Work
  <1>5. full => LimitUsed(r)
    BY DEF LimitUsed
  <1> HIDE DEF m, job, full
  <1>6. \A v \in Worker : work'[v] = IF v = w THEN job ELSE work[v]
    BY <1>1 DEF Inv, TypeInv
  <1>7. TypeInv'
    BY <1>1, <1>3, <1>4 DEF Inv, TypeInv
  <1>8. Holds(w)'
    <2>1. UserMessages(r)' = UserMessages(r) /\ (LimitUsed(r) => LimitUsed(r)')
      BY <1>3, <1>7, SteadySets, SteadyGrows, GrowsSets DEF Inv
    <2>2. work'[w] = job
      BY <1>6
    <2>3. work'[w].room = r /\ work'[w].msg = i /\ work'[w].step = "executing"
      BY <1>4, <2>2
    <2>4. work'[w].limit => LimitUsed(r)'
      BY <1>4, <1>5, <2>1, <2>2
    <2> QED
      BY <1>1, <2>1, <2>3, <2>4 DEF Holds, UserMessages, LimitUsed, Answers
  <1>9. \A v \in Worker \ {w} :
           /\ work'[v] = work[v]
           /\ work[v].step = "storing" =>
                 /\ Mine(v)'.reply = Mine(v).reply /\ Mine(v)'.holder = Mine(v).holder
    <2>1. SUFFICES ASSUME NEW v \in Worker, v # w, work[v].step = "storing"
          PROVE  Mine(v)'.reply = Mine(v).reply /\ Mine(v)'.holder = Mine(v).holder
      BY <1>6
    <2>2. work'[v] = work[v]
      BY <1>6, <2>1
    <2>3. ~(work[v].room = r /\ work[v].msg = i)
      BY <1>1, <2>1, NotStored
    <2> QED
      BY <1>1, <1>2, <2>1, <2>2, <2>3, EditedOther
  <1>10. WorkInv'
    BY <1>3, <1>7, <1>8, <1>9, WorkChanges, SteadyGrows
  <1> QED
    BY <1>1, <1>3, <1>7, <1>10, ReplyStep

LEMMA FailReplyInv ==
    ASSUME Inv, NEW w \in Worker, FailReply(w)
    PROVE  Inv'
  <1>1. /\ work[w].step = "executing" /\ work' = [work EXCEPT ![w] = Idle]
        /\ UNCHANGED <<room, open, evals, achieved, results, side>>
    BY DEF FailReply
  <1>2. Idle \in Work /\ Idle.step = "idle"
    BY DEF Idle, Work
  <1>3. \A v \in Worker : work'[v] = IF v = w THEN Idle ELSE work[v]
    BY <1>1 DEF Inv, TypeInv
  <1>4. Holds(w)
    BY <1>1 DEF Inv, WorkInv
  <1>5. PICK r \in Room : r = work[w].room
    BY <1>4 DEF Holds
  <1>6. PICK i \in UserMessages(r) :
           i = work[w].msg /\ i \in DOMAIN msgs[r] /\ Mine(w) = msgs[r][i]
    BY <1>4, <1>5 DEF Holds, UserMessages, Mine
  <1>7. CASE UNCHANGED msgs
    <2>1. Steady /\ MsgsType'
      BY <1>7, SameSteady DEF Inv
    <2>2. TypeInv'
      BY <1>1, <1>2, <2>1 DEF Inv, TypeInv
    <2>3. ASSUME NEW v \in Worker, v # w
          PROVE  work'[v] = work[v] /\ Mine(v)'.reply = Mine(v).reply
                   /\ Mine(v)'.holder = Mine(v).holder
      BY <1>3, <1>7, <2>3 DEF Mine
    <2>4. WorkInv'
      BY <1>2, <1>3, <2>1, <2>2, <2>3, WorkChanges, SteadyGrows
    <2> QED
      BY <1>1, <2>1, <2>2, <2>4, ReplyStep
  <1>8. CASE msgs[r][i].reply = "processing" /\ msgs[r][i].holder = w
    <2>1. PICK s \in {"queued", "failed"} :
             SetMessage(work[w].room, work[w].msg, [Mine(w) EXCEPT !.reply = s])
      BY <1>6, <1>8 DEF FailReply
    <2> DEFINE m == [msgs[r][i] EXCEPT !.reply = s]
    <2>2. SetMessage(r, i, m)
      BY <1>5, <1>6, <2>1
    <2>3. /\ w \in Worker \cup {Nobody}
          /\ m = [msgs[r][i] EXCEPT !.reply = s, !.holder = w]
      BY <1>6, <1>8, FiniteSets DEF Inv, Message
    <2>4. m \in Message(r)
      BY <2>3, EditType DEF Inv
    <2>5. Steady /\ MsgsType'
      BY <1>8, <2>2, <2>3, EditedSteady DEF Inv
    <2> HIDE DEF m
    <2>6. TypeInv'
      BY <1>1, <1>2, <2>5 DEF Inv, TypeInv
    <2>7. ASSUME NEW v \in Worker, v # w, work[v].step = "storing"
          PROVE  Mine(v)'.reply = Mine(v).reply /\ Mine(v)'.holder = Mine(v).holder
      <3>1. ~(work[v].room = r /\ work[v].msg = i)
        BY <1>6, <1>8, <2>7, NotStored
      <3>2. work'[v] = work[v]
        BY <1>3, <2>7
      <3> QED
        BY <2>2, <2>4, <2>7, <3>1, <3>2, EditedOther
    <2>8. WorkInv'
      BY <1>2, <1>3, <2>5, <2>6, <2>7, WorkChanges, SteadyGrows
    <2> QED
      BY <1>1, <2>5, <2>6, <2>8, ReplyStep
  <1> QED
    BY <1>6, <1>7, <1>8 DEF FailReply

\* A step that changes only what one worker has in hand.
LEMMA HandStep ==
    ASSUME Inv, NEW w \in Worker, NEW job \in Work, work' = [work EXCEPT ![w] = job],
           UNCHANGED <<room, msgs, open, evals, achieved, results, side>>,
           job.step # "idle" => Holds(w)'
    PROVE  Inv'
  <1>1. \A v \in Worker : work'[v] = IF v = w THEN job ELSE work[v]
    BY DEF Inv, TypeInv
  <1>2. Steady /\ MsgsType'
    BY SameSteady DEF Inv
  <1>3. TypeInv'
    BY <1>2 DEF Inv, TypeInv
  <1>4. ASSUME NEW v \in Worker, v # w
        PROVE  work'[v] = work[v] /\ Mine(v)'.reply = Mine(v).reply
                 /\ Mine(v)'.holder = Mine(v).holder
    BY <1>1, <1>4 DEF Mine
  <1>5. WorkInv'
    BY <1>1, <1>2, <1>3, <1>4, WorkChanges, SteadyGrows
  <1> QED
    BY <1>2, <1>3, <1>5, ReplyStep

LEMMA GiveUpInv ==
    ASSUME Inv, NEW w \in Worker, DiscardReply(w) \/ StoreRaises(w)
    PROVE  Inv'
  <1>1. Idle \in Work /\ Idle.step = "idle"
    BY DEF Idle, Work
  <1> QED
    BY <1>1, HandStep DEF DiscardReply, StoreRaises

LEMMA BeginStoreInv ==
    ASSUME Inv, NEW w \in Worker, NEW says \in BOOLEAN, NEW evades \in BOOLEAN,
           BeginStore(w, says, evades)
    PROVE  Inv'
  <1> DEFINE v == Verdict(Mine(w), Questions[work[w].room], work[w].limit, says, evades)
             interview == TypeOf[work[w].room] = "interview"
  <1>1. PICK c, e \in BOOLEAN, n \in Nat :
           /\ work' = [work EXCEPT ![w].step = "storing", ![w].seq = n,
                                   ![w].complete = c, ![w].end = e]
           /\ c = (interview /\ v.complete) /\ e = (interview /\ v.end)
    <2>1. work[w].room \in Room
      BY DEF BeginStore, Inv, WorkInv, Holds
    <2>2. Len(msgs[work[w].room]) + 1 \in Nat
      BY <2>1, FiniteSets DEF Inv
    <2>3. (interview /\ v.complete) \in BOOLEAN /\ (interview /\ v.end) \in BOOLEAN
      OBVIOUS
    <2>4. work' = [work EXCEPT ![w].step = "storing", ![w].seq = Len(msgs[work[w].room]) + 1,
                               ![w].complete = interview /\ v.complete,
                               ![w].end = interview /\ v.end]
      BY DEF BeginStore
    <2> HIDE DEF v, interview
    <2> QED
      BY <2>2, <2>3, <2>4
  <1> DEFINE job == [work[w] EXCEPT !.step = "storing", !.seq = n, !.complete = c, !.end = e]
  <1>2. work[w] \in Work
    BY DEF Inv, TypeInv
  <1>3. /\ job \in Work /\ job.step = "storing" /\ job.room = work[w].room
        /\ job.msg = work[w].msg /\ job.limit = work[w].limit
        /\ job.complete = c /\ job.end = e
    BY <1>2 DEF Work
  <1>4. work' = [work EXCEPT ![w] = job]
    BY <1>1
  <1>5. /\ work[w].step = "executing" /\ Mine(w).reply = "processing" /\ Mine(w).holder = w
        /\ UNCHANGED <<room, msgs, open, evals, achieved, results, side>>
    BY DEF BeginStore, IsCurrent
  <1>6. Holds(w)
    BY <1>5 DEF Inv, WorkInv
  <1>7. e => /\ interview
             /\ \/ Mine(w).question = NoQuestion
                \/ work[w].limit
                \/ c /\ Mine(w).question = Questions[work[w].room]
    <2>1. SUFFICES ASSUME interview, v.end
                   PROVE  \/ Mine(w).question = NoQuestion
                          \/ work[w].limit
                          \/ c /\ Mine(w).question = Questions[work[w].room]
      BY <1>1
    <2>2. \/ Mine(w).question = NoQuestion
          \/ work[w].limit
          \/ v.complete /\ Mine(w).question = Questions[work[w].room]
      BY <2>1, VerdictEnds
    <2> QED
      BY <1>1, <2>1, <2>2
  <1> HIDE DEF job, v
  <1>8. Holds(w)'
    <2>1. work'[w] = job
      BY <1>4 DEF Inv, TypeInv
    <2>2. Mine(w)' = Mine(w)
      BY <1>3, <1>5, <2>1 DEF Mine
    <2>3. /\ work'[w].room \in Room /\ work'[w].msg \in UserMessages(work[w].room)'
          /\ work'[w].limit => LimitUsed(work[w].room)'
      BY <1>3, <1>5, <1>6, <2>1 DEF Holds, UserMessages, LimitUsed, Answers
    <2>4. work'[w].end => EndEarned(w)'
      <3>1. SUFFICES ASSUME e PROVE EndEarned(w)'
        BY <1>3, <2>1
      <3> QED
        BY <1>3, <1>7, <2>1, <2>2, <3>1 DEF EndEarned
    <2> QED
      BY <1>5, <2>2, <2>3, <2>4 DEF Holds
  <1> QED
    BY <1>3, <1>4, <1>5, <1>8, HandStep

\* A message is added to one room, whose earlier messages are those of s.
LEMMA AppendedMessages ==
    ASSUME TypeInv, NEW r \in Room, NEW s \in Seq(Message(r)), Len(s) = Len(msgs[r]),
           NEW m \in Message(r), msgs' = [msgs EXCEPT ![r] = Append(s, m)]
    PROVE  /\ MsgsType'
           /\ \A x \in Room : x # r => msgs'[x] = msgs[x]
           /\ DOMAIN msgs'[r] = DOMAIN msgs[r] \cup {Len(msgs[r]) + 1}
           /\ Len(msgs[r]) + 1 \notin DOMAIN msgs[r]
           /\ \A j \in DOMAIN msgs[r] : msgs'[r][j] = s[j]
           /\ msgs'[r][Len(msgs[r]) + 1] = m
  <1> DEFINE t == Append(s, m)
  <1>1. /\ t \in Seq(Message(r)) /\ Len(t) = Len(s) + 1
        /\ \A j \in 1 .. Len(s) : t[j] = s[j]
        /\ t[Len(s) + 1] = m
    BY AppendProperties
  <1>2. DOMAIN msgs[r] = 1 .. Len(msgs[r]) /\ Len(msgs[r]) \in Nat
    BY FiniteSets
  <1>3. DOMAIN t = 1 .. Len(t)
    BY <1>1, LenProperties
  <1> HIDE DEF t
  <1>4. \A x \in Room : msgs'[x] = IF x = r THEN t ELSE msgs[x]
    BY DEF TypeInv, MsgsType, t
  <1>5. msgs' = [x \in Room |-> msgs'[x]]
    BY DEF TypeInv, MsgsType
  <1>6. MsgsType'
    BY <1>1, <1>4, <1>5 DEF TypeInv, MsgsType
  <1>7. 1 .. Len(msgs[r]) + 1 = (1 .. Len(msgs[r])) \cup {Len(msgs[r]) + 1}
    BY <1>2
  <1> QED
    BY <1>1, <1>2, <1>3, <1>4, <1>6, <1>7

LEMMA CommitMessageInv ==
    ASSUME Inv, NEW r \in Room, CommitMessage(r)
    PROVE  Inv'
  <1> DEFINE n == Len(msgs[r]) + 1
             a == IF open[r] = NoQuestion THEN 0 ELSE Cardinality(AnswersTo(r, open[r])) + 1
             m == [by |-> "user", replyTo |-> 0, question |-> open[r], attempt |-> a,
                   current |-> FALSE, reply |-> "queued", holder |-> Nobody]
  <1>1. /\ ~Unlocked(r) /\ open' = [open EXCEPT ![r] = Closed]
        /\ msgs' = [msgs EXCEPT ![r] = Append(msgs[r], m)]
        /\ UNCHANGED <<room, work, evals, achieved, results, side>>
    BY DEF CommitMessage, Inv, TypeInv, MsgsType
  <1>2. open[r] \in 0 .. Questions[r] /\ InProgress(r) /\ InTurn(r, open[r])
    <2>1. Questions[r] \in Nat
      BY PracticeRoomAssumption
    <2> QED
      BY <1>1, <2>1 DEF Inv, TypeInv, OpenInv, Unlocked, Closed
  <1>3. a \in Nat
    <2>1. AnswersTo(r, open[r]) \in SUBSET DOMAIN msgs[r]
      BY DEF AnswersTo, UserMessages
    <2>2. Cardinality(AnswersTo(r, open[r])) \in Nat
      BY <2>1, FiniteSets DEF Inv
    <2> QED
      BY <2>2
  <1> HIDE DEF a
  <1>4. m \in Message(r)
    BY <1>2, <1>3 DEF Message
  <1>5. m.by = "user" /\ m.question = open[r] /\ m.current = FALSE
    OBVIOUS
  <1> HIDE DEF m
  <1>6. /\ MsgsType'
        /\ \A x \in Room : x # r => msgs'[x] = msgs[x]
        /\ DOMAIN msgs'[r] = DOMAIN msgs[r] \cup {n} /\ n \notin DOMAIN msgs[r]
        /\ \A j \in DOMAIN msgs[r] : msgs'[r][j] = msgs[r][j]
        /\ msgs'[r][n] = m
    <2>1. TypeInv /\ msgs[r] \in Seq(Message(r))
      BY DEF Inv, TypeInv, MsgsType
    <2> QED
      BY <1>1, <1>4, <2>1, AppendedMessages
  <1>7. \A x \in Room : open'[x] = IF x = r THEN Closed ELSE open[x]
    BY <1>1 DEF Inv, TypeInv
  <1> HIDE DEF n
  <1>8. \A x \in Room : /\ DOMAIN msgs[x] \subseteq DOMAIN msgs'[x]
                        /\ \A j \in DOMAIN msgs[x] : msgs'[x][j] = msgs[x][j]
    BY <1>6
  <1>9. Grows
    BY <1>8 DEF Grows
  <1>10. TypeInv'
    <2>1. \A x \in Room : Questions[x] \in Nat
      BY PracticeRoomAssumption
    <2>2. open' \in [Room -> Int] /\ \A x \in Room : open'[x] \in Closed .. Questions[x]
      BY <1>1, <1>7, <2>1 DEF Inv, TypeInv, Closed
    <2> QED
      BY <1>1, <1>6, <2>2 DEF Inv, TypeInv
  <1>11. \A x \in Room : \A q : InTurn(x, q) => InTurn(x, q)'
    BY <1>9, <1>10, GrowsSets DEF Inv
  <1>12. MessagesInv'
    <2>1. SUFFICES ASSUME NEW x \in Room, NEW j \in DOMAIN msgs'[x]
                   PROVE  MessageInv(x, j)'
      BY DEF MessagesInv
    <2>2. CASE j \in DOMAIN msgs[x]
      BY <1>8, <1>11, <2>2 DEF Inv, MessagesInv, MessageInv
    <2>3. CASE j \notin DOMAIN msgs[x]
      <3>1. x = r /\ j = n
        BY <1>6, <2>1, <2>3
      <3>2. InTurn(r, open[r])
        BY <1>2
      <3>3. msgs'[x][j] = m
        BY <1>6, <3>1
      <3>4. PICK q : q = open[r]
        OBVIOUS
      <3>5. InTurn(r, q)'
        BY <1>11, <3>2, <3>4
      <3>6. msgs'[x][j].question = q /\ msgs'[x][j].current = FALSE
        BY <1>5, <3>3, <3>4
      <3> QED
        BY <3>1, <3>5, <3>6 DEF MessageInv, InTurn
    <2> QED
      BY <2>2, <2>3
  <1>13. \A x \in Room : Replies(x)' = Replies(x)
    <2>1. SUFFICES ASSUME NEW x \in Room PROVE Replies(x)' = Replies(x)
      OBVIOUS
    <2>2. CASE x = r
      BY <1>5, <1>6, <2>2 DEF Replies
    <2>3. CASE x # r
      BY <1>6, <2>3 DEF Replies
    <2> QED
      BY <2>2, <2>3
  <1>14. OneReplyPerMessage'
    <2>1. SUFFICES ASSUME NEW x \in Room
          PROVE /\ room'[x].turns = Cardinality(Replies(x)')
                /\ \A i, j \in Replies(x)' :
                      msgs'[x][i].replyTo = msgs'[x][j].replyTo => i = j
                /\ \A i \in Replies(x)' :
                      /\ msgs'[x][i].replyTo \in 1 .. i - 1
                      /\ msgs'[x][msgs'[x][i].replyTo].reply = "succeeded"
      BY DEF OneReplyPerMessage
    <2>4. /\ room[x].turns = Cardinality(Replies(x))
          /\ \A i, j \in Replies(x) : msgs[x][i].replyTo = msgs[x][j].replyTo => i = j
          /\ \A i \in Replies(x) : /\ i \in DOMAIN msgs[x]
                                   /\ msgs[x][i].replyTo \in DOMAIN msgs[x]
                                   /\ msgs[x][i].replyTo \in 1 .. i - 1
                                   /\ msgs[x][msgs[x][i].replyTo].reply = "succeeded"
      BY RepliesFollow
    <2>5. \A i \in DOMAIN msgs[x] : msgs'[x][i] = msgs[x][i]
      BY <1>8
    <2>6. Replies(x)' = Replies(x) /\ room' = room
      BY <1>1, <1>13
    <2> QED
      BY <2>4, <2>5, <2>6
  <1>15. QuestionsInOrder'
    <2>1. SUFFICES ASSUME NEW x \in Room, NEW i \in Answers(x)', NEW j \in Answers(x)',
                          msgs'[x][i].current
          PROVE /\ msgs'[x][j].current /\ msgs'[x][i].question = msgs'[x][j].question
                      => i = j
                /\ \A q \in 1 .. msgs'[x][i].question - 1 : Answered(x, q)'
      BY DEF QuestionsInOrder
    <2>2. \A k \in Answers(x)' : msgs'[x][k].current => k \in Answers(x)
      BY <1>5, <1>6, <1>8 DEF Answers, UserMessages
    <2>3. \A k \in Answers(x) : msgs'[x][k] = msgs[x][k]
      BY <1>8 DEF Answers, UserMessages
    <2>4. \A q : Answered(x, q) => Answered(x, q)'
      BY <1>9, <1>10, GrowsSets DEF Inv
    <2> QED
      BY <2>1, <2>2, <2>3, <2>4 DEF Inv, QuestionsInOrder
  <1>16. RoomsInv' /\ OneResult' /\ AwaitingEndIsEarned'
    BY <1>1, <1>9, <1>10, RoomsStay, AwaitingStays
  <1>17. OpenInv'
    <2>1. ASSUME NEW x \in Room PROVE ~Unlocked(x)' => InProgress(x)' /\ InTurn(x, open[x])'
      <3>1. CASE x = r
        BY <1>7, <3>1 DEF Unlocked
      <3>2. CASE x # r
        <4>1. ~Unlocked(x) => InProgress(x)'
          BY <1>1 DEF Inv, OpenInv, InProgress
        <4> QED
          BY <1>7, <1>9, <1>10, <3>2, <4>1, OpenStays
      <3> QED
        BY <3>1, <3>2
    <2> QED
      BY <2>1 DEF OpenInv
  <1>18. WorkInv'
    <2>1. ASSUME NEW w \in Worker PROVE work'[w].step # "idle" => Holds(w)'
      <3>1. ASSUME work[w].step = "storing" PROVE Mine(w)' = Mine(w)
        BY <1>1, <1>8, <3>1 DEF Mine, Inv, WorkInv, Holds, UserMessages
      <3> QED
        BY <1>1, <1>9, <1>10, <3>1, WorkStays
    <2> QED
      BY <2>1 DEF WorkInv
  <1> QED
    BY <1>10, <1>12, <1>14, <1>15, <1>16, <1>17, <1>18 DEF Inv

-------------------------------------------------------------------------------
\* The reply is stored.

\* What StoreReply does to the messages, for the worker w with message i of room r in
\* hand: i is answered, for its question if c, and the reply follows the last message.
Stored(w, r, i, n, c) ==
    /\ work[w].room = r /\ work[w].msg = i /\ work[w].complete = c
    /\ i \in UserMessages(r) /\ i \in DOMAIN msgs[r]
    /\ msgs[r][i].reply = "processing" /\ msgs[r][i].holder = w
    /\ c /\ msgs[r][i].question # NoQuestion => ~Answered(r, msgs[r][i].question)
    /\ MsgsType'
    /\ n \in Nat /\ DOMAIN msgs[r] = 1 .. n - 1 /\ n \notin DOMAIN msgs[r]
    /\ DOMAIN msgs'[r] = DOMAIN msgs[r] \cup {n}
    /\ \A x \in Room : x # r => msgs'[x] = msgs[x]
    /\ \A j \in DOMAIN msgs[r] :
          /\ j # i => msgs'[r][j] = msgs[r][j]
          /\ msgs'[r][j].by = msgs[r][j].by
          /\ msgs'[r][j].replyTo = msgs[r][j].replyTo
          /\ msgs'[r][j].question = msgs[r][j].question
    /\ msgs'[r][i].reply = "succeeded" /\ msgs'[r][i].current = c
    /\ msgs'[r][n].by = "persona" /\ msgs'[r][n].replyTo = i
    /\ msgs'[r][n].current = FALSE /\ msgs'[r][n].question = NoQuestion

LEMMA StoreReplyStored ==
    ASSUME Inv, NEW w \in Worker, StoreReply(w)
    PROVE  \E r \in Room, i \in Nat, n \in Nat, c \in BOOLEAN : Stored(w, r, i, n, c)
  <1>1. Holds(w) /\ work[w].step = "storing"
    BY DEF StoreReply, Inv, WorkInv
  <1>2. PICK r \in Room : r = work[w].room
    BY <1>1 DEF Holds
  <1>3. PICK i \in UserMessages(r) :
           i = work[w].msg /\ i \in DOMAIN msgs[r] /\ Mine(w) = msgs[r][i]
    BY <1>1, <1>2 DEF Holds, UserMessages, Mine
  <1>4. PICK c \in BOOLEAN : c = work[w].complete
    BY DEF Inv, TypeInv, Work
  <1> DEFINE n == Len(msgs[r]) + 1
             b == [msgs[r][i] EXCEPT !.reply = "succeeded", !.current = c]
             s == [msgs[r] EXCEPT ![i] = b]
             m == [by |-> "persona", replyTo |-> i, question |-> NoQuestion, attempt |-> 0,
                   current |-> FALSE, reply |-> "none", holder |-> Nobody]
  <1>5. msgs[r] \in Seq(Message(r)) /\ TypeInv
    BY DEF Inv, TypeInv, MsgsType
  <1>6. /\ DOMAIN msgs[r] = 1 .. Len(msgs[r]) /\ Len(msgs[r]) \in Nat /\ i \in Nat
        /\ msgs[r][i] \in Message(r)
    BY <1>3, <1>5, FiniteSets
  <1>7. /\ b \in Message(r) /\ b.reply = "succeeded" /\ b.current = c
        /\ b.by = msgs[r][i].by /\ b.replyTo = msgs[r][i].replyTo
        /\ b.question = msgs[r][i].question
    BY <1>6 DEF Message
  <1>8. /\ m \in Message(r) /\ m.by = "persona" /\ m.replyTo = i /\ m.current = FALSE
        /\ m.question = NoQuestion
    <2>1. Questions[r] \in Nat
      BY PracticeRoomAssumption
    <2> QED
      BY <1>6, <2>1 DEF Message, NoQuestion
  <1>9. msgs' = [msgs EXCEPT ![r] = Append(s, m)]
    <2>1. s = [msgs[r] EXCEPT ![i].reply = "succeeded", ![i].current = c]
      BY <1>3, <1>5, <1>6
    <2>2. msgs' = [msgs EXCEPT ![r] = Append(
             [msgs[r] EXCEPT ![i].reply = "succeeded", ![i].current = c], m)]
      BY <1>2, <1>3, <1>4 DEF StoreReply, Inv, TypeInv, MsgsType
    <2> QED
      BY <2>1, <2>2
  <1> HIDE DEF b, m
  <1>10. /\ s \in Seq(Message(r)) /\ Len(s) = Len(msgs[r])
         /\ \A j \in 1 .. Len(msgs[r]) : s[j] = IF j = i THEN b ELSE msgs[r][j]
    BY <1>3, <1>5, <1>6, <1>7, ExceptSeq
  <1> HIDE DEF s
  <1>11. /\ MsgsType'
         /\ \A x \in Room : x # r => msgs'[x] = msgs[x]
         /\ DOMAIN msgs'[r] = DOMAIN msgs[r] \cup {n} /\ n \notin DOMAIN msgs[r]
         /\ \A j \in DOMAIN msgs[r] : msgs'[r][j] = s[j]
         /\ msgs'[r][n] = m
    BY <1>5, <1>8, <1>9, <1>10, AppendedMessages
  <1>12. n \in Nat /\ DOMAIN msgs[r] = 1 .. n - 1
    BY <1>6
  <1> HIDE DEF n
  <1>13. /\ msgs[r][i].reply = "processing" /\ msgs[r][i].holder = w
    BY <1>1, <1>3 DEF Holds
  <1>14. c /\ msgs[r][i].question # NoQuestion => ~Answered(r, msgs[r][i].question)
    <2>1. ~SecondCurrent(w)
      BY DEF StoreReply
    <2> QED
      BY <1>2, <1>3, <1>4, <2>1 DEF SecondCurrent
  <1>15. \A j \in DOMAIN msgs[r] :
            /\ j # i => msgs'[r][j] = msgs[r][j]
            /\ msgs'[r][j].by = msgs[r][j].by
            /\ msgs'[r][j].replyTo = msgs[r][j].replyTo
            /\ msgs'[r][j].question = msgs[r][j].question
    BY <1>6, <1>7, <1>10, <1>11
  <1>16. msgs'[r][i].reply = "succeeded" /\ msgs'[r][i].current = c
    BY <1>3, <1>6, <1>7, <1>10, <1>11
  <1>17. Stored(w, r, i, n, c)
    BY <1>2, <1>3, <1>4, <1>8, <1>11, <1>12, <1>13, <1>14, <1>15, <1>16 DEF Stored
  <1> QED
    BY <1>6, <1>12, <1>17

LEMMA StoredGrows ==
    ASSUME Inv, NEW w, NEW r \in Room, NEW i, NEW n, NEW c, Stored(w, r, i, n, c)
    PROVE  Grows
  <1>1. msgs[r][i].current => msgs'[r][i].current
    BY DEF Stored, Inv, MessagesInv, MessageInv
  <1> QED
    BY <1>1 DEF Stored, Grows

LEMMA StoredMessages ==
    ASSUME Inv, TypeInv', NEW w, NEW r \in Room, NEW i, NEW n, NEW c, Stored(w, r, i, n, c)
    PROVE  MessagesInv'
  <1>1. Grows
    BY StoredGrows
  <1>2. SUFFICES ASSUME NEW x \in Room, NEW j \in DOMAIN msgs'[x] PROVE MessageInv(x, j)'
    BY DEF MessagesInv
  <1>3. \A q : InTurn(x, q) => InTurn(x, q)'
    BY <1>1, GrowsSets DEF Inv
  <1>4. CASE j \in DOMAIN msgs[x]
    <2>1. MessageInv(x, j)
      BY <1>4 DEF Inv, MessagesInv
    <2>2. msgs'[x][j].current => msgs'[x][j].reply = "succeeded"
      <3>1. CASE x = r /\ j = i
        BY <3>1 DEF Stored
      <3>2. CASE ~(x = r /\ j = i)
        <4>1. msgs'[x][j] = msgs[x][j]
          BY <1>4, <3>2 DEF Stored
        <4> QED
          BY <2>1, <4>1 DEF MessageInv
      <3> QED
        BY <3>1, <3>2
    <2>3. /\ msgs'[x][j].by = msgs[x][j].by
          /\ msgs'[x][j].question = msgs[x][j].question
      BY <1>1, <1>4 DEF Grows
    <2> QED
      BY <1>3, <2>1, <2>2, <2>3 DEF MessageInv
  <1>5. CASE j \notin DOMAIN msgs[x]
    <2>1. x = r /\ j = n
      BY <1>2, <1>5 DEF Stored
    <2> QED
      BY <2>1 DEF Stored, MessageInv
  <1> QED
    BY <1>4, <1>5

LEMMA StoredReplies ==
    ASSUME Inv, TypeInv', NEW w, NEW r \in Room, NEW i, NEW n, NEW c,
           Stored(w, r, i, n, c),
           \A x \in Room : room'[x].turns = IF x = r THEN room[x].turns + 1
                                            ELSE room[x].turns
    PROVE  OneReplyPerMessage'
  <1>1. SUFFICES ASSUME NEW x \in Room
        PROVE /\ room'[x].turns = Cardinality(Replies(x)')
              /\ \A j, k \in Replies(x)' :
                    msgs'[x][j].replyTo = msgs'[x][k].replyTo => j = k
              /\ \A j \in Replies(x)' :
                    /\ msgs'[x][j].replyTo \in 1 .. j - 1
                    /\ msgs'[x][msgs'[x][j].replyTo].reply = "succeeded"
    BY DEF OneReplyPerMessage
  <1>2. /\ room[x].turns = Cardinality(Replies(x))
        /\ \A j, k \in Replies(x) : msgs[x][j].replyTo = msgs[x][k].replyTo => j = k
        /\ \A j \in Replies(x) : /\ j \in DOMAIN msgs[x]
                                 /\ msgs[x][j].replyTo \in DOMAIN msgs[x]
                                 /\ msgs[x][j].replyTo \in 1 .. j - 1
                                 /\ msgs[x][msgs[x][j].replyTo].reply = "succeeded"
    BY RepliesFollow
  <1>3. \A j \in DOMAIN msgs[x] :
           /\ msgs'[x][j].replyTo = msgs[x][j].replyTo
           /\ msgs[x][j].reply = "succeeded" => msgs'[x][j].reply = "succeeded"
    BY StoredGrows DEF Grows
  <1>4. CASE x # r
    <2>1. Replies(x)' = Replies(x)
      BY <1>4 DEF Stored, Replies
    <2> QED
      BY <1>2, <1>3, <1>4, <2>1
  <1>5. CASE x = r
    <2>1. Replies(x)' = Replies(x) \cup {n} /\ n \notin Replies(x)
      BY <1>5 DEF Stored, Replies
    <2>2. room'[x].turns = Cardinality(Replies(x)')
      <3>1. Replies(x) \in SUBSET DOMAIN msgs[x]
        BY DEF Replies
      <3>2. IsFiniteSet(Replies(x)) /\ Cardinality(Replies(x)) \in Nat
        BY <3>1, FiniteSets DEF Inv
      <3>3. Cardinality(Replies(x) \cup {n}) = Cardinality(Replies(x)) + 1
        BY <2>1, <3>2, FS_AddElement
      <3> QED
        BY <1>2, <1>5, <2>1, <3>3
    <2>3. /\ msgs'[x][n].replyTo = i /\ i \in DOMAIN msgs[x] /\ i \in 1 .. n - 1
          /\ msgs[x][i].reply = "processing" /\ msgs'[x][i].reply = "succeeded"
      BY <1>5 DEF Stored
    <2>4. \A j \in Replies(x) : msgs[x][j].replyTo # i
      BY <1>2, <2>3
    <2> QED
      BY <1>2, <1>3, <2>1, <2>2, <2>3, <2>4
  <1> QED
    BY <1>4, <1>5

LEMMA StoredQuestions ==
    ASSUME Inv, TypeInv', NEW w, NEW r \in Room, NEW i, NEW n, NEW c,
           Stored(w, r, i, n, c)
    PROVE  QuestionsInOrder'
  <1>1. SUFFICES ASSUME NEW x \in Room, NEW j \in Answers(x)', NEW k \in Answers(x)',
                        msgs'[x][j].current
        PROVE /\ msgs'[x][k].current /\ msgs'[x][j].question = msgs'[x][k].question
                    => j = k
              /\ \A q \in 1 .. msgs'[x][j].question - 1 : Answered(x, q)'
    BY DEF QuestionsInOrder
  <1>2. Grows
    BY StoredGrows
  <1>3. /\ \A q : Answered(x, q) => Answered(x, q)'
        /\ \A q : InTurn(x, q) => InTurn(x, q)'
    BY <1>2, GrowsSets DEF Inv
  <1>4. Answers(x)' = Answers(x)
    <2>1. CASE x = r
      BY <2>1 DEF Stored, Answers, UserMessages
    <2>2. CASE x # r
      BY <2>2 DEF Stored, Answers, UserMessages
    <2> QED
      BY <2>1, <2>2
  <1>5. \A a \in Answers(x) :
           /\ a \in DOMAIN msgs[x] /\ msgs[x][a].by = "user"
           /\ msgs[x][a].question # NoQuestion
           /\ msgs'[x][a].question = msgs[x][a].question
           /\ a \in AnswersTo(x, msgs[x][a].question)
    BY <1>2 DEF Answers, UserMessages, AnswersTo, Grows
  <1>6. \A q \in 1 .. msgs'[x][j].question - 1 : Answered(x, q)'
    <2>1. MessageInv(x, j)'
      BY <1>1, StoredMessages DEF MessagesInv, Answers, UserMessages
    <2>2. msgs'[x][j].by = "user"
      BY <1>1 DEF Answers, UserMessages
    <2> QED
      BY <2>1, <2>2 DEF MessageInv, InTurn
  <1>7. ASSUME msgs'[x][k].current, msgs'[x][j].question = msgs'[x][k].question, j # k
        PROVE  FALSE
    <2>1. CASE x # r \/ (j # i /\ k # i)
      <3>1. msgs'[x][j] = msgs[x][j] /\ msgs'[x][k] = msgs[x][k]
        BY <1>4, <1>5, <2>1 DEF Stored
      <3> QED
        BY <1>1, <1>4, <1>7, <3>1 DEF Inv, QuestionsInOrder
    <2>2. ASSUME x = r, NEW a \in Answers(x), a # i, msgs'[x][a].current, i \in Answers(x),
                 msgs'[x][i].current, msgs'[x][a].question = msgs'[x][i].question
          PROVE  FALSE
      <3>1. msgs'[x][a] = msgs[x][a] /\ c
        BY <1>5, <2>2 DEF Stored
      <3>2. Answered(x, msgs[x][i].question)
        BY <1>5, <2>2, <3>1 DEF Answered
      <3> QED
        BY <1>5, <2>2, <3>1, <3>2 DEF Stored
    <2> QED
      BY <1>1, <1>4, <1>7, <2>1, <2>2
  <1> QED
    BY <1>6, <1>7

\* The room of a reply that is stored: its turn is counted, the last turn of a scenario
\* completes it with a result, and otherwise an interview may wait to be closed.
LEMMA StoreReplyRoom ==
    ASSUME Inv, NEW w \in Worker, StoreReply(w), NEW r \in Room, r = work[w].room
    PROVE  /\ room' \in [Room -> RoomRecord] /\ results' \in [Room -> Nat]
           /\ \A x \in Room : x # r => room'[x] = room[x] /\ results'[x] = results[x]
           /\ room'[r].turns = room[r].turns + 1
           /\ room'[r].dismissed = room[r].dismissed
           /\ \/ /\ room'[r].status = "completed" /\ room'[r].ended = "completed"
                 /\ results'[r] = results[r] + 1
              \/ /\ room'[r].status = room[r].status /\ results'[r] = results[r]
                 /\ \/ room'[r].ended = room[r].ended
                    \/ work[w].end /\ room'[r].ended = "awaiting_user_end"
  <1>1. room[r] \in RoomRecord /\ room \in [Room -> RoomRecord] /\ results \in [Room -> Nat]
    BY DEF Inv, TypeInv
  <1>2. CASE LastTurn(r)
    <2> DEFINE k == [Ended(r) EXCEPT !.turns = @ + 1]
    <2>1. room' = [room EXCEPT ![r] = k] /\ results' = [results EXCEPT ![r] = @ + 1]
      BY <1>2 DEF StoreReply
    <2>2. /\ k \in RoomRecord /\ k.status = "completed" /\ k.ended = "completed"
          /\ k.turns = room[r].turns + 1 /\ k.dismissed = room[r].dismissed
      <3>1. /\ Ended(r) \in RoomRecord
            /\ Ended(r).status = "completed" /\ Ended(r).ended = "completed"
            /\ Ended(r).turns = room[r].turns /\ Ended(r).dismissed = room[r].dismissed
        BY <1>1 DEF Ended, RoomRecord
      <3> QED
        BY <3>1 DEF RoomRecord
    <2> HIDE DEF k
    <2>3. \A x \in Room : /\ room'[x] = IF x = r THEN k ELSE room[x]
                          /\ results'[x] = IF x = r THEN results[x] + 1 ELSE results[x]
      BY <1>1, <2>1
    <2>4. room' \in [Room -> RoomRecord] /\ results' \in [Room -> Nat]
      BY <1>1, <2>1, <2>2
    <2> QED
      BY <2>2, <2>3, <2>4
  <1>3. CASE ~LastTurn(r)
    <2> DEFINE e == IF work[w].end THEN "awaiting_user_end" ELSE room[r].ended
               k == [room[r] EXCEPT !.turns = @ + 1, !.ended = e]
    <2>1. room' = [room EXCEPT ![r] = k] /\ results' = results
      BY <1>1, <1>3 DEF StoreReply
    <2>2. /\ k \in RoomRecord /\ k.status = room[r].status /\ k.ended = e
          /\ k.turns = room[r].turns + 1 /\ k.dismissed = room[r].dismissed
      <3>1. e \in {"none", "awaiting_user_end", "goal_achieved", "completed"}
        BY <1>1 DEF RoomRecord
      <3>2. room[r].turns \in Nat /\ room[r].turns + 1 \in Nat
        BY <1>1 DEF RoomRecord
      <3> HIDE DEF e
      <3>3. k = [room[r] EXCEPT !.turns = room[r].turns + 1, !.ended = e]
        OBVIOUS
      <3>4. k \in RoomRecord /\ k.ended = e
        BY <1>1, <3>1, <3>2, <3>3 DEF RoomRecord
      <3>5. /\ k.status = room[r].status /\ k.dismissed = room[r].dismissed
            /\ k.turns = room[r].turns + 1
        BY <1>1, <3>2, <3>3 DEF RoomRecord
      <3> QED
        BY <3>4, <3>5
    <2> HIDE DEF k
    <2>3. \A x \in Room : room'[x] = IF x = r THEN k ELSE room[x]
      BY <1>1, <2>1
    <2>4. room' \in [Room -> RoomRecord]
      BY <1>1, <2>1, <2>2
    <2> QED
      BY <1>1, <2>1, <2>2, <2>3, <2>4
  <1> QED
    BY <1>2, <1>3

LEMMA StoreReplyType ==
    ASSUME Inv, NEW w \in Worker, StoreReply(w), MsgsType',
           room' \in [Room -> RoomRecord], results' \in [Room -> Nat]
    PROVE  TypeInv'
  <1>1. Idle \in Work
    BY DEF Idle, Work
  <1>2. work' \in [Worker -> Work]
    BY <1>1 DEF StoreReply, Inv, TypeInv
  <1>3. evals' \in [Room -> [1 .. MaxMessages -> {"none", "processing", "ended"}]]
    <2>1. CASE evals' = evals
      BY <2>1 DEF Inv, TypeInv
    <2>2. CASE evals' # evals
      <3>1. evals' = [evals EXCEPT
               ![work[w].room][room[work[w].room].turns + 1] = "processing"]
        BY <2>2 DEF StoreReply
      <3> QED
        BY <3>1 DEF Inv, TypeInv
    <2> QED
      BY <2>1, <2>2
  <1>4. side' \in Nat
    BY DEF StoreReply, Inv, TypeInv
  <1>5. open' = open /\ achieved' = achieved
    BY DEF StoreReply
  <1> QED
    BY <1>2, <1>3, <1>4, <1>5 DEF Inv, TypeInv

LEMMA StoreReplyInv ==
    ASSUME Inv, NEW w \in Worker, StoreReply(w)
    PROVE  Inv'
  <1>1. PICK r \in Room, i \in Nat, n \in Nat, c \in BOOLEAN : Stored(w, r, i, n, c)
    BY StoreReplyStored
  <1>2. r = work[w].room /\ i = work[w].msg /\ c = work[w].complete
    BY <1>1 DEF Stored
  <1>3. /\ room' \in [Room -> RoomRecord] /\ results' \in [Room -> Nat]
        /\ \A x \in Room : x # r => room'[x] = room[x] /\ results'[x] = results[x]
        /\ room'[r].turns = room[r].turns + 1
        /\ room'[r].dismissed = room[r].dismissed
        /\ \/ /\ room'[r].status = "completed" /\ room'[r].ended = "completed"
              /\ results'[r] = results[r] + 1
           \/ /\ room'[r].status = room[r].status /\ results'[r] = results[r]
              /\ \/ room'[r].ended = room[r].ended
                 \/ work[w].end /\ room'[r].ended = "awaiting_user_end"
    BY <1>2, StoreReplyRoom
  <1>4. TypeInv'
    BY <1>1, <1>3, StoreReplyType DEF Stored
  <1>5. Grows
    BY <1>1, StoredGrows
  <1>6. MessagesInv' /\ QuestionsInOrder'
    BY <1>1, <1>4, StoredMessages, StoredQuestions
  <1>7. OneReplyPerMessage'
    BY <1>1, <1>3, <1>4, StoredReplies
  <1>8. room[r] \in RoomRecord /\ InProgress(r) /\ Unlocked(r) /\ open' = open
    BY <1>2 DEF StoreReply, Inv, TypeInv
  <1>9. RoomsInv' /\ OneResult'
    <2>1. ASSUME NEW x \in Room
          PROVE  /\ RoomInv(x)'
                 /\ results'[x] = IF room'[x].status = "in_progress" \/ room'[x].turns = 0
                                  THEN 0 ELSE 1
      <3>1. RoomInv(x) /\ results[x] = IF room[x].status = "in_progress" \/ room[x].turns = 0
                                       THEN 0 ELSE 1
        BY DEF Inv, RoomsInv, OneResult, InProgress
      <3>2. CASE x # r
        BY <1>3, <3>1, <3>2 DEF RoomInv
      <3>3. CASE x = r
        BY <1>3, <1>8, <3>1, <3>3 DEF RoomInv, InProgress, RoomRecord
      <3> QED
        BY <3>2, <3>3
    <2> QED
      BY <2>1 DEF RoomsInv, OneResult, InProgress
  <1>10. AwaitingEndIsEarned'
    <2>1. SUFFICES ASSUME NEW x \in Room, room'[x].ended = "awaiting_user_end"
                   PROVE  AllAnswered(x)' \/ LimitUsed(x)'
      BY DEF AwaitingEndIsEarned, AllAnswered, LimitUsed
    <2>2. (AllAnswered(x) => AllAnswered(x)') /\ (LimitUsed(x) => LimitUsed(x)')
      BY <1>4, <1>5, GrowsSets DEF Inv
    <2>3. CASE room[x].ended = "awaiting_user_end"
      BY <2>2, <2>3 DEF Inv, AwaitingEndIsEarned, AllAnswered, LimitUsed
    <2>4. CASE room[x].ended # "awaiting_user_end"
      <3>1. x = r /\ work[w].end
        BY <1>3, <2>1, <2>4
      <3>2. Holds(w) /\ work[w].step = "storing"
        BY DEF StoreReply, Inv, WorkInv
      <3>3. EndEarned(w) /\ Mine(w) = msgs[r][i]
        BY <1>2, <3>1, <3>2 DEF Holds, Mine
      <3>4. i \in DOMAIN msgs[r] /\ msgs[r][i].by = "user"
        BY <1>1 DEF Stored, UserMessages
      <3>5. InTurn(r, msgs[r][i].question)
        BY <3>4 DEF Inv, MessagesInv, MessageInv
      <3>6. CASE msgs[r][i].question = NoQuestion
        BY <1>2, <2>2, <3>1, <3>3, <3>5, <3>6 DEF EndEarned, InTurn
      <3>7. CASE work[w].limit
        BY <1>2, <2>2, <3>1, <3>2, <3>7 DEF Holds
      <3>8. CASE c /\ msgs[r][i].question = Questions[r]
        <4>1. Questions[r] \in Nat
          BY PracticeRoomAssumption
        <4>2. \A p \in 1 .. Questions[r] - 1 : Answered(r, p)'
          BY <1>4, <1>5, <3>5, <3>8, GrowsSets DEF Inv, InTurn
        <4>3. Answered(r, Questions[r])'
          <5>1. /\ i \in DOMAIN msgs'[r] /\ msgs'[r][i].by = "user"
                /\ msgs'[r][i].question = Questions[r] /\ msgs'[r][i].current
            BY <1>1, <3>4, <3>8 DEF Stored
          <5> QED
            BY <5>1 DEF Answered, AnswersTo, UserMessages
        <4>4. AllAnswered(r)'
          <5>1. ASSUME NEW p \in 1 .. Questions[r] PROVE Answered(r, p)'
            <6>1. p = Questions[r] \/ p \in 1 .. Questions[r] - 1
              BY <4>1
            <6> QED
              BY <4>2, <4>3, <6>1
          <5> QED
            BY <5>1 DEF AllAnswered
        <4> QED
          BY <3>1, <4>4
      <3> QED
        BY <1>2, <3>3, <3>6, <3>7, <3>8 DEF EndEarned
    <2> QED
      BY <2>3, <2>4
  <1>11. OpenInv'
    <2>1. ASSUME NEW x \in Room PROVE ~Unlocked(x)' => InProgress(x)' /\ InTurn(x, open[x])'
      <3>1. CASE x = r
        BY <1>8, <3>1 DEF Unlocked
      <3>2. CASE x # r
        <4>1. ~Unlocked(x) => InProgress(x)'
          BY <1>3, <3>2 DEF Inv, OpenInv, InProgress
        <4> QED
          BY <1>4, <1>5, <1>8, <4>1, OpenStays
      <3> QED
        BY <3>1, <3>2
    <2> QED
      BY <2>1 DEF OpenInv
  <1>12. WorkInv'
    <2>1. \A v \in Worker : work'[v] = IF v = w THEN Idle ELSE work[v]
      BY DEF StoreReply, Inv, TypeInv
    <2>2. Idle.step = "idle"
      BY DEF Idle
    <2>3. ASSUME NEW v \in Worker, v # w, work[v].step = "storing"
          PROVE  Mine(v)' = Mine(v)
      <3>1. Holds(v)
        BY <2>3 DEF Inv, WorkInv
      <3>2. work'[v] = work[v]
        BY <2>1, <2>3
      <3>3. ~(work[v].room = r /\ work[v].msg = i)
        BY <1>1, <2>3, <3>1 DEF Holds, Mine, Stored
      <3>4. msgs'[work[v].room][work[v].msg] = msgs[work[v].room][work[v].msg]
        BY <1>1, <3>1, <3>3 DEF Holds, Stored, UserMessages
      <3> QED
        BY <3>2, <3>4 DEF Mine
    <2> QED
      BY <1>4, <1>5, <2>1, <2>2, <2>3, WorkChanges
  <1> QED
    BY <1>4, <1>6, <1>7, <1>9, <1>10, <1>11, <1>12 DEF Inv

-------------------------------------------------------------------------------
\* The theorems

LEMMA NextInv ==
    ASSUME Inv, [Next]_vars
    PROVE  Inv'
  <1>1. ASSUME NEW r \in Room, NEW q \in 0 .. Questions[r], OpenMessage(r, q) PROVE Inv'
    BY <1>1, OpenMessageInv
  <1>2. ASSUME NEW r \in Room, \/ CommitMessage(r) \/ CompleteInterview(r)
                               \/ CompletePractice(r) \/ DismissGoalPrompt(r)
        PROVE  Inv'
    BY <1>2, CommitMessageInv, CompleteInterviewInv, CompletePracticeInv,
       DismissGoalPromptInv
  <1>3. ASSUME NEW r \in Room, NEW i \in DOMAIN msgs[r], RetryResponse(r, i) \/ Reap(r, i)
        PROVE  Inv'
    BY <1>3, RetryResponseInv, ReapInv
  <1>4. ASSUME NEW r \in Room, NEW t \in DOMAIN evals[r],
               \/ \E found \in SUBSET Condition : Evaluate(r, t, found)
               \/ EvaluationFails(r, t)
        PROVE  Inv'
    BY <1>4, EvaluateInv, EvaluationFailsInv
  <1>5. ASSUME NEW w \in Worker, NEW r \in Room, NEW i \in DOMAIN msgs[r],
               ClaimReply(w, r, i)
        PROVE  Inv'
    BY <1>5, ClaimReplyInv
  <1>6. ASSUME NEW w \in Worker,
               \/ \E says, evades \in BOOLEAN : BeginStore(w, says, evades)
               \/ DiscardReply(w) \/ StoreRaises(w) \/ StoreReply(w) \/ FailReply(w)
        PROVE  Inv'
    BY <1>6, BeginStoreInv, GiveUpInv, StoreReplyInv, FailReplyInv
  <1>7. CASE SideJobEnds
    BY <1>7, SideJobEndsInv
  <1>8. CASE UNCHANGED vars
    BY <1>8, StutterInv
  <1> QED
    BY <1>1, <1>2, <1>3, <1>4, <1>5, <1>6, <1>7, <1>8 DEF Next

LEMMA Invariance == Spec => []Inv
  <1>1. Init => Inv
    BY InitInv
  <1>2. Inv /\ [Next]_vars => Inv'
    BY NextInv
  <1> QED
    BY <1>1, <1>2, PTL DEF Spec

\* Every variable keeps its type.
THEOREM TypeCorrect == Spec => []TypeOK
  <1>1. Inv => TypeOK
    BY FiniteSets DEF Inv, TypeInv, TypeOK, RoomRecord, Message, Work
  <1> QED
    BY <1>1, Invariance, PTL

\* However replies are retried, reaped or given up, and however many workers store at
\* once, a message has at most one reply and the turns of a room are its replies.
THEOREM OneReplyPerMessageHolds == Spec => []OneReplyPerMessage
  <1>1. Inv => OneReplyPerMessage
    BY DEF Inv
  <1> QED
    BY <1>1, Invariance, PTL

\* Interviews of any length move through their questions in order, one current answer
\* each.
THEOREM QuestionsInOrderHolds == Spec => []QuestionsInOrder
  <1>1. Inv => QuestionsInOrder
    BY DEF Inv
  <1> QED
    BY <1>1, Invariance, PTL

\* An interview waits to be closed only when everything is answered or the limit on
\* answers is used up.
THEOREM AwaitingEndIsEarnedHolds == Spec => []AwaitingEndIsEarned
  <1>1. Inv => AwaitingEndIsEarned
    BY DEF Inv
  <1> QED
    BY <1>1, Invariance, PTL

\* A completed room has one result if it had a turn, and any other room has none.
THEOREM OneResultHolds == Spec => []OneResult
  <1>1. Inv => OneResult
    BY DEF Inv
  <1> QED
    BY <1>1, Invariance, PTL

-------------------------------------------------------------------------------
\* The action properties

\* What no step undoes: a dismissal, and the end of a room with its turns and messages.
Final(r) ==
    /\ room[r].dismissed => room'[r].dismissed
    /\ ~InProgress(r) => /\ ~InProgress(r)' /\ room'[r].turns = room[r].turns
                         /\ DOMAIN msgs'[r] = DOMAIN msgs[r]

LEMMA SetMessageDomain ==
    ASSUME TypeInv, NEW i, NEW m, NEW y, SetMessage(y, i, m), NEW r \in Room
    PROVE  DOMAIN msgs'[r] = DOMAIN msgs[r]
  BY DEF TypeInv, MsgsType, SetMessage

\* Steps that do not touch the rooms.
LEMMA FinalOfMessages ==
    ASSUME Inv, NEW r \in Room, UNCHANGED room,
           UNCHANGED msgs \/ \E y, i, m : SetMessage(y, i, m)
    PROVE  Final(r)
  <1>1. DOMAIN msgs'[r] = DOMAIN msgs[r]
    BY SetMessageDomain DEF Inv
  <1> QED
    BY <1>1 DEF Final, InProgress

LEMMA FinalOfWorkers ==
    ASSUME Inv, NEW r \in Room, NEW w \in Worker,
           \/ \E y \in Room : \E i \in DOMAIN msgs[y] : ClaimReply(w, y, i)
           \/ \E says, evades \in BOOLEAN : BeginStore(w, says, evades)
           \/ DiscardReply(w) \/ StoreRaises(w) \/ FailReply(w)
    PROVE  Final(r)
  <1>1. UNCHANGED room
    BY DEF ClaimReply, BeginStore, DiscardReply, StoreRaises, FailReply
  <1>2. UNCHANGED msgs \/ \E y, i, m : SetMessage(y, i, m)
    BY DEF ClaimReply, BeginStore, DiscardReply, StoreRaises, FailReply
  <1> QED
    BY <1>1, <1>2, FinalOfMessages

LEMMA FinalOfRequests ==
    ASSUME Inv, NEW r \in Room, NEW y \in Room,
           \/ \E q \in 0 .. Questions[y] : OpenMessage(y, q)
           \/ \E i \in DOMAIN msgs[y] : RetryResponse(y, i) \/ Reap(y, i)
           \/ \E t \in DOMAIN evals[y] : EvaluationFails(y, t)
    PROVE  Final(r)
  <1>1. UNCHANGED room
    BY DEF OpenMessage, RetryResponse, Reap, EvaluationFails
  <1>2. UNCHANGED msgs \/ \E z, i, m : SetMessage(z, i, m)
    BY DEF OpenMessage, RetryResponse, Reap, EvaluationFails
  <1> QED
    BY <1>1, <1>2, FinalOfMessages

LEMMA FinalOfCommit ==
    ASSUME Inv, NEW r \in Room, NEW y \in Room, CommitMessage(y)
    PROVE  Final(r)
  <1>1. InProgress(y) /\ UNCHANGED room
    BY DEF CommitMessage, Inv, OpenInv
  <1>2. y # r => msgs'[r] = msgs[r]
    BY DEF CommitMessage, Inv, TypeInv, MsgsType
  <1> QED
    BY <1>1, <1>2 DEF Final, InProgress

\* The user ends the room or goes on.
LEMMA FinalOfUser ==
    ASSUME Inv, NEW r \in Room, NEW y \in Room,
           CompleteInterview(y) \/ CompletePractice(y) \/ DismissGoalPrompt(y)
    PROVE  Final(r)
  <1>1. room[r] \in RoomRecord /\ room[y] \in RoomRecord /\ room \in [Room -> RoomRecord]
    BY DEF Inv, TypeInv
  <1>2. InProgress(y) /\ UNCHANGED msgs
    BY DEF CompleteInterview, CompletePractice, DismissGoalPrompt
  <1>3. room[r].dismissed => room'[r].dismissed
    <2>1. CASE CompleteInterview(y) \/ CompletePractice(y)
      <3>1. room' = [room EXCEPT ![y] = Ended(y)]
        BY <2>1 DEF CompleteInterview, CompletePractice
      <3>2. Ended(y).dismissed = room[y].dismissed
        BY <1>1 DEF Ended, RoomRecord
      <3> QED
        BY <1>1, <3>1, <3>2
    <2>2. CASE DismissGoalPrompt(y)
      BY <1>1, <2>2 DEF DismissGoalPrompt, RoomRecord
    <2> QED
      BY <2>1, <2>2
  <1>4. r # y => room'[r] = room[r]
    BY <1>1 DEF CompleteInterview, CompletePractice, DismissGoalPrompt
  <1> QED
    BY <1>2, <1>3, <1>4 DEF Final, InProgress

LEMMA FinalOfEvaluate ==
    ASSUME Inv, NEW r \in Room, NEW y \in Room, NEW t \in DOMAIN evals[y],
           NEW found \in SUBSET Condition, Evaluate(y, t, found)
    PROVE  Final(r)
  <1>1. room[r] \in RoomRecord /\ room[y] \in RoomRecord /\ room \in [Room -> RoomRecord]
    BY DEF Inv, TypeInv
  <1>2. /\ room'[r].dismissed = room[r].dismissed /\ room'[r].status = room[r].status
        /\ room'[r].turns = room[r].turns /\ UNCHANGED msgs
    BY <1>1 DEF Evaluate, RoomRecord
  <1> QED
    BY <1>2 DEF Final, InProgress

LEMMA FinalOfStore ==
    ASSUME Inv, NEW r \in Room, NEW w \in Worker, StoreReply(w)
    PROVE  Final(r)
  <1>1. PICK y \in Room, i \in Nat, n \in Nat, c \in BOOLEAN : Stored(w, y, i, n, c)
    BY StoreReplyStored
  <1>2. y = work[w].room
    BY <1>1 DEF Stored
  <1>3. /\ \A x \in Room : x # y => room'[x] = room[x]
        /\ room'[y].dismissed = room[y].dismissed
    BY <1>2, StoreReplyRoom
  <1>4. InProgress(y)
    BY <1>2 DEF StoreReply
  <1>5. r # y => msgs'[r] = msgs[r]
    BY <1>1 DEF Stored
  <1> QED
    BY <1>3, <1>4, <1>5 DEF Final, InProgress

LEMMA FinalStep ==
    ASSUME Inv, [Next]_vars, NEW r \in Room
    PROVE  Final(r)
  <1>1. CASE \E w \in Worker : StoreReply(w)
    BY <1>1, FinalOfStore
  <1>2. CASE \E y \in Room : \E t \in DOMAIN evals[y] : \E found \in SUBSET Condition :
                Evaluate(y, t, found)
    BY <1>2, FinalOfEvaluate
  <1>3. CASE \E y \in Room : CompleteInterview(y) \/ CompletePractice(y)
                                \/ DismissGoalPrompt(y)
    BY <1>3, FinalOfUser
  <1>4. CASE \E y \in Room : CommitMessage(y)
    BY <1>4, FinalOfCommit
  <1>5. CASE \E y \in Room :
                \/ \E q \in 0 .. Questions[y] : OpenMessage(y, q)
                \/ \E i \in DOMAIN msgs[y] : RetryResponse(y, i) \/ Reap(y, i)
                \/ \E t \in DOMAIN evals[y] : EvaluationFails(y, t)
    BY <1>5, FinalOfRequests
  <1>6. CASE \E w \in Worker :
                \/ \E y \in Room : \E i \in DOMAIN msgs[y] : ClaimReply(w, y, i)
                \/ \E says, evades \in BOOLEAN : BeginStore(w, says, evades)
                \/ DiscardReply(w) \/ StoreRaises(w) \/ FailReply(w)
    BY <1>6, FinalOfWorkers
  <1>7. CASE SideJobEnds \/ UNCHANGED vars
    BY <1>7, FinalOfMessages DEF SideJobEnds, vars
  <1> QED
    BY <1>1, <1>2, <1>3, <1>4, <1>5, <1>6, <1>7 DEF Next

\* Sequences over the same domain have the same length.
LEMMA SameLength ==
    ASSUME TypeInv, TypeInv', NEW r \in Room, DOMAIN msgs'[r] = DOMAIN msgs[r]
    PROVE  Len(msgs'[r]) = Len(msgs[r])
  <1>1. DOMAIN msgs[r] = 1 .. Len(msgs[r]) /\ Len(msgs[r]) \in Nat
    BY FiniteSets
  <1>2. DOMAIN msgs'[r] = 1 .. Len(msgs'[r]) /\ Len(msgs'[r]) \in Nat
    BY LenProperties DEF TypeInv, MsgsType
  <1>3. \A a, b \in Nat : 1 .. a = 1 .. b => ~(a < b)
    <2>1. SUFFICES ASSUME NEW a \in Nat, NEW b \in Nat, 1 .. a = 1 .. b, a < b PROVE FALSE
      OBVIOUS
    <2>2. b \in 1 .. b /\ b \notin 1 .. a
      BY <2>1
    <2> QED
      BY <2>1, <2>2
  <1> QED
    BY <1>1, <1>2, <1>3

\* Who chose to continue is never asked again, however late the evaluations of earlier
\* turns arrive.
THEOREM DismissedIsFinalHolds == Spec => DismissedIsFinal
  <1>1. ASSUME Inv, Inv', [Next]_vars
        PROVE  \A r \in Room : room[r].dismissed =>
                  room'[r].dismissed /\ room'[r].ended # "goal_achieved"
    <2>1. ASSUME NEW r \in Room
          PROVE  /\ room[r].dismissed => room'[r].dismissed
                 /\ room'[r].dismissed => room'[r].ended # "goal_achieved"
      BY <1>1, FinalStep DEF Final, Inv, RoomsInv, RoomInv
    <2> QED
      BY <2>1
  <1> QED
    BY <1>1, Invariance, PTL DEF Spec, DismissedIsFinal

\* A completed room takes no message and no turn any more, whatever its workers still
\* have in hand.
THEOREM CompletedIsFinalHolds == Spec => CompletedIsFinal
  <1>1. ASSUME Inv, Inv', [Next]_vars
        PROVE  \A r \in Room : ~InProgress(r) =>
                  ~InProgress(r)' /\ room'[r].turns = room[r].turns
                    /\ Len(msgs'[r]) = Len(msgs[r])
    BY <1>1, FinalStep, SameLength DEF Final, Inv
  <1> QED
    BY <1>1, Invariance, PTL DEF Spec, CompletedIsFinal

-------------------------------------------------------------------------------
\* What the room promises

\* A sequence with one element more.
LEMMA LongerByOne ==
    ASSUME NEW S, NEW n \in Nat, NEW s \in [1 .. n -> S], NEW t \in [1 .. n + 1 -> S],
           \A i \in 1 .. n : t[i] = s[i]
    PROVE  t = Append(s, t[n + 1])
  <1> DEFINE a == Append(s, t[n + 1])
  <1>1. s \in Seq(S) /\ Len(s) = n
    OBVIOUS
  <1>2. /\ a \in Seq(S) /\ Len(a) = n + 1
        /\ \A i \in 1 .. n : a[i] = s[i]
        /\ a[n + 1] = t[n + 1]
    BY <1>1, AppendProperties
  <1>3. a = [i \in 1 .. n + 1 |-> a[i]]
    BY <1>2
  <1> HIDE DEF a
  <1>4. ASSUME NEW i \in 1 .. n + 1 PROVE a[i] = t[i]
    <2>1. i \in 1 .. n \/ i = n + 1
      OBVIOUS
    <2> QED
      BY <1>2, <2>1
  <1> QED
    BY <1>3, <1>4 DEF a

LEMMA SameCardinality == \A S : Talk!Cardinality(S) = Cardinality(S)
  BY DEF Talk!Cardinality, Cardinality

\* What the promise calls settled and used up.
LEMMA PromiseTerms ==
    ASSUME NEW r \in Room
    PROVE  /\ \A q : Talk!Settled(r, q) <=> Answered(r, q)
           /\ Talk!AllSettled(r) <=> AllAnswered(r)
           /\ Talk!AnswersUsed(r) <=> LimitUsed(r)
           /\ Talk!Said(r, "user") = UserMessages(r)
           /\ Talk!Said(r, "persona") = Replies(r)
  <1>1. \A q : Talk!Settled(r, q) <=> Answered(r, q)
    BY DEF Talk!Settled, Answered, AnswersTo, UserMessages, Line
  <1>2. Talk!Said(r, "user") = UserMessages(r) /\ Talk!Said(r, "persona") = Replies(r)
    BY DEF Talk!Said, UserMessages, Replies, Line
  <1>3. Talk!AnswersGiven(r) = Answers(r)
    BY <1>2 DEF Talk!AnswersGiven, UserMessages, Answers, Line, NoQuestion
  <1>4. Talk!AnswersUsed(r) <=> LimitUsed(r)
    BY <1>3, SameCardinality DEF Talk!AnswersUsed, LimitUsed
  <1>5. Talk!AllSettled(r) <=> AllAnswered(r)
    BY <1>1 DEF Talk!AllSettled, AllAnswered
  <1> QED
    BY <1>1, <1>2, <1>4, <1>5

LEMMA PromiseTermsAfter ==
    ASSUME NEW r \in Room
    PROVE  /\ Talk!AllSettled(r)' <=> AllAnswered(r)'
           /\ Talk!AnswersUsed(r)' <=> LimitUsed(r)'
  <1>1. \A q : Talk!Settled(r, q)' <=> Answered(r, q)'
    BY DEF Talk!Settled, Answered, AnswersTo, UserMessages, Line
  <1>2. Talk!AnswersGiven(r)' = Answers(r)'
    BY DEF Talk!AnswersGiven, Talk!Said, UserMessages, Answers, Line, NoQuestion
  <1>3. Talk!AnswersUsed(r)' <=> LimitUsed(r)'
    BY <1>2, SameCardinality DEF Talk!AnswersUsed, LimitUsed
  <1>4. Talk!AllSettled(r)' <=> AllAnswered(r)'
    BY <1>1 DEF Talk!AllSettled, AllAnswered
  <1> QED
    BY <1>3, <1>4

LEMMA TurnsArePromised ==
    ASSUME Inv, NEW r \in Room
    PROVE  Talk!Turns(r) = room[r].turns
  BY PromiseTerms, SameCardinality DEF Talk!Turns, Inv, OneReplyPerMessage

-------------------------------------------------------------------------------
\* While a request holds the lock of a room, the room keeps the mark and the question
\* that the request was accepted for.
LockedInv(r) ==
    ~Unlocked(r) =>
        /\ room[r].ended # "awaiting_user_end"
        /\ IF TypeOf[r] = "interview"
           THEN open[r] # NoQuestion => ~Answered(r, open[r])
           ELSE open[r] = NoQuestion

LockInv == \A r \in Room : LockedInv(r)

LEMMA NextQuestionIsLeft ==
    ASSUME NEW r \in Room, NextQuestion(r) # NoQuestion
    PROVE  ~Answered(r, NextQuestion(r))
  <1> DEFINE left == {q \in 1 .. Questions[r] : ~Answered(r, q)}
  <1>1. left # {} /\ NextQuestion(r) = CHOOSE q \in left : \A p \in left : q <= p
    BY DEF NextQuestion
  <1>2. left \in SUBSET Nat
    BY PracticeRoomAssumption
  <1> HIDE DEF left
  <1>3. \E q \in left : \A p \in left : q <= p
    BY <1>1, <1>2, LeastElement
  <1>4. NextQuestion(r) \in left
    BY <1>1, <1>3
  <1> QED
    BY <1>4 DEF left

\* A step that touches neither the lock of a room nor what its request relies on.
LEMMA LockKept ==
    ASSUME NEW r \in Room, LockedInv(r), open'[r] = open[r],
           ~Unlocked(r) => /\ room'[r].ended # "awaiting_user_end"
                           /\ \A q : Answered(r, q)' => Answered(r, q)
    PROVE  LockedInv(r)'
  <1>1. CASE Unlocked(r)
    BY <1>1 DEF LockedInv, Unlocked
  <1>2. CASE ~Unlocked(r)
    <2>1. PICK q : q = open[r]
      OBVIOUS
    <2>2. Answered(r, open[r])' <=> Answered(r, q)'
      BY <2>1 DEF Answered, AnswersTo, UserMessages
    <2> QED
      BY <1>2, <2>1, <2>2 DEF LockedInv
  <1> QED
    BY <1>1, <1>2

LEMMA SameMessages ==
    ASSUME NEW r \in Room, msgs'[r] = msgs[r]
    PROVE  \A q : Answered(r, q)' => Answered(r, q)
  BY DEF Answered, AnswersTo, UserMessages

\* What a step of the workers that stores nothing, or of the evaluations, leaves alone.
LEMMA UnseenSteps ==
    ASSUME Inv,
           \/ \E r \in Room : \E q \in 0 .. Questions[r] : OpenMessage(r, q)
           \/ \E r \in Room : \E i \in DOMAIN msgs[r] : RetryResponse(r, i) \/ Reap(r, i)
           \/ \E r \in Room : \E t \in DOMAIN evals[r] : EvaluationFails(r, t)
           \/ \E w \in Worker : \E r \in Room : \E i \in DOMAIN msgs[r] : ClaimReply(w, r, i)
           \/ \E w \in Worker :
                 \/ \E says, evades \in BOOLEAN : BeginStore(w, says, evades)
                 \/ DiscardReply(w) \/ StoreRaises(w) \/ FailReply(w)
           \/ SideJobEnds \/ UNCHANGED vars
    PROVE  Steady /\ UNCHANGED <<room, results>>
  <1>1. TypeInv
    BY DEF Inv
  <1>2. CASE \/ \E r \in Room : \E q \in 0 .. Questions[r] : OpenMessage(r, q)
             \/ \E r \in Room : \E t \in DOMAIN evals[r] : EvaluationFails(r, t)
             \/ \E w \in Worker :
                   \/ \E says, evades \in BOOLEAN : BeginStore(w, says, evades)
                   \/ DiscardReply(w) \/ StoreRaises(w)
             \/ SideJobEnds \/ UNCHANGED vars
    <2>1. UNCHANGED <<room, msgs, results>>
      BY <1>2 DEF OpenMessage, EvaluationFails, BeginStore, DiscardReply, StoreRaises,
         SideJobEnds, vars
    <2> QED
      BY <1>1, <2>1, SameSteady
  <1>3. ASSUME NEW r \in Room, NEW i \in DOMAIN msgs[r], RetryResponse(r, i)
        PROVE  Steady /\ UNCHANGED <<room, results>>
    BY <1>1, <1>3, EditedSteady DEF RetryResponse
  <1>4. ASSUME NEW r \in Room, NEW i \in DOMAIN msgs[r], Reap(r, i)
        PROVE  Steady /\ UNCHANGED <<room, results>>
    <2>1. /\ msgs[r][i].holder \in Worker \cup {Nobody}
          /\ [msgs[r][i] EXCEPT !.reply = "failed"]
               = [msgs[r][i] EXCEPT !.reply = "failed", !.holder = msgs[r][i].holder]
      BY <1>1, FiniteSets DEF Message
    <2> QED
      BY <1>1, <1>4, <2>1, EditedSteady DEF Reap
  <1>5. ASSUME NEW w \in Worker, NEW r \in Room, NEW i \in DOMAIN msgs[r],
               ClaimReply(w, r, i)
        PROVE  Steady /\ UNCHANGED <<room, results>>
    BY <1>1, <1>5, EditedSteady DEF ClaimReply
  <1>6. ASSUME NEW w \in Worker, FailReply(w)
        PROVE  Steady /\ UNCHANGED <<room, results>>
    <2>1. Holds(w)
      BY <1>6 DEF FailReply, Inv, WorkInv
    <2>2. PICK r \in Room : r = work[w].room
      BY <2>1 DEF Holds
    <2>3. PICK i \in UserMessages(r) :
             i = work[w].msg /\ i \in DOMAIN msgs[r] /\ Mine(w) = msgs[r][i]
      BY <2>1, <2>2 DEF Holds, UserMessages, Mine
    <2>4. CASE UNCHANGED msgs
      BY <1>1, <1>6, <2>4, SameSteady DEF FailReply
    <2>5. CASE ~UNCHANGED msgs
      <3>1. msgs[r][i].reply = "processing" /\ msgs[r][i].holder = w
        BY <1>6, <2>3, <2>5 DEF FailReply
      <3>2. PICK s \in {"queued", "failed"} :
               SetMessage(r, i, [msgs[r][i] EXCEPT !.reply = s])
        BY <1>6, <2>2, <2>3, <2>5 DEF FailReply
      <3>3. [msgs[r][i] EXCEPT !.reply = s]
              = [msgs[r][i] EXCEPT !.reply = s, !.holder = msgs[r][i].holder]
        BY <1>1, <2>3, FiniteSets DEF Message
      <3> QED
        BY <1>1, <1>6, <3>1, <3>2, <3>3, EditedSteady DEF FailReply
    <2> QED
      BY <2>4, <2>5
  <1> QED
    BY <1>2, <1>3, <1>4, <1>5, <1>6

LEMMA LockStep ==
    ASSUME Inv, LockInv, [Next]_vars
    PROVE  LockInv'
  <1>1. ASSUME NEW r \in Room, NEW q \in 0 .. Questions[r], OpenMessage(r, q),
               NEW x \in Room
        PROVE  LockedInv(x)'
    <2>1. /\ UNCHANGED <<room, msgs>> /\ Accepts(r, q)
          /\ \A y \in Room : open'[y] = IF y = r THEN q ELSE open[y]
      BY <1>1 DEF OpenMessage, Inv, TypeInv
    <2>2. CASE x # r
      BY <2>1, <2>2, LockKept, SameMessages DEF LockInv, LockedInv
    <2>3. CASE x = r
      <3>1. q # NoQuestion /\ TypeOf[r] = "interview" => ~Answered(r, q)
        BY <2>1, NextQuestionIsLeft DEF Accepts
      <3>2. TypeOf[r] # "interview" => q = NoQuestion
        BY <2>1 DEF Accepts
      <3>3. room'[r].ended # "awaiting_user_end" /\ open'[r] = q
        BY <2>1 DEF Accepts
      <3>4. Answered(r, open[r])' => Answered(r, q)
        BY <2>1, <3>3 DEF Answered, AnswersTo, UserMessages
      <3> QED
        BY <2>3, <3>1, <3>2, <3>3, <3>4 DEF LockedInv
    <2> QED
      BY <2>2, <2>3
  <1>2. ASSUME NEW r \in Room, CommitMessage(r), NEW x \in Room
        PROVE  LockedInv(x)'
    <2>1. /\ UNCHANGED room /\ \A y \in Room : open'[y] = IF y = r THEN Closed ELSE open[y]
          /\ x # r => msgs'[x] = msgs[x]
      BY <1>2 DEF CommitMessage, Inv, TypeInv, MsgsType
    <2>2. CASE x # r
      BY <2>1, <2>2, LockKept, SameMessages DEF LockInv, LockedInv
    <2>3. CASE x = r
      BY <2>1, <2>3 DEF LockedInv, Unlocked
    <2> QED
      BY <2>2, <2>3
  <1>3. ASSUME NEW r \in Room, Unlocked(r), UNCHANGED open,
               \A x \in Room : x # r => room'[x] = room[x] /\ msgs'[x] = msgs[x],
               NEW x \in Room
        PROVE  LockedInv(x)'
    BY <1>3, LockKept, SameMessages DEF LockInv, LockedInv
  <1>4. ASSUME NEW r \in Room, \/ CompleteInterview(r) \/ CompletePractice(r)
                               \/ DismissGoalPrompt(r),
               NEW x \in Room
        PROVE  LockedInv(x)'
    <2>1. /\ Unlocked(r) /\ UNCHANGED <<open, msgs>>
          /\ \A y \in Room : y # r => room'[y] = room[y]
      BY <1>4 DEF CompleteInterview, CompletePractice, DismissGoalPrompt, Inv, TypeInv
    <2> QED
      BY <1>3, <2>1
  <1>5. ASSUME NEW r \in Room, NEW t \in DOMAIN evals[r], NEW found \in SUBSET Condition,
               Evaluate(r, t, found), NEW x \in Room
        PROVE  LockedInv(x)'
    <2>1. /\ Unlocked(r) /\ UNCHANGED <<open, msgs>>
          /\ \A y \in Room : y # r => room'[y] = room[y]
      BY <1>5 DEF Evaluate, Inv, TypeInv
    <2> QED
      BY <1>3, <2>1
  <1>6. ASSUME NEW w \in Worker, StoreReply(w), NEW x \in Room
        PROVE  LockedInv(x)'
    <2>1. PICK r \in Room, i \in Nat, n \in Nat, c \in BOOLEAN : Stored(w, r, i, n, c)
      BY <1>6, StoreReplyStored
    <2>2. r = work[w].room
      BY <2>1 DEF Stored
    <2>3. /\ Unlocked(r) /\ UNCHANGED open
          /\ \A y \in Room : y # r => room'[y] = room[y] /\ msgs'[y] = msgs[y]
      BY <1>6, <2>1, <2>2, StoreReplyRoom DEF StoreReply, Stored
    <2> QED
      BY <1>3, <2>3
  <1>7. ASSUME Steady, UNCHANGED <<room, open>>, NEW x \in Room
        PROVE  LockedInv(x)'
    BY <1>7, LockKept, SteadySets DEF LockInv, LockedInv
  <1>8. ASSUME NEW x \in Room,
               \/ \E r \in Room : \E i \in DOMAIN msgs[r] : RetryResponse(r, i) \/ Reap(r, i)
               \/ \E r \in Room : \E t \in DOMAIN evals[r] : EvaluationFails(r, t)
               \/ \E w \in Worker : \E r \in Room : \E i \in DOMAIN msgs[r] :
                     ClaimReply(w, r, i)
               \/ \E w \in Worker :
                     \/ \E says, evades \in BOOLEAN : BeginStore(w, says, evades)
                     \/ DiscardReply(w) \/ StoreRaises(w) \/ FailReply(w)
               \/ SideJobEnds \/ UNCHANGED vars
        PROVE  LockedInv(x)'
    <2>1. Steady /\ UNCHANGED room
      BY <1>8, UnseenSteps
    <2>2. UNCHANGED open
      BY <1>8 DEF RetryResponse, Reap, EvaluationFails, ClaimReply, BeginStore,
         DiscardReply, StoreRaises, FailReply, SideJobEnds, vars
    <2> QED
      BY <1>7, <2>1, <2>2
  <1> QED
    BY <1>1, <1>2, <1>4, <1>5, <1>6, <1>8 DEF Next, LockInv

-------------------------------------------------------------------------------
\* Each step is one step of the promise, or none.

LEMMA UnseenKeeps ==
    ASSUME TypeInv, Steady, UNCHANGED <<room, results>>
    PROVE  UNCHANGED Talk!cvars
  <1>1. ASSUME NEW r \in Room
        PROVE  /\ [i \in DOMAIN msgs'[r] |-> Line(r, i)'] = [i \in DOMAIN msgs[r] |-> Line(r, i)]
               /\ {i \in UserMessages(r)' : msgs'[r][i].current}
                    = {i \in UserMessages(r) : msgs[r][i].current}
               /\ Stage(r)' = Stage(r)
    <2>1. Stage(r)' = Stage(r)
      BY DEF Stage, InProgress
    <2>2. {i \in UserMessages(r)' : msgs'[r][i].current}
             = {i \in UserMessages(r) : msgs[r][i].current}
      BY SteadySets DEF Steady, UserMessages
    <2>3. \A i \in DOMAIN msgs[r] : Line(r, i)' = Line(r, i)
      BY DEF Steady, Line
    <2> QED
      BY <2>1, <2>2, <2>3 DEF Steady
  <1> QED
    BY <1>1 DEF Talk!cvars

\* A step that touches the marks of one room.
LEMMA StageMaps ==
    ASSUME Inv, NEW r \in Room, room' \in [Room -> RoomRecord],
           \A x \in Room : x # r => room'[x] = room[x]
    PROVE  /\ [x \in Room |-> Stage(x)'] = [[x \in Room |-> Stage(x)] EXCEPT ![r] = Stage(r)']
           /\ [x \in Room |-> room'[x].dismissed]
                = [[x \in Room |-> room[x].dismissed] EXCEPT ![r] = room'[r].dismissed]
  <1>1. \A x \in Room : x # r => Stage(x)' = Stage(x)
    BY DEF Stage, InProgress
  <1> QED
    BY <1>1

LEMMA SameTalk ==
    ASSUME UNCHANGED msgs
    PROVE  /\ UNCHANGED [r \in Room |-> [i \in DOMAIN msgs[r] |-> Line(r, i)]]
           /\ UNCHANGED [r \in Room |-> {i \in UserMessages(r) : msgs[r][i].current}]
  BY DEF Line, UserMessages

LEMMA EndMaps ==
    ASSUME Inv, Inv', NEW r \in Room, CompleteInterview(r) \/ CompletePractice(r)
    PROVE  Talk!End(r)
  <1>1. /\ room' = [room EXCEPT ![r] = Ended(r)] /\ UNCHANGED msgs /\ InProgress(r)
        /\ room[r] \in RoomRecord /\ room \in [Room -> RoomRecord]
    BY DEF CompleteInterview, CompletePractice, Inv, TypeInv
  <1>2. /\ Ended(r) \in RoomRecord /\ Ended(r).status = "completed"
        /\ Ended(r).dismissed = room[r].dismissed /\ Ended(r).turns = room[r].turns
    BY <1>1 DEF Ended, RoomRecord
  <1>3. /\ room' \in [Room -> RoomRecord] /\ room'[r] = Ended(r)
        /\ \A x \in Room : x # r => room'[x] = room[x]
    BY <1>1, <1>2
  <1>4. Stage(r)' = "over" /\ Stage(r) # "over"
    BY <1>1, <1>2, <1>3 DEF Stage, InProgress
  <1>5. [x \in Room |-> Stage(x)'] = [[x \in Room |-> Stage(x)] EXCEPT ![r] = "over"]
    BY <1>3, <1>4, StageMaps
  <1>6. [x \in Room |-> room'[x].dismissed] = [x \in Room |-> room[x].dismissed]
    BY <1>2, <1>3
  <1>7. results' = [results EXCEPT ![r] = IF Talk!Turns(r) = 0 THEN 0 ELSE 1]
    <2>1. /\ results' \in [Room -> Nat] /\ results \in [Room -> Nat]
          /\ \A x \in Room : x # r => results'[x] = results[x]
      BY DEF CompleteInterview, CompletePractice, Inv, TypeInv
    <2>2. results'[r] = IF room[r].turns = 0 THEN 0 ELSE 1
      BY <1>2, <1>3 DEF Inv, OneResult, InProgress
    <2>3. Talk!Turns(r) = room[r].turns
      BY TurnsArePromised
    <2> QED
      BY <2>1, <2>2, <2>3
  <1> QED
    BY <1>1, <1>4, <1>5, <1>6, <1>7, SameTalk DEF Talk!End

LEMMA GoOnMaps ==
    ASSUME Inv, NEW r \in Room, DismissGoalPrompt(r)
    PROVE  Talk!GoOn(r)
  <1>1. room[r] \in RoomRecord /\ room \in [Room -> RoomRecord]
    BY DEF Inv, TypeInv
  <1>2. /\ room' \in [Room -> RoomRecord] /\ UNCHANGED <<msgs, results>>
        /\ \A x \in Room : x # r => room'[x] = room[x]
        /\ room'[r].ended = "none" /\ room'[r].dismissed = TRUE
        /\ room'[r].status = room[r].status
        /\ InProgress(r) /\ room[r].ended = "goal_achieved"
    BY <1>1 DEF DismissGoalPrompt, RoomRecord
  <1>3. Stage(r) = "prompted" /\ Stage(r)' = "open"
    BY <1>2 DEF Stage, InProgress
  <1>4. /\ [x \in Room |-> Stage(x)'] = [[x \in Room |-> Stage(x)] EXCEPT ![r] = "open"]
        /\ [x \in Room |-> room'[x].dismissed]
             = [[x \in Room |-> room[x].dismissed] EXCEPT ![r] = TRUE]
    BY <1>2, <1>3, StageMaps
  <1> QED
    BY <1>2, <1>3, <1>4, SameTalk DEF Talk!GoOn

LEMMA PromptMaps ==
    ASSUME Inv, NEW r \in Room, NEW t \in DOMAIN evals[r], NEW found \in SUBSET Condition,
           Evaluate(r, t, found)
    PROVE  Talk!Prompt(r) \/ UNCHANGED Talk!cvars
  <1>1. /\ room[r] \in RoomRecord /\ room \in [Room -> RoomRecord] /\ TypeInv
        /\ UNCHANGED <<msgs, results>>
    BY DEF Inv, TypeInv, Evaluate
  <1>2. CASE UNCHANGED room
    BY <1>1, <1>2, SameSteady, UnseenKeeps
  <1>3. CASE ~UNCHANGED room
    <2>1. room' = [room EXCEPT ![r].ended = "goal_achieved"] /\ Marks(r)
      BY <1>3 DEF Evaluate
    <2>2. /\ room' \in [Room -> RoomRecord]
          /\ \A x \in Room : x # r => room'[x] = room[x]
          /\ room'[r].ended = "goal_achieved" /\ room'[r].dismissed = room[r].dismissed
          /\ room'[r].status = room[r].status
      BY <1>1, <2>1 DEF RoomRecord
    <2>3. Stage(r) = "open" /\ ~room[r].dismissed /\ Stage(r)' = "prompted"
      BY <2>1, <2>2 DEF Marks, Stage, InProgress
    <2>4. /\ [x \in Room |-> Stage(x)'] = [[x \in Room |-> Stage(x)] EXCEPT ![r] = "prompted"]
          /\ [x \in Room |-> room'[x].dismissed] = [x \in Room |-> room[x].dismissed]
      BY <2>2, <2>3, StageMaps
    <2> QED
      BY <1>1, <2>3, <2>4, SameTalk DEF Talk!Prompt
  <1> QED
    BY <1>2, <1>3

\* A message that is added to a room is a line that is added to its conversation.
LEMMA AddedLine ==
    ASSUME NEW r \in Room, NEW n \in Nat, DOMAIN msgs[r] = 1 .. n,
           DOMAIN msgs'[r] = 1 .. n + 1,
           \A x \in Room : x # r => msgs'[x] = msgs[x],
           \A i \in DOMAIN msgs[r] :
              /\ msgs'[r][i].by = msgs[r][i].by
              /\ msgs'[r][i].replyTo = msgs[r][i].replyTo
              /\ msgs'[r][i].question = msgs[r][i].question,
           NEW who, NEW to, NEW q,
           msgs'[r][n + 1].by = who, msgs'[r][n + 1].replyTo = to,
           msgs'[r][n + 1].question = q
    PROVE  Talk!Adds(r, who, to, q)
  <1> DEFINE s == [i \in DOMAIN msgs[r] |-> Line(r, i)]
             t == [i \in DOMAIN msgs'[r] |-> Line(r, i)']
             line == [by |-> who, replyTo |-> to, question |-> q]
             S == {t[i] : i \in 1 .. n + 1}
  <1>1. t \in [1 .. n + 1 -> S]
    OBVIOUS
  <1>2. \A i \in 1 .. n : t[i] = s[i]
    BY DEF Line
  <1>3. s \in [1 .. n -> S]
    <2>1. s \in [1 .. n -> {s[i] : i \in 1 .. n}]
      OBVIOUS
    <2>2. \A i \in 1 .. n : s[i] \in S
      <3> HIDE DEF s, t
      <3>1. \A i \in 1 .. n : i \in 1 .. n + 1
        OBVIOUS
      <3> QED
        BY <1>2, <3>1
    <2> HIDE DEF s, t, S
    <2> QED
      BY <2>1, <2>2
  <1>4. t[n + 1] = line
    BY DEF Line
  <1> HIDE DEF s, t, S
  <1>5. t = Append(s, line)
    <2>1. t = Append(s, t[n + 1])
      BY <1>1, <1>2, <1>3, LongerByOne
    <2> QED
      BY <1>4, <2>1
  <1>6. ASSUME NEW x \in Room
        PROVE  [i \in DOMAIN msgs'[x] |-> Line(x, i)']
                 = IF x = r THEN t ELSE [i \in DOMAIN msgs[x] |-> Line(x, i)]
    <2>1. CASE x = r
      BY <2>1 DEF t, Line
    <2>2. CASE x # r
      BY <2>2 DEF Line
    <2> QED
      BY <2>1, <2>2
  <1>7. [x \in Room |-> [i \in DOMAIN msgs'[x] |-> Line(x, i)']]
           = [[x \in Room |-> [i \in DOMAIN msgs[x] |-> Line(x, i)]] EXCEPT ![r] = t]
    BY <1>6
  <1>8. s = [x \in Room |-> [i \in DOMAIN msgs[x] |-> Line(x, i)]][r]
    BY DEF s
  <1> QED
    BY <1>5, <1>7, <1>8 DEF Talk!Adds

LEMMA SayMaps ==
    ASSUME Inv, LockInv, NEW r \in Room, CommitMessage(r)
    PROVE  Talk!Say(r, open[r]) /\ open[r] \in 0 .. Questions[r]
  <1> DEFINE n == Len(msgs[r])
             a == IF open[r] = NoQuestion THEN 0 ELSE Cardinality(AnswersTo(r, open[r])) + 1
             m == [by |-> "user", replyTo |-> 0, question |-> open[r], attempt |-> a,
                   current |-> FALSE, reply |-> "queued", holder |-> Nobody]
  <1>1. /\ ~Unlocked(r) /\ InProgress(r) /\ InTurn(r, open[r])
        /\ room[r].ended # "awaiting_user_end" /\ UNCHANGED <<room, results>>
        /\ msgs' = [msgs EXCEPT ![r] = Append(msgs[r], m)] /\ TypeInv
    BY DEF CommitMessage, Inv, OpenInv, LockInv, LockedInv, TypeInv, MsgsType
  <1>2. open[r] \in 0 .. Questions[r]
    <2>1. Questions[r] \in Nat
      BY PracticeRoomAssumption
    <2> QED
      BY <1>1, <2>1 DEF TypeInv, Unlocked, Closed
  <1>3. m.by = "user" /\ m.replyTo = 0 /\ m.question = open[r] /\ m.current = FALSE
    OBVIOUS
  <1>4. m \in Message(r)
    <2>1. AnswersTo(r, open[r]) \in SUBSET DOMAIN msgs[r]
      BY DEF AnswersTo, UserMessages
    <2>2. Cardinality(AnswersTo(r, open[r])) \in Nat
      BY <1>1, <2>1, FiniteSets
    <2>3. a \in Nat
      BY <2>2
    <2> HIDE DEF a
    <2> QED
      BY <1>2, <2>3 DEF Message
  <1> HIDE DEF m
  <1>5. /\ \A x \in Room : x # r => msgs'[x] = msgs[x]
        /\ DOMAIN msgs'[r] = DOMAIN msgs[r] \cup {n + 1} /\ n + 1 \notin DOMAIN msgs[r]
        /\ \A j \in DOMAIN msgs[r] : msgs'[r][j] = msgs[r][j]
        /\ msgs'[r][n + 1] = m
    <2>1. msgs[r] \in Seq(Message(r))
      BY <1>1 DEF TypeInv, MsgsType
    <2> QED
      BY <1>1, <1>4, <2>1, AppendedMessages
  <1>6. n \in Nat /\ DOMAIN msgs[r] = 1 .. n
    BY <1>1, FiniteSets
  <1> HIDE DEF n
  <1>7. Talk!Adds(r, "user", 0, open[r])
    <2>1. DOMAIN msgs'[r] = 1 .. n + 1
      BY <1>5, <1>6
    <2>2. msgs'[r][n + 1].by = "user" /\ msgs'[r][n + 1].replyTo = 0
          /\ msgs'[r][n + 1].question = open[r]
      BY <1>3, <1>5
    <2>3. \A x \in Room : x # r => msgs'[x] = msgs[x]
      BY <1>5
    <2>4. \A j \in DOMAIN msgs[r] :
             /\ msgs'[r][j].by = msgs[r][j].by
             /\ msgs'[r][j].replyTo = msgs[r][j].replyTo
             /\ msgs'[r][j].question = msgs[r][j].question
      BY <1>5
    <2>5. PICK q : q = open[r]
      OBVIOUS
    <2>6. Talk!Adds(r, "user", 0, q)
      BY <1>6, <2>1, <2>2, <2>3, <2>4, <2>5, AddedLine
    <2> QED
      BY <2>5, <2>6 DEF Talk!Adds
  <1>8. [x \in Room |-> {i \in UserMessages(x)' : msgs'[x][i].current}]
          = [x \in Room |-> {i \in UserMessages(x) : msgs[x][i].current}]
    <2>1. ASSUME NEW x \in Room
          PROVE  {i \in UserMessages(x)' : msgs'[x][i].current}
                   = {i \in UserMessages(x) : msgs[x][i].current}
      <3>1. CASE x = r
        BY <1>3, <1>5, <3>1 DEF UserMessages
      <3>2. CASE x # r
        BY <1>5, <3>2 DEF UserMessages
      <3> QED
        BY <3>1, <3>2
    <2> QED
      BY <2>1
  <1>9. [x \in Room |-> Stage(x)'] = [x \in Room |-> Stage(x)]
    BY <1>1 DEF Stage, InProgress
  <1>10. [x \in Room |-> room'[x].dismissed] = [x \in Room |-> room[x].dismissed]
    BY <1>1
  <1>11. Stage(r) \in {"open", "prompted"}
    BY <1>1 DEF Stage
  <1>12. IF TypeOf[r] = "interview" THEN Talk!IsNext(r, open[r]) ELSE open[r] = 0
    <2>1. CASE TypeOf[r] = "interview"
      <3>1. /\ \A p \in 1 .. open[r] - 1 : Answered(r, p)
            /\ open[r] = 0 => AllAnswered(r)
            /\ open[r] # 0 => ~Answered(r, open[r])
        BY <1>1, <2>1 DEF InTurn, LockInv, LockedInv, NoQuestion
      <3> QED
        BY <2>1, <3>1, PromiseTerms DEF Talk!IsNext
    <2>2. CASE TypeOf[r] # "interview"
      BY <1>1, <2>2 DEF LockInv, LockedInv, NoQuestion
    <2> QED
      BY <2>1, <2>2
  <1> QED
    BY <1>1, <1>2, <1>7, <1>8, <1>9, <1>10, <1>11, <1>12 DEF Talk!Say

\* The step counts the answer i of room r if c, and no other.
Counts(r, i, c) ==
    [x \in Room |-> {j \in UserMessages(x)' : msgs'[x][j].current}]
        = [[x \in Room |-> {j \in UserMessages(x) : msgs[x][j].current}] EXCEPT
              ![r] = IF c THEN @ \cup {i} ELSE @]

LEMMA CountedMaps ==
    ASSUME Inv, NEW w, NEW r \in Room, NEW i, NEW n, NEW c \in BOOLEAN,
           Stored(w, r, i, n, c)
    PROVE  Counts(r, i, c)
  <1> DEFINE counted(x) == {j \in UserMessages(x) : msgs[x][j].current}
             after(x) == {j \in UserMessages(x)' : msgs'[x][j].current}
  <1>1. \A x \in Room : x # r => after(x) = counted(x)
    BY DEF Stored, UserMessages
  <1>2. after(r) = IF c THEN counted(r) \cup {i} ELSE counted(r)
    <2>1. /\ i \in UserMessages(r) /\ ~msgs[r][i].current
      BY DEF Stored, Inv, MessagesInv, MessageInv
    <2>2. UserMessages(r)' = UserMessages(r)
      BY DEF Stored, UserMessages
    <2>3. \A j \in UserMessages(r) :
             msgs'[r][j].current = IF j = i THEN c ELSE msgs[r][j].current
      BY DEF Stored, UserMessages
    <2> QED
      BY <2>1, <2>2, <2>3
  <1> HIDE DEF counted, after
  <1>3. [x \in Room |-> after(x)]
           = [[x \in Room |-> counted(x)] EXCEPT ![r] = IF c THEN @ \cup {i} ELSE @]
    BY <1>1, <1>2
  <1> QED
    BY <1>3 DEF Counts, after, counted

LEMMA ReplyMaps ==
    ASSUME Inv, Inv', NEW w \in Worker, StoreReply(w)
    PROVE  \E r \in Room : \E i \in DOMAIN msgs[r], settles \in BOOLEAN :
              Talk!Reply(r, i, settles)
  <1>1. PICK r \in Room, i \in Nat, n \in Nat, c \in BOOLEAN : Stored(w, r, i, n, c)
    BY StoreReplyStored
  <1>2. r = work[w].room /\ i = work[w].msg /\ c = work[w].complete /\ i \in DOMAIN msgs[r]
    BY <1>1 DEF Stored
  <1>3. /\ room' \in [Room -> RoomRecord] /\ results' \in [Room -> Nat]
        /\ results \in [Room -> Nat]
        /\ \A x \in Room : x # r => room'[x] = room[x] /\ results'[x] = results[x]
        /\ room'[r].turns = room[r].turns + 1
        /\ room'[r].dismissed = room[r].dismissed
    BY <1>2, StoreReplyRoom DEF Inv, TypeInv
  <1>4. InProgress(r) /\ room[r] \in RoomRecord
    BY <1>2 DEF StoreReply, Inv, TypeInv
  <1>5. Stage(r) # "over"
    BY <1>4 DEF Stage
  <1>6. i \in Talk!Said(r, "user") /\ ~Talk!RepliedTo(r, i)
    <2>1. i \in UserMessages(r) /\ msgs[r][i].reply = "processing"
      BY <1>1 DEF Stored
    <2>2. \A k \in Replies(r) : msgs[r][k].replyTo # i
      BY <2>1, RepliesFollow
    <2>3. \A k \in Replies(r) : k \in DOMAIN msgs[r]
      BY DEF Replies
    <2> QED
      BY <2>1, <2>2, <2>3, PromiseTerms DEF Talk!RepliedTo, Line
  <1>7. c /\ msgs[r][i].question # 0 => ~Talk!Settled(r, msgs[r][i].question)
    <2>1. c /\ msgs[r][i].question # 0 => ~Answered(r, msgs[r][i].question)
      BY <1>1 DEF Stored, NoQuestion
    <2> QED
      BY <2>1, PromiseTerms
  <1>8. Talk!Adds(r, "persona", i, 0)
    <2>1. PICK k \in Nat : k = n - 1 /\ n = k + 1
      <3>1. DOMAIN msgs[r] = 1 .. n - 1 /\ i \in DOMAIN msgs[r]
        BY <1>1, <1>2 DEF Stored
      <3> QED
        BY <3>1
    <2>2. /\ DOMAIN msgs[r] = 1 .. k /\ DOMAIN msgs'[r] = 1 .. k + 1
          /\ \A x \in Room : x # r => msgs'[x] = msgs[x]
          /\ \A j \in DOMAIN msgs[r] :
                /\ msgs'[r][j].by = msgs[r][j].by
                /\ msgs'[r][j].replyTo = msgs[r][j].replyTo
                /\ msgs'[r][j].question = msgs[r][j].question
          /\ msgs'[r][k + 1].by = "persona" /\ msgs'[r][k + 1].replyTo = i
          /\ msgs'[r][k + 1].question = 0
      <3>1. 1 .. k + 1 = (1 .. k) \cup {k + 1}
        OBVIOUS
      <3> QED
        BY <1>1, <2>1, <3>1 DEF Stored, NoQuestion
    <2> QED
      BY <2>2, AddedLine
  <1>9. [x \in Room |-> room'[x].dismissed] = [x \in Room |-> room[x].dismissed]
    BY <1>3
  <1>10. IF TypeOf[r] = "scenario" /\ Talk!Turns(r) + 1 >= MaxTurns
         THEN /\ [x \in Room |-> Stage(x)'] = [[x \in Room |-> Stage(x)] EXCEPT ![r] = "over"]
              /\ results' = [results EXCEPT ![r] = 1]
         ELSE /\ \/ [x \in Room |-> Stage(x)'] = [x \in Room |-> Stage(x)]
                 \/ /\ TypeOf[r] = "interview"
                    /\ (Talk!AllSettled(r) \/ Talk!AnswersUsed(r))'
                    /\ [x \in Room |-> Stage(x)']
                         = [[x \in Room |-> Stage(x)] EXCEPT ![r] = "closing"]
              /\ UNCHANGED results
    <2>1. Talk!Turns(r) = room[r].turns
      BY TurnsArePromised
    <2>2. LastTurn(r) <=> TypeOf[r] = "scenario" /\ Talk!Turns(r) + 1 >= MaxTurns
      BY <2>1 DEF LastTurn
    <2>3. [x \in Room |-> Stage(x)'] = [[x \in Room |-> Stage(x)] EXCEPT ![r] = Stage(r)']
      BY <1>3, StageMaps
    <2>4. CASE LastTurn(r)
      <3>1. room' = [room EXCEPT ![r] = [Ended(r) EXCEPT !.turns = @ + 1]]
        BY <1>2, <2>4 DEF StoreReply
      <3>2. Ended(r).status = "completed" /\ Ended(r) \in RoomRecord
        BY <1>4 DEF Ended, RoomRecord
      <3>3. room'[r].status = "completed"
        BY <3>1, <3>2 DEF Inv, TypeInv, RoomRecord
      <3>4. Stage(r)' = "over"
        BY <3>3 DEF Stage, InProgress
      <3>5. room[r].turns \in Nat
        BY <1>4 DEF RoomRecord
      <3>6. results'[r] = 1
        BY <1>3, <3>3, <3>5 DEF Inv, OneResult, InProgress
      <3>7. results' = [results EXCEPT ![r] = 1]
        BY <1>3, <3>6
      <3> QED
        BY <2>2, <2>3, <2>4, <3>4, <3>7
    <2>5. CASE ~LastTurn(r)
      <3>1. /\ room' = [room EXCEPT ![r].turns = @ + 1,
                           ![r].ended = IF work[w].end THEN "awaiting_user_end" ELSE @]
            /\ UNCHANGED results
        BY <1>2, <2>5 DEF StoreReply
      <3>2. /\ room'[r].status = room[r].status
            /\ room'[r].ended = IF work[w].end THEN "awaiting_user_end" ELSE room[r].ended
        BY <1>4, <3>1 DEF Inv, TypeInv, RoomRecord
      <3>3. CASE work[w].end
        <4>1. Stage(r)' = "closing"
          BY <1>4, <3>2, <3>3 DEF Stage, InProgress
        <4>2. TypeOf[r] = "interview"
          BY <1>2, <3>3 DEF StoreReply, Inv, WorkInv, Holds, EndEarned
        <4>3. AllAnswered(r)' \/ LimitUsed(r)'
          BY <3>2, <3>3 DEF Inv, AwaitingEndIsEarned, AllAnswered, LimitUsed
        <4>4. (Talk!AllSettled(r) \/ Talk!AnswersUsed(r))'
          BY <4>3, PromiseTermsAfter
        <4> QED
          BY <2>2, <2>3, <2>5, <3>1, <4>1, <4>2, <4>4
      <3>4. CASE ~work[w].end
        <4>1. Stage(r)' = Stage(r)
          BY <3>2, <3>4 DEF Stage, InProgress
        <4> QED
          BY <2>2, <2>3, <2>5, <3>1, <4>1
      <3> QED
        BY <3>3, <3>4
    <2> QED
      BY <2>4, <2>5
  <1>11. [x \in Room |-> [j \in DOMAIN msgs[x] |-> Line(x, j)]][r][i].question
            = msgs[r][i].question
    BY <1>2 DEF Line
  <1>12. [x \in Room |-> {j \in UserMessages(x)' : msgs'[x][j].current}]
            = [[x \in Room |-> {j \in UserMessages(x) : msgs[x][j].current}] EXCEPT
                  ![r] = IF c THEN @ \cup {i} ELSE @]
    <2>1. Counts(r, i, c)
      BY <1>1, CountedMaps
    <2> QED
      BY <2>1 DEF Counts
  <1>13. [x \in Room |-> Stage(x)][r] # "over"
    BY <1>5
  <1>14. Talk!Reply(r, i, c)
    BY <1>6, <1>7, <1>8, <1>9, <1>10, <1>11, <1>12, <1>13 DEF Talk!Reply
  <1> QED
    BY <1>2, <1>14

\* Every step of the requests, workers and evaluations is one step of the promise, or none.
LEMMA TalkStep ==
    ASSUME Inv, LockInv, Inv', [Next]_vars
    PROVE  [Talk!Next]_(Talk!cvars)
  <1>1. ASSUME NEW r \in Room, CommitMessage(r) PROVE Talk!Next
    BY <1>1, SayMaps DEF Talk!Next
  <1>2. ASSUME NEW r \in Room, CompleteInterview(r) \/ CompletePractice(r) PROVE Talk!Next
    BY <1>2, EndMaps DEF Talk!Next
  <1>3. ASSUME NEW r \in Room, DismissGoalPrompt(r) PROVE Talk!Next
    BY <1>3, GoOnMaps DEF Talk!Next
  <1>4. ASSUME NEW r \in Room, NEW t \in DOMAIN evals[r], NEW found \in SUBSET Condition,
               Evaluate(r, t, found)
        PROVE  Talk!Next \/ UNCHANGED Talk!cvars
    BY <1>4, PromptMaps DEF Talk!Next
  <1>5. ASSUME NEW w \in Worker, StoreReply(w) PROVE Talk!Next
    <2>1. PICK r \in Room : \E i \in DOMAIN msgs[r], settles \in BOOLEAN :
             Talk!Reply(r, i, settles)
      BY <1>5, ReplyMaps
    <2> QED
      BY <2>1 DEF Talk!Next
  <1>6. CASE \/ \E r \in Room : \E q \in 0 .. Questions[r] : OpenMessage(r, q)
             \/ \E r \in Room : \E i \in DOMAIN msgs[r] : RetryResponse(r, i) \/ Reap(r, i)
             \/ \E r \in Room : \E t \in DOMAIN evals[r] : EvaluationFails(r, t)
             \/ \E w \in Worker : \E r \in Room : \E i \in DOMAIN msgs[r] :
                   ClaimReply(w, r, i)
             \/ \E w \in Worker :
                   \/ \E says, evades \in BOOLEAN : BeginStore(w, says, evades)
                   \/ DiscardReply(w) \/ StoreRaises(w) \/ FailReply(w)
             \/ SideJobEnds \/ UNCHANGED vars
    BY <1>6, UnseenSteps, UnseenKeeps DEF Inv
  <1> QED
    BY <1>1, <1>2, <1>3, <1>4, <1>5, <1>6 DEF Next

\* Rooms with their requests, workers, retries and evaluations implement Conversation
\* (create_message_and_job, complete, complete_interview, complete_practice and
\* dismiss_goal_prompt), for any number of rooms and turns.
THEOREM RoomsKeepConversation == Spec => KeepsConversation
  <1>1. Init => Talk!Init
    <2> SUFFICES ASSUME Init PROVE Talk!Init
      OBVIOUS
    <2>1. \A r \in Room : /\ [i \in DOMAIN msgs[r] |-> Line(r, i)] = <<>>
                          /\ {i \in UserMessages(r) : msgs[r][i].current} = {}
                          /\ Stage(r) = "open" /\ room[r].dismissed = FALSE
      BY DEF Init, UserMessages, Stage, InProgress
    <2>2. results = [r \in Room |-> 0]
      BY DEF Init
    <2> QED
      BY <2>1, <2>2 DEF Talk!Init
  <1>2. Init => LockInv
    BY DEF Init, LockInv, LockedInv, Unlocked
  <1> QED
    BY <1>1, <1>2, LockStep, TalkStep, Invariance, PTL
       DEF Spec, KeepsConversation, Talk!Spec

===============================================================================
