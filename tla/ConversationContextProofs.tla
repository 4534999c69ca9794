----------------------- MODULE ConversationContextProofs -----------------------
(***************************************************************************)
(* Proofs about ConversationContext, for any sets of workers and any       *)
(* number of messages: a provider is told of the whole conversation.       *)
(*                                                                         *)
(* The inductive invariant says that summaries are prefixes (the summary   *)
(* of the room and every summary a claim holds covers exactly the messages *)
(* up to its mark), and that the raw messages of a claim are the interval  *)
(* that begins behind the mark and reaches at least the message it is for. *)
(***************************************************************************)
EXTENDS ConversationContext, TLAPS

\* A summary covers exactly the messages up to its mark.
IsPrefix(summary) == summary.covers = 1 .. summary.through

\* The raw messages of a claim, up to message n, begin where the summary ends.
Continues(work, n) ==
    /\ work.given.through <= n
    /\ work.raw = (work.given.through + 1) .. n

MessagesInv ==
    /\ msgs \in Seq({"user", "persona"}) /\ Len(msgs) <= MaxMessages
    /\ replied \subseteq DOMAIN msgs /\ feedback \subseteq replied

\* A summary of a conversation of len messages.
GoodSummary(summary, len) ==
    summary \in Summaries /\ IsPrefix(summary) /\ summary.through <= len

\* The work of a conversation worker and of an evaluator in such a conversation.
GoodReply(work, len) ==
    /\ work \in Works /\ work.msg <= len /\ work.raw \subseteq 1 .. len
    /\ work.step # "idle" => work.msg # 0
    /\ GoodSummary(work.given, len)
    /\ work.step \in {"asking", "storing"} => \E n \in work.msg .. len : Continues(work, n)

GoodReview(work, len) ==
    /\ work \in Works /\ work.msg <= len /\ work.raw \subseteq 1 .. len
    /\ GoodSummary(work.given, len)
    /\ work.step = "asking" => work.raw = (work.given.through + 1) .. (work.msg - 1)

Inv ==
    /\ MessagesInv
    /\ GoodSummary(context, Len(msgs))
    /\ reply \in [Worker -> Works] /\ \A w \in Worker : GoodReply(reply[w], Len(msgs))
    /\ review \in [Evaluator -> Works] /\ \A e \in Evaluator : GoodReview(review[e], Len(msgs))

-------------------------------------------------------------------------------
\* All but the last two messages of an interval (split_conversation_messages) are an
\* interval that begins with it.
LEMMA OlderOfInterval ==
    ASSUME NEW t \in Nat, NEW n \in Nat
    PROVE  Older((t + 1) .. n) = (t + 1) .. (n - 2)
<1>1. ASSUME NEW i \in (t + 1) .. (n - 2)
      PROVE  i \in Older((t + 1) .. n)
  <2>1. i + 1 \in (t + 1) .. n /\ i + 2 \in (t + 1) .. n /\ i \in (t + 1) .. n
    OBVIOUS
  <2>2. i < i + 1 /\ i + 1 < i + 2
    OBVIOUS
  <2> QED BY <2>1, <2>2 DEF Older
<1>2. ASSUME NEW i \in Older((t + 1) .. n)
      PROVE  i \in (t + 1) .. (n - 2)
  BY <1>2 DEF Older
<1> QED BY <1>1, <1>2

\* The greatest element of an interval is its end.
LEMMA MaxOfInterval ==
    ASSUME NEW a \in Int, NEW b \in Int, a <= b
    PROVE  Max(a .. b) = b
<1>1. b \in a .. b /\ \A y \in a .. b : b >= y
  OBVIOUS
<1>2. \A x \in a .. b : (\A y \in a .. b : x >= y) => x = b
  OBVIOUS
<1> QED BY <1>1, <1>2 DEF Max

\* Summarising the older messages of a claim moves the mark and leaves an interval.
LEMMA SummaryMovesMark ==
    ASSUME NEW work \in Works, IsPrefix(work.given),
           NEW n \in Nat, n <= MaxMessages, Continues(work, n),
           Older(work.raw) # {}
    PROVE  LET new == Summarised(work.given, Older(work.raw))
           IN /\ new \in Summaries /\ IsPrefix(new) /\ new.through <= n
              /\ work.raw \ Older(work.raw) = (new.through + 1) .. n
<1> DEFINE t == work.given.through
           new == Summarised(work.given, Older(work.raw))
<1>1. t \in Nat /\ t <= n /\ work.raw = (t + 1) .. n /\ work.given.covers = 1 .. t
  BY ContextAssumption DEF Works, Summaries, IsPrefix, Continues, Positions
<1>2. Older(work.raw) = (t + 1) .. (n - 2)
  BY <1>1, OlderOfInterval
<1>3. t + 1 <= n - 2
  BY <1>1, <1>2
<1>4. Max(Older(work.raw)) = n - 2
  BY <1>1, <1>2, <1>3, MaxOfInterval
<1>5. new = [through |-> n - 2, covers |-> 1 .. (n - 2)]
  <2>1. (1 .. t) \cup ((t + 1) .. (n - 2)) = 1 .. (n - 2)
    BY <1>1, <1>3
  <2> QED BY <1>1, <1>2, <1>4, <2>1 DEF Summarised
<1>6. new \in Summaries
  BY <1>1, <1>3, <1>5, ContextAssumption DEF Summaries, Positions
<1>7. work.raw \ Older(work.raw) = (n - 2 + 1) .. n
  BY <1>1, <1>2, <1>3
<1> QED BY <1>1, <1>3, <1>5, <1>6, <1>7 DEF IsPrefix

-------------------------------------------------------------------------------
\* The messages are numbered from 1.
LEMMA MessagesAreNumbered ==
    ASSUME Inv
    PROVE  Len(msgs) \in 0 .. MaxMessages /\ DOMAIN msgs = 1 .. Len(msgs)
BY ContextAssumption DEF Inv, MessagesInv

\* A consumer that waits.
LEMMA IdleIsGood ==
    ASSUME NEW len \in Nat
    PROVE  Idle \in Works /\ GoodSummary(NoSummary, len) /\ GoodReply(Idle, len) /\ GoodReview(Idle, len)
<1>1. NoSummary \in Summaries /\ NoSummary.through = 0 /\ NoSummary.covers = {}
  BY ContextAssumption DEF NoSummary, Summaries, Positions
<1>2. GoodSummary(NoSummary, len)
  BY <1>1 DEF GoodSummary, IsPrefix
<1>3. Idle \in Works /\ Idle.msg = 0 /\ Idle.raw = {} /\ Idle.given = NoSummary /\ Idle.step = "idle"
  BY <1>1, ContextAssumption DEF Idle, Works, Positions
<1> QED BY <1>2, <1>3 DEF GoodReply, GoodReview

\* Messages that are added disturb no summary and no claim.
LEMMA GoodStaysGood ==
    ASSUME NEW len \in Nat, NEW more \in Nat, len <= more, NEW work
    PROVE  /\ GoodSummary(work, len) => GoodSummary(work, more)
           /\ GoodReply(work, len) => GoodReply(work, more)
           /\ GoodReview(work, len) => GoodReview(work, more)
<1>1. \A s : GoodSummary(s, len) => GoodSummary(s, more)
  BY ContextAssumption DEF GoodSummary, Summaries
<1>2. 1 .. len \subseteq 1 .. more
  OBVIOUS
<1>3. ASSUME GoodReply(work, len) PROVE GoodReply(work, more)
  <2>1. work \in Works /\ work.msg \in Nat /\ work.msg <= more
    BY <1>3, ContextAssumption DEF GoodReply, Works
  <2>2. work.msg .. len \subseteq work.msg .. more
    BY <2>1
  <2> QED BY <1>1, <1>2, <1>3, <2>1, <2>2 DEF GoodReply
<1>4. ASSUME GoodReview(work, len) PROVE GoodReview(work, more)
  <2>1. work \in Works /\ work.msg \in Nat /\ work.msg <= more
    BY <1>4, ContextAssumption DEF GoodReview, Works
  <2> QED BY <1>1, <1>2, <1>4, <2>1 DEF GoodReview
<1> QED BY <1>1, <1>3, <1>4

\* The invariant holds in the empty room.
LEMMA InitInv == Init => Inv
<1> SUFFICES ASSUME Init PROVE Inv
  OBVIOUS
<1>1. Len(msgs) = 0 /\ msgs \in Seq({"user", "persona"}) /\ DOMAIN msgs = {}
  BY DEF Init
<1>2. MessagesInv
  BY <1>1, ContextAssumption DEF Init, MessagesInv
<1> QED BY <1>1, <1>2, IdleIsGood DEF Init, Inv

\* A step of one conversation worker that touches nothing else.
LEMMA ReplyStep ==
    ASSUME Inv, NEW w \in Worker, NEW work,
           GoodReply(work, Len(msgs)),
           reply' = [reply EXCEPT ![w] = work],
           UNCHANGED <<msgs, replied, context, feedback, review>>
    PROVE  Inv'
<1>1. work \in Works
  BY DEF GoodReply
<1>2. reply' \in [Worker -> Works] /\ \A v \in Worker : GoodReply(reply'[v], Len(msgs))
  BY <1>1 DEF Inv
<1>3. MessagesInv'
  BY DEF Inv, MessagesInv
<1> QED BY <1>2, <1>3 DEF Inv, GoodSummary, GoodReply, GoodReview, IsPrefix, Continues

\* A step of one evaluator that at most takes feedback from what is due.
LEMMA ReviewStep ==
    ASSUME Inv, NEW e \in Evaluator, NEW work,
           GoodReview(work, Len(msgs)),
           review' = [review EXCEPT ![e] = work],
           feedback' \subseteq feedback,
           UNCHANGED <<msgs, replied, context, reply>>
    PROVE  Inv'
<1>1. work \in Works
  BY DEF GoodReview
<1>2. review' \in [Evaluator -> Works] /\ \A d \in Evaluator : GoodReview(review'[d], Len(msgs))
  BY <1>1 DEF Inv
<1>3. MessagesInv'
  BY DEF Inv, MessagesInv
<1> QED BY <1>2, <1>3 DEF Inv, GoodSummary, GoodReply, GoodReview, IsPrefix, Continues

\* A message takes the next number.
LEMMA Appended ==
    ASSUME Inv, Len(msgs) < MaxMessages, NEW who \in {"user", "persona"},
           msgs' = Append(msgs, who)
    PROVE  /\ msgs' \in Seq({"user", "persona"}) /\ Len(msgs') = Len(msgs) + 1
           /\ Len(msgs') <= MaxMessages /\ Len(msgs) \in Nat /\ Len(msgs') \in Nat
           /\ DOMAIN msgs \subseteq DOMAIN msgs'
<1>1. msgs \in Seq({"user", "persona"})
  BY DEF Inv, MessagesInv
<1> QED BY <1>1, ContextAssumption

\* SendMessage keeps the invariant.
LEMMA SendMessageInv == Inv /\ SendMessage => Inv'
<1> SUFFICES ASSUME Inv, SendMessage PROVE Inv'
  OBVIOUS
<1>1. /\ msgs' \in Seq({"user", "persona"}) /\ Len(msgs') <= MaxMessages
      /\ Len(msgs) \in Nat /\ Len(msgs') \in Nat /\ Len(msgs) <= Len(msgs')
      /\ DOMAIN msgs \subseteq DOMAIN msgs'
  BY Appended DEF SendMessage
<1>2. MessagesInv'
  BY <1>1 DEF SendMessage, Inv, MessagesInv
<1>3. GoodSummary(context, Len(msgs'))
  BY <1>1, GoodStaysGood DEF Inv
<1>4. \A w \in Worker : GoodReply(reply[w], Len(msgs'))
  BY <1>1, GoodStaysGood DEF Inv
<1>5. \A e \in Evaluator : GoodReview(review[e], Len(msgs'))
  BY <1>1, GoodStaysGood DEF Inv
<1> QED BY <1>2, <1>3, <1>4, <1>5
        DEF SendMessage, Inv, GoodSummary, GoodReply, GoodReview, IsPrefix, Continues

\* ClaimReply keeps the invariant.
LEMMA ClaimReplyInv == ASSUME NEW w \in Worker, NEW m \in DOMAIN msgs
                       PROVE  Inv /\ ClaimReply(w, m) => Inv'
<1> SUFFICES ASSUME Inv, ClaimReply(w, m) PROVE Inv'
  OBVIOUS
<1> DEFINE work == [Idle EXCEPT !.step = "reading", !.msg = m, !.given = context]
<1>1. m \in 1 .. Len(msgs) /\ Len(msgs) \in 0 .. MaxMessages
  BY MessagesAreNumbered
<1>2. work.step = "reading" /\ work.msg = m /\ work.given = context /\ work.raw = {}
  BY DEF Idle
<1>3. work \in Works
  <2>1. Idle \in Works /\ context \in Summaries /\ m \in 0 .. MaxMessages
    BY <1>1, IdleIsGood, ContextAssumption DEF Inv, GoodSummary
  <2> QED BY <2>1 DEF Works
<1>4. GoodReply(work, Len(msgs))
  BY <1>1, <1>2, <1>3 DEF Inv, GoodReply
<1> QED BY <1>4, ReplyStep DEF ClaimReply

\* The messages behind a mark.
LEMMA UncoveredIsInterval ==
    ASSUME Inv, NEW summary, GoodSummary(summary, Len(msgs))
    PROVE  /\ summary.through \in Nat
           /\ Uncovered(summary) = (summary.through + 1) .. Len(msgs)
BY MessagesAreNumbered, ContextAssumption DEF Uncovered, GoodSummary, Summaries

\* ReadMessages keeps the invariant.
LEMMA ReadMessagesInv == ASSUME NEW w \in Worker PROVE Inv /\ ReadMessages(w) => Inv'
<1> SUFFICES ASSUME Inv, ReadMessages(w) PROVE Inv'
  OBVIOUS
<1> DEFINE old == reply[w]
           work == [old EXCEPT !.step = "asking", !.raw = Uncovered(old.given)]
<1>1. Len(msgs) \in 0 .. MaxMessages
  BY MessagesAreNumbered
<1>2. old \in Works /\ GoodReply(old, Len(msgs)) /\ old.step = "reading"
  BY DEF Inv, ReadMessages
<1>3. old.given.through \in Nat /\ old.given.through <= Len(msgs)
      /\ Uncovered(old.given) = (old.given.through + 1) .. Len(msgs)
  BY <1>2, UncoveredIsInterval DEF GoodReply, GoodSummary
<1>4. work.step = "asking" /\ work.msg = old.msg /\ work.given = old.given
      /\ work.raw = (old.given.through + 1) .. Len(msgs)
  BY <1>2, <1>3 DEF Works
<1>5. work \in Works
  <2>1. Uncovered(old.given) \in SUBSET Positions
    BY <1>1, <1>3, ContextAssumption DEF Positions
  <2> QED BY <1>2, <2>1 DEF Works
<1>6. Len(msgs) \in work.msg .. Len(msgs) /\ Continues(work, Len(msgs))
  BY <1>1, <1>2, <1>3, <1>4, ContextAssumption DEF Continues, GoodReply, Works
<1>7. work.raw \subseteq 1 .. Len(msgs)
  BY <1>1, <1>3, <1>4
<1>8. GoodReply(work, Len(msgs))
  BY <1>2, <1>4, <1>5, <1>6, <1>7 DEF GoodReply
<1>9. reply' = [reply EXCEPT ![w] = work]
  BY <1>2 DEF ReadMessages, Inv, Works
<1> QED BY <1>8, <1>9, ReplyStep DEF ReadMessages

\* Generate keeps the invariant.
LEMMA GenerateInv == ASSUME NEW w \in Worker PROVE Inv /\ Generate(w) => Inv'
<1> SUFFICES ASSUME Inv, Generate(w) PROVE Inv'
  OBVIOUS
<1> DEFINE old == reply[w]
           older == Older(old.raw)
           plain == [old EXCEPT !.step = "storing"]
           short == Shortened(old)
<1>1. Len(msgs) \in 0 .. MaxMessages
  BY MessagesAreNumbered
<1>2. old \in Works /\ GoodReply(old, Len(msgs)) /\ old.step = "asking"
  BY DEF Inv, Generate
<1>3. PICK n \in old.msg .. Len(msgs) : Continues(old, n)
  BY <1>2 DEF GoodReply
<1>4. GoodReply(plain, Len(msgs))
  <2>1. plain \in Works /\ plain.msg = old.msg /\ plain.given = old.given /\ plain.raw = old.raw
    BY <1>2 DEF Works
  <2>2. Continues(plain, n)
    BY <1>3, <2>1 DEF Continues
  <2> QED BY <1>2, <1>3, <2>1, <2>2 DEF GoodReply
<1>5. ASSUME older # {} PROVE GoodReply(short, Len(msgs))
  <2> DEFINE new == Summarised(old.given, older)
  <2>1. n \in Nat /\ n <= Len(msgs) /\ n <= MaxMessages
    BY <1>1, <1>2, <1>3, ContextAssumption DEF Works
  <2>2. /\ new \in Summaries /\ IsPrefix(new) /\ new.through <= n
        /\ old.raw \ older = (new.through + 1) .. n
    BY <1>2, <1>3, <1>5, <2>1, SummaryMovesMark DEF GoodReply, GoodSummary
  <2>3. short.step = "storing" /\ short.msg = old.msg /\ short.given = new /\ short.raw = old.raw \ older
    BY <1>2 DEF Works, Shortened
  <2>4. short \in Works
    BY <1>2, <2>2 DEF Works, Shortened
  <2>5. Continues(short, n)
    BY <2>2, <2>3 DEF Continues
  <2>6. new.through <= Len(msgs)
    BY <2>1, <2>2, <1>1, ContextAssumption DEF Summaries
  <2> QED BY <1>2, <1>3, <2>2, <2>3, <2>4, <2>5, <2>6 DEF GoodReply, GoodSummary
<1>6. \/ reply' = [reply EXCEPT ![w] = plain]
      \/ older # {} /\ reply' = [reply EXCEPT ![w] = short]
  BY DEF Generate
<1> QED BY <1>4, <1>5, <1>6, ReplyStep DEF Generate

\* Release keeps the invariant.
LEMMA ReleaseInv == ASSUME NEW w \in Worker PROVE Inv /\ Release(w) => Inv'
<1> SUFFICES ASSUME Inv, Release(w) PROVE Inv'
  OBVIOUS
<1>1. GoodReply(Idle, Len(msgs))
  BY MessagesAreNumbered, IdleIsGood
<1> QED BY <1>1, ReplyStep DEF Release

\* StoreReply keeps the invariant.
LEMMA StoreReplyInv == ASSUME NEW w \in Worker PROVE Inv /\ StoreReply(w) => Inv'
<1> SUFFICES ASSUME Inv, StoreReply(w) PROVE Inv'
  OBVIOUS
<1>1. /\ msgs' \in Seq({"user", "persona"}) /\ Len(msgs') <= MaxMessages
      /\ Len(msgs) \in Nat /\ Len(msgs') \in Nat /\ Len(msgs) <= Len(msgs')
      /\ DOMAIN msgs \subseteq DOMAIN msgs' /\ Len(msgs') = Len(msgs) + 1
  BY Appended DEF StoreReply
<1>2. reply[w] \in Works /\ GoodReply(reply[w], Len(msgs)) /\ reply[w].step = "storing"
  BY DEF Inv, StoreReply
<1>3. reply[w].msg \in DOMAIN msgs
  BY <1>2, MessagesAreNumbered, ContextAssumption DEF GoodReply, Works
<1>4. MessagesInv'
  BY <1>1, <1>3 DEF StoreReply, Inv, MessagesInv
<1>5. context' \in {context, reply[w].given}
  BY DEF StoreReply, Stored
<1>6. GoodSummary(context', Len(msgs'))
  BY <1>1, <1>2, <1>5, GoodStaysGood DEF Inv, GoodReply
<1>7. reply' \in [Worker -> Works] /\ \A v \in Worker : GoodReply(reply'[v], Len(msgs'))
  <2>1. Idle \in Works /\ GoodReply(Idle, Len(msgs'))
    BY <1>1, IdleIsGood
  <2>2. \A v \in Worker : GoodReply(reply[v], Len(msgs'))
    BY <1>1, GoodStaysGood DEF Inv
  <2> QED BY <2>1, <2>2 DEF StoreReply, Inv
<1>8. \A e \in Evaluator : GoodReview(review[e], Len(msgs'))
  BY <1>1, GoodStaysGood DEF Inv
<1> QED BY <1>4, <1>6, <1>7, <1>8
        DEF StoreReply, Inv, GoodSummary, GoodReply, GoodReview, IsPrefix, Continues

\* ClaimFeedback keeps the invariant.
LEMMA ClaimFeedbackInv == ASSUME NEW e \in Evaluator, NEW m \in feedback
                          PROVE  Inv /\ ClaimFeedback(e, m) => Inv'
<1> SUFFICES ASSUME Inv, ClaimFeedback(e, m) PROVE Inv'
  OBVIOUS
<1> DEFINE work == [Idle EXCEPT !.step = "reading", !.msg = m, !.given = context]
<1>1. m \in 1 .. Len(msgs) /\ Len(msgs) \in 0 .. MaxMessages
  BY MessagesAreNumbered DEF Inv, MessagesInv
<1>2. work.step = "reading" /\ work.msg = m /\ work.given = context /\ work.raw = {}
  BY DEF Idle
<1>3. work \in Works
  <2>1. Idle \in Works /\ context \in Summaries /\ m \in 0 .. MaxMessages
    BY <1>1, IdleIsGood, ContextAssumption DEF Inv, GoodSummary
  <2> QED BY <2>1 DEF Works
<1>4. GoodReview(work, Len(msgs))
  BY <1>1, <1>2, <1>3 DEF Inv, GoodReview
<1> QED BY <1>4, ReviewStep DEF ClaimFeedback

\* ReadPreceding keeps the invariant.
LEMMA ReadPrecedingInv == ASSUME NEW e \in Evaluator PROVE Inv /\ ReadPreceding(e) => Inv'
<1> SUFFICES ASSUME Inv, ReadPreceding(e) PROVE Inv'
  OBVIOUS
<1> DEFINE old == review[e]
           before == {i \in Uncovered(old.given) : i < old.msg}
           work == [old EXCEPT !.step = "asking", !.raw = before]
<1>1. Len(msgs) \in 0 .. MaxMessages
  BY MessagesAreNumbered
<1>2. old \in Works /\ GoodReview(old, Len(msgs)) /\ old.msg \in Nat /\ old.msg <= Len(msgs)
  BY ContextAssumption DEF Inv, GoodReview, Works
<1>3. old.given.through \in Nat
      /\ Uncovered(old.given) = (old.given.through + 1) .. Len(msgs)
  BY <1>2, UncoveredIsInterval DEF GoodReview
<1>4. before = (old.given.through + 1) .. (old.msg - 1)
  BY <1>1, <1>2, <1>3
<1>5. work.step = "asking" /\ work.msg = old.msg /\ work.given = old.given
      /\ work.raw = before
  BY <1>2 DEF Works
<1>6. work \in Works
  <2>1. before \in SUBSET Positions
    BY <1>1, <1>2, <1>3, <1>4, ContextAssumption DEF Positions
  <2> QED BY <1>2, <2>1 DEF Works
<1>7. before \subseteq 1 .. Len(msgs)
  BY <1>1, <1>2, <1>3, <1>4
<1>8. GoodReview(work, Len(msgs))
  BY <1>2, <1>4, <1>5, <1>6, <1>7 DEF GoodReview
<1>9. review' = [review EXCEPT ![e] = work]
  BY <1>2 DEF ReadPreceding, Inv, Works
<1> QED BY <1>8, <1>9, ReviewStep DEF ReadPreceding

\* EndFeedback keeps the invariant.
LEMMA EndFeedbackInv == ASSUME NEW e \in Evaluator PROVE Inv /\ EndFeedback(e) => Inv'
<1> SUFFICES ASSUME Inv, EndFeedback(e) PROVE Inv'
  OBVIOUS
<1>1. GoodReview(Idle, Len(msgs))
  BY MessagesAreNumbered, IdleIsGood
<1> QED BY <1>1, ReviewStep DEF EndFeedback

\* Every step keeps the invariant.
LEMMA NextInv == Inv /\ [Next]_vars => Inv'
<1> SUFFICES ASSUME Inv, [Next]_vars PROVE Inv'
  OBVIOUS
<1>1. CASE SendMessage
  BY <1>1, SendMessageInv
<1>2. CASE \E w \in Worker : \E m \in DOMAIN msgs : ClaimReply(w, m)
  BY <1>2, ClaimReplyInv
<1>3. CASE \E w \in Worker : ReadMessages(w)
  BY <1>3, ReadMessagesInv
<1>4. CASE \E w \in Worker : Generate(w)
  BY <1>4, GenerateInv
<1>5. CASE \E w \in Worker : StoreReply(w)
  BY <1>5, StoreReplyInv
<1>6. CASE \E w \in Worker : Release(w)
  BY <1>6, ReleaseInv
<1>7. CASE \E e \in Evaluator : \E m \in feedback : ClaimFeedback(e, m)
  BY <1>7, ClaimFeedbackInv
<1>8. CASE \E e \in Evaluator : ReadPreceding(e)
  BY <1>8, ReadPrecedingInv
<1>9. CASE \E e \in Evaluator : EndFeedback(e)
  BY <1>9, EndFeedbackInv
<1>10. CASE UNCHANGED vars
  BY <1>10 DEF vars, Inv, MessagesInv, GoodSummary, GoodReply, GoodReview, IsPrefix, Continues
<1> QED BY <1>1, <1>2, <1>3, <1>4, <1>5, <1>6, <1>7, <1>8, <1>9, <1>10 DEF Next

\* The invariant holds always.
LEMMA InvHolds == Spec => []Inv
BY InitInv, NextInv, PTL DEF Spec

-------------------------------------------------------------------------------
\* Messages, summaries and claims keep their shape: a claim never holds a message that is
\* not there, and feedback is due only for turns whose reply is stored.
THEOREM TypeCorrect == Spec => []TypeOK
<1>1. ASSUME Inv PROVE TypeOK
  BY <1>1, MessagesAreNumbered
     DEF Inv, MessagesInv, GoodSummary, GoodReply, GoodReview, TypeOK
<1> QED BY <1>1, InvHolds, PTL

\* The provider of a reply is told of every message up to the one it answers, and of none
\* twice, in rooms of any length and with any number of workers that summarise and store
\* beside each other (ConversationAdapter.claim, complete, _conversation).
THEOREM ReplyContextIsComplete == Spec => []ReplyContextComplete
<1>1. ASSUME Inv, NEW w \in Worker, reply[w].step \in {"asking", "storing"}
      PROVE  /\ 1 .. reply[w].msg \subseteq reply[w].given.covers \cup reply[w].raw
             /\ reply[w].given.covers \cap reply[w].raw = {}
  <2>1. GoodReply(reply[w], Len(msgs))
    BY <1>1 DEF Inv
  <2>2. PICK n \in reply[w].msg .. Len(msgs) : Continues(reply[w], n)
    BY <1>1, <2>1 DEF GoodReply
  <2>3. reply[w].given.through \in Nat /\ reply[w].msg \in Nat /\ Len(msgs) \in Nat
    BY <1>1, <2>1, MessagesAreNumbered, ContextAssumption
       DEF GoodReply, GoodSummary, Works, Summaries
  <2>4. /\ reply[w].given.covers = 1 .. reply[w].given.through
        /\ reply[w].raw = (reply[w].given.through + 1) .. n
    BY <2>1, <2>2 DEF GoodReply, GoodSummary, IsPrefix, Continues
  <2> QED BY <2>2, <2>3, <2>4
<1>2. Inv => ReplyContextComplete
  BY <1>1 DEF ReplyContextComplete
<1> QED BY <1>2, InvHolds, PTL

\* The provider of feedback is told of every message before the one it scores, however
\* late the feedback is claimed or retried (FeedbackAdapter.claim).
THEOREM FeedbackContextIsComplete == Spec => []FeedbackContextComplete
<1>1. ASSUME Inv, NEW e \in Evaluator, review[e].step = "asking"
      PROVE  1 .. (review[e].msg - 1) \subseteq review[e].given.covers \cup review[e].raw
  <2>1. GoodReview(review[e], Len(msgs))
    BY <1>1 DEF Inv
  <2>2. review[e].given.through \in Nat /\ review[e].msg \in Nat
    BY <2>1, ContextAssumption DEF GoodReview, GoodSummary, Works, Summaries
  <2>3. /\ review[e].given.covers = 1 .. review[e].given.through
        /\ review[e].raw = (review[e].given.through + 1) .. (review[e].msg - 1)
    BY <1>1, <2>1 DEF GoodReview, GoodSummary, IsPrefix
  <2> QED BY <2>2, <2>3
<1>2. Inv => FeedbackContextComplete
  BY <1>1 DEF FeedbackContextComplete
<1> QED BY <1>2, InvHolds, PTL
================================================================================
