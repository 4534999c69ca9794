--------------------------- MODULE IdempotencyProofs ---------------------------
(***************************************************************************)
(* Proofs about Idempotency, for any keys, requests, payloads and leases:  *)
(* a key takes effect once, and its clients are told the same.             *)
(*                                                                         *)
(* None of the three properties is inductive.  The invariant adds what the *)
(* row of a key says about its effect, which depends on the shape of the   *)
(* operation: where effect and completion share a transaction the row is   *)
(* completed exactly when the effect happened; a voice message may have    *)
(* its effect and an open row, and then the unique key of the message and  *)
(* the request that still owes the completion are what keeps it at one.    *)
(***************************************************************************)
EXTENDS Idempotency, AccountLeftovers, TLAPS

\* The row r and the number e of effects of a key whose operation has shape s.
Settled(r, e, s) ==
    /\ s = "unkeyed" => r.state = "none"
    /\ s # "unkeyed" => e \in {0, 1}
    /\ s \in {"single", "split"} /\ r.state # "completed" => e = 0
    /\ r.state = "completed" =>
          e = 1 /\ r.answer \in Request /\ r.fingerprint = FingerprintOf[r.answer]

KeysInv == \A k \in Key : Settled(record[k], effects[k], ShapeOf[k])

\* A request between two transactions, with n the effects of its key: the deletion
\* of a room has none to show, a voice message has stored its message.
Underway(where, n, s) ==
    /\ where = "working" => s = "split"
    /\ where = "worked" => s = "voice" /\ n = 1

RequestsInv ==
    \A q \in Request : Underway(pc[q], effects[KeyOf[q]], ShapeOf[KeyOf[q]])

\* What a client was told, against the row and the effects of its key.
Honest(told, r, e, s) ==
    told \in Request =>
        /\ e > 0
        /\ s # "unkeyed" => r.state = "completed" /\ r.answer = told

AnswersInv ==
    \A q \in Request :
        Honest(seen[q], record[KeyOf[q]], effects[KeyOf[q]], ShapeOf[KeyOf[q]])

Inv == TypeOK /\ KeysInv /\ RequestsInv /\ AnswersInv

-------------------------------------------------------------------------------
\* The rows that complete, fail_retryable and claim write are rows.
LEMMA WrittenRecords ==
    ASSUME NEW q \in Request
    PROVE  /\ ClaimedRecord(q) \in Record /\ ClaimedRecord(q).state = "in_progress"
           /\ FailedRecord(q) \in Record /\ FailedRecord(q).state = "failed"
           /\ CompletedRecord(q) \in Record /\ CompletedRecord(q).state = "completed"
           /\ CompletedRecord(q).answer = q
           /\ CompletedRecord(q).fingerprint = FingerprintOf[q]
BY RecordsAssumption
   DEF ClaimedRecord, FailedRecord, CompletedRecord, Record, RecordState

\* A completed row is never claimed, nor held: claim replays it and complete and
\* fail_retryable miss it.
LEMMA CompletedIsClosed ==
    ASSUME NEW q \in Request, Claims(q) \/ HoldsClaim(q)
    PROVE  record[KeyOf[q]].state # "completed"
BY DEF Claims, HoldsClaim, Mine

\* What a request may do to the row and the count of its own key, and to its own
\* place and answer, without disturbing anyone: the count does not fall, a completed
\* row is left alone, and a success is the response that the row then holds.
LEMMA OneKeyStep ==
    ASSUME Inv, NEW q \in Request, NEW r \in Record, NEW e \in 0 .. MaxEffects,
           NEW where \in {"idle", "working", "worked"}, NEW told \in Answer,
           NEW k, k = KeyOf[q],
           record' = [record EXCEPT ![k] = r],
           effects' = [effects EXCEPT ![k] = e],
           pc' = [pc EXCEPT ![q] = where],
           seen' = [seen EXCEPT ![q] = told],
           failed' \subseteq Key,
           Settled(r, e, ShapeOf[k]), Underway(where, e, ShapeOf[k]),
           Honest(told, r, e, ShapeOf[k]),
           e >= effects[k],
           record[k].state = "completed" => r = record[k]
    PROVE  Inv'
<1>1. k \in Key /\ ShapeOf[k] \in Shape
  BY RecordsAssumption, IdempotencyAssumption
<1>2. TypeOK'
  BY <1>1 DEF Inv, TypeOK, RecordsTypeOK
<1>3. /\ record \in [Key -> Record] /\ effects \in [Key -> 0 .. MaxEffects]
      /\ pc \in [Request -> {"idle", "working", "worked"}] /\ seen \in [Request -> Answer]
      /\ KeyOf \in [Request -> Key] /\ MaxEffects \in Nat
  BY RecordsAssumption, IdempotencyAssumption DEF Inv, TypeOK, RecordsTypeOK
<1>4. KeysInv'
  BY <1>1, <1>3 DEF Inv, KeysInv
<1>5. ASSUME NEW p \in Request
      PROVE  /\ Underway(pc'[p], effects'[KeyOf[p]], ShapeOf[KeyOf[p]])
             /\ Honest(seen'[p], record'[KeyOf[p]], effects'[KeyOf[p]], ShapeOf[KeyOf[p]])
  <2>1. CASE p = q
    BY <1>1, <1>3, <2>1
  <2>2. CASE p # q /\ KeyOf[p] # k
    BY <1>1, <1>3, <2>2 DEF Inv, RequestsInv, AnswersInv
  <2>3. CASE p # q /\ KeyOf[p] = k
    <3>1. /\ pc'[p] = pc[p] /\ seen'[p] = seen[p]
          /\ record'[k] = r /\ effects'[k] = e
      BY <1>1, <1>3, <2>3
    <3>2. Underway(pc[p], effects[k], ShapeOf[k]) /\ Honest(seen[p], record[k], effects[k], ShapeOf[k])
      BY <2>3 DEF Inv, RequestsInv, AnswersInv
    <3>3. Underway(pc[p], e, ShapeOf[k])
      BY <3>2, <1>3, <1>1 DEF Underway, Settled
    <3>4. Honest(seen[p], r, e, ShapeOf[k])
      BY <3>2, <1>3, <1>1 DEF Honest
    <3> QED BY <2>3, <3>1, <3>3, <3>4
  <2> QED BY <2>1, <2>2, <2>3
<1> QED BY <1>2, <1>4, <1>5 DEF Inv, RequestsInv, AnswersInv

\* The facts about a request, its key and its row that every step starts from.
LEMMA RequestFacts ==
    ASSUME Inv, NEW q \in Request
    PROVE  /\ KeyOf[q] \in Key /\ ShapeOf[KeyOf[q]] \in Shape
           /\ record \in [Key -> Record] /\ effects \in [Key -> 0 .. MaxEffects]
           /\ pc \in [Request -> {"idle", "working", "worked"}]
           /\ seen \in [Request -> Answer]
           /\ record[KeyOf[q]] \in Record /\ effects[KeyOf[q]] \in 0 .. MaxEffects
           /\ pc[q] \in {"idle", "working", "worked"} /\ seen[q] \in Answer
           /\ Settled(record[KeyOf[q]], effects[KeyOf[q]], ShapeOf[KeyOf[q]])
           /\ Underway(pc[q], effects[KeyOf[q]], ShapeOf[KeyOf[q]])
           /\ Honest(seen[q], record[KeyOf[q]], effects[KeyOf[q]], ShapeOf[KeyOf[q]])
           /\ q \in Answer /\ "conflict" \in Answer /\ "error" \in Answer
           /\ "conflict" \notin Request /\ "error" \notin Request /\ "nothing" \notin Request
           /\ MaxEffects \in Nat /\ MaxEffects >= 1
           /\ failed \subseteq Key
BY RecordsAssumption, IdempotencyAssumption
   DEF Inv, TypeOK, RecordsTypeOK, KeysInv, RequestsInv, AnswersInv, Answer

\* A step that writes no row and no effect and answers with an error or a conflict.
LEMMA ErrorStep ==
    ASSUME Inv, NEW q \in Request, NEW told \in {"conflict", "error"},
           NEW where \in {"idle", pc[q]},
           Answered(q, told), Goes(q, where),
           UNCHANGED <<record, effects, failed>>
    PROVE  Inv'
<1> DEFINE k == KeyOf[q]
<1>1. /\ record' = [record EXCEPT ![k] = record[k]]
      /\ effects' = [effects EXCEPT ![k] = effects[k]]
      /\ seen' = [seen EXCEPT ![q] = told]
      /\ pc' = [pc EXCEPT ![q] = where]
      /\ failed' \subseteq Key
  BY RequestFacts DEF Answered, Goes
<1>2. /\ record[k] \in Record /\ effects[k] \in 0 .. MaxEffects /\ effects[k] >= effects[k]
      /\ Settled(record[k], effects[k], ShapeOf[k])
      /\ where \in {"idle", "working", "worked"} /\ told \in Answer
  BY RequestFacts
<1>3. Honest(told, record[k], effects[k], ShapeOf[k])
  BY RequestFacts DEF Honest
<1>4. Underway(where, effects[k], ShapeOf[k])
  BY RequestFacts DEF Underway
<1> HIDE DEF k
<1> QED BY <1>1, <1>2, <1>3, <1>4, OneKeyStep DEF k

\* A request that stays where it is.
LEMMA Stays ==
    ASSUME Inv, NEW q \in Request, UNCHANGED pc
    PROVE  Goes(q, pc[q])
BY RequestFacts DEF Goes

LEMMA RefuseInv ==
    ASSUME Inv, NEW q \in Request, Refuse(q)
    PROVE  Inv'
BY Stays, ErrorStep DEF Refuse

LEMMA AbortInv ==
    ASSUME Inv, NEW q \in Request,
           AbortSingle(q) \/ AbortVoice(q) \/ AbandonSplit(q) \/ AbandonVoice(q)
    PROVE  Inv'
<1>1. CASE AbortSingle(q) \/ AbortVoice(q)
  BY <1>1, Stays, ErrorStep DEF AbortSingle, AbortVoice
<1>2. CASE AbandonSplit(q) \/ AbandonVoice(q)
  BY <1>2, ErrorStep DEF AbandonSplit, AbandonVoice
<1> QED BY <1>1, <1>2

\* A replay repeats the response of the row.
LEMMA ReplayInv ==
    ASSUME Inv, NEW q \in Request, Replay(q)
    PROVE  Inv'
<1> DEFINE k == KeyOf[q]
           r == record[k]
           e == effects[k]
<1>1. r.state = "completed" /\ Answered(q, r.answer) /\ UNCHANGED <<record, pc, effects, failed>>
  BY DEF Replay, Replays, Mine
<1>2. /\ record' = [record EXCEPT ![k] = r]
      /\ effects' = [effects EXCEPT ![k] = e]
      /\ seen' = [seen EXCEPT ![q] = r.answer]
      /\ pc' = [pc EXCEPT ![q] = pc[q]]
      /\ failed' \subseteq Key
  BY <1>1, RequestFacts DEF Answered
<1>3. r.answer \in Request /\ e = 1 /\ r.answer \in Answer
  BY <1>1, RequestFacts DEF Settled, Answer
<1>4. /\ r \in Record /\ e \in 0 .. MaxEffects /\ e >= e
      /\ pc[q] \in {"idle", "working", "worked"}
      /\ Settled(r, e, ShapeOf[k]) /\ Underway(pc[q], e, ShapeOf[k])
  BY RequestFacts
<1>5. Honest(r.answer, r, e, ShapeOf[k])
  BY <1>1, <1>3 DEF Honest
<1> HIDE DEF k, r, e
<1> QED BY <1>2, <1>3, <1>4, <1>5, OneKeyStep DEF k, r, e

\* Claim, effect and completion together.
LEMMA RunSingleInv ==
    ASSUME Inv, NEW q \in Request, RunSingle(q)
    PROVE  Inv'
<1> DEFINE k == KeyOf[q]
           r == CompletedRecord(q)
<1>1. record[k].state # "completed" /\ ShapeOf[k] = "single"
  BY CompletedIsClosed DEF RunSingle, Does
<1>2. effects[k] = 0
  BY <1>1, RequestFacts DEF Settled
<1>3. /\ record' = [record EXCEPT ![k] = r]
      /\ effects' = [effects EXCEPT ![k] = 1]
      /\ seen' = [seen EXCEPT ![q] = q]
      /\ pc' = [pc EXCEPT ![q] = pc[q]]
      /\ failed' \subseteq Key
  BY <1>2, RequestFacts DEF RunSingle, WithRecord, Commits, Answered
<1>4. /\ r \in Record /\ 1 \in 0 .. MaxEffects /\ 1 >= effects[k] /\ q \in Answer
      /\ pc[q] \in {"idle", "working", "worked"} /\ pc[q] = "idle"
  BY <1>2, WrittenRecords, RequestFacts DEF RunSingle
<1>5. /\ Settled(r, 1, ShapeOf[k]) /\ Honest(q, r, 1, ShapeOf[k])
      /\ Underway(pc[q], 1, ShapeOf[k])
  BY <1>1, <1>4, WrittenRecords DEF Settled, Honest, Underway
<1> HIDE DEF k, r
<1> QED BY <1>1, <1>3, <1>4, <1>5, OneKeyStep DEF k

\* The claim of a deletion changes nothing yet.
LEMMA StartSplitInv ==
    ASSUME Inv, NEW q \in Request, StartSplit(q)
    PROVE  Inv'
<1> DEFINE k == KeyOf[q]
           r == ClaimedRecord(q)
<1>1. record[k].state # "completed" /\ ShapeOf[k] = "split"
  BY CompletedIsClosed DEF StartSplit, Does
<1>2. effects[k] = 0 /\ seen[q] \notin Request
  BY <1>1, RequestFacts DEF Settled, Honest
<1>3. /\ record' = [record EXCEPT ![k] = r]
      /\ effects' = [effects EXCEPT ![k] = 0]
      /\ seen' = [seen EXCEPT ![q] = seen[q]]
      /\ pc' = [pc EXCEPT ![q] = "working"]
      /\ failed' \subseteq Key
  BY <1>2, RequestFacts DEF StartSplit, WithRecord, Goes
<1>4. r \in Record /\ 0 \in 0 .. MaxEffects /\ 0 >= effects[k] /\ seen[q] \in Answer
  BY <1>2, WrittenRecords, RequestFacts
<1>5. /\ Settled(r, 0, ShapeOf[k]) /\ Honest(seen[q], r, 0, ShapeOf[k])
      /\ Underway("working", 0, ShapeOf[k])
  BY <1>1, <1>2, WrittenRecords DEF Settled, Honest, Underway
<1> HIDE DEF k, r
<1> QED BY <1>1, <1>3, <1>4, <1>5, OneKeyStep DEF k

\* The deletion that still holds its claim is the first to take effect.
LEMMA FinishSplitInv ==
    ASSUME Inv, NEW q \in Request, FinishSplit(q)
    PROVE  Inv'
<1> DEFINE k == KeyOf[q]
           r == CompletedRecord(q)
<1>1. record[k].state # "completed" /\ ShapeOf[k] = "split"
  BY CompletedIsClosed, RequestFacts DEF FinishSplit, Underway
<1>2. effects[k] = 0
  BY <1>1, RequestFacts DEF Settled
<1>3. /\ record' = [record EXCEPT ![k] = r]
      /\ effects' = [effects EXCEPT ![k] = 1]
      /\ seen' = [seen EXCEPT ![q] = q]
      /\ pc' = [pc EXCEPT ![q] = "idle"]
      /\ failed' \subseteq Key
  BY <1>2, RequestFacts DEF FinishSplit, WithRecord, Commits, Answered, Goes
<1>4. r \in Record /\ 1 \in 0 .. MaxEffects /\ 1 >= effects[k] /\ q \in Answer
  BY <1>2, WrittenRecords, RequestFacts
<1>5. /\ Settled(r, 1, ShapeOf[k]) /\ Honest(q, r, 1, ShapeOf[k])
      /\ Underway("idle", 1, ShapeOf[k])
  BY <1>1, WrittenRecords DEF Settled, Honest, Underway
<1> HIDE DEF k, r
<1> QED BY <1>1, <1>3, <1>4, <1>5, OneKeyStep DEF k

\* A retryable failure opens the row and has had no effect.
LEMMA FailSplitInv ==
    ASSUME Inv, NEW q \in Request, FailSplit(q)
    PROVE  Inv'
<1> DEFINE k == KeyOf[q]
           r == FailedRecord(q)
<1>1. record[k].state # "completed" /\ ShapeOf[k] = "split"
  BY CompletedIsClosed, RequestFacts DEF FailSplit, Underway
<1>2. effects[k] = 0
  BY <1>1, RequestFacts DEF Settled
<1>3. /\ record' = [record EXCEPT ![k] = r]
      /\ effects' = [effects EXCEPT ![k] = 0]
      /\ seen' = [seen EXCEPT ![q] = "error"]
      /\ pc' = [pc EXCEPT ![q] = "idle"]
      /\ failed' \subseteq Key
  BY <1>2, RequestFacts DEF FailSplit, WithRecord, Answered, Goes
<1>4. r \in Record /\ 0 \in 0 .. MaxEffects /\ 0 >= effects[k] /\ "error" \in Answer
  BY <1>2, WrittenRecords, RequestFacts
<1>5. /\ Settled(r, 0, ShapeOf[k]) /\ Honest("error", r, 0, ShapeOf[k])
      /\ Underway("idle", 0, ShapeOf[k])
  BY <1>1, WrittenRecords, RequestFacts DEF Settled, Honest, Underway
<1> HIDE DEF k, r
<1> QED BY <1>1, <1>3, <1>4, <1>5, OneKeyStep DEF k

\* A voice message is stored once: its key is unique.
LEMMA RunVoiceInv ==
    ASSUME Inv, NEW q \in Request, RunVoice(q)
    PROVE  Inv'
<1> DEFINE k == KeyOf[q]
           r == ClaimedRecord(q)
<1>1. record[k].state # "completed" /\ ShapeOf[k] = "voice" /\ effects[k] = 0
  BY CompletedIsClosed DEF RunVoice, Does
<1>2. seen[q] \notin Request
  BY <1>1, RequestFacts DEF Honest
<1>3. /\ record' = [record EXCEPT ![k] = r]
      /\ effects' = [effects EXCEPT ![k] = 1]
      /\ seen' = [seen EXCEPT ![q] = seen[q]]
      /\ pc' = [pc EXCEPT ![q] = "worked"]
      /\ failed' \subseteq Key
  BY <1>1, RequestFacts DEF RunVoice, WithRecord, Goes, Commits
<1>4. r \in Record /\ 1 \in 0 .. MaxEffects /\ 1 >= effects[k] /\ seen[q] \in Answer
  BY <1>1, WrittenRecords, RequestFacts
<1>5. /\ Settled(r, 1, ShapeOf[k]) /\ Honest(seen[q], r, 1, ShapeOf[k])
      /\ Underway("worked", 1, ShapeOf[k])
  BY <1>1, <1>2, WrittenRecords DEF Settled, Honest, Underway
<1> HIDE DEF k, r
<1> QED BY <1>1, <1>3, <1>4, <1>5, OneKeyStep DEF k

\* The completion of a voice message finds its effect.
LEMMA CompleteVoiceInv ==
    ASSUME Inv, NEW q \in Request, CompleteVoice(q)
    PROVE  Inv'
<1> DEFINE k == KeyOf[q]
           r == CompletedRecord(q)
<1>1. record[k].state # "completed" /\ ShapeOf[k] = "voice" /\ effects[k] = 1
  BY CompletedIsClosed, RequestFacts DEF CompleteVoice, Underway
<1>2. /\ record' = [record EXCEPT ![k] = r]
      /\ effects' = [effects EXCEPT ![k] = 1]
      /\ seen' = [seen EXCEPT ![q] = q]
      /\ pc' = [pc EXCEPT ![q] = "idle"]
      /\ failed' \subseteq Key
  BY <1>1, RequestFacts DEF CompleteVoice, WithRecord, Answered, Goes
<1>3. r \in Record /\ 1 \in 0 .. MaxEffects /\ 1 >= effects[k] /\ q \in Answer
  BY <1>1, WrittenRecords, RequestFacts
<1>4. /\ Settled(r, 1, ShapeOf[k]) /\ Honest(q, r, 1, ShapeOf[k])
      /\ Underway("idle", 1, ShapeOf[k])
  BY <1>1, WrittenRecords DEF Settled, Honest, Underway
<1> HIDE DEF k, r
<1> QED BY <1>1, <1>2, <1>3, <1>4, OneKeyStep DEF k

\* The retry endpoints use no row; a success still comes with an effect.
LEMMA RunUnkeyedInv ==
    ASSUME Inv, NEW q \in Request, RunUnkeyed(q)
    PROVE  Inv'
<1> DEFINE k == KeyOf[q]
<1>1. CASE k \notin failed
  BY <1>1, Stays, ErrorStep DEF RunUnkeyed
<1>2. CASE k \in failed
  <2> DEFINE r == record[k]
             e == effects[k] + 1
  <2>1. ShapeOf[k] = "unkeyed" /\ r.state = "none" /\ pc[q] = "idle"
    BY RequestFacts DEF RunUnkeyed, Does, Settled
  <2>2. effects[k] < MaxEffects /\ e \in 0 .. MaxEffects /\ e >= effects[k] /\ e > 0
    BY RequestFacts DEF RunUnkeyed
  <2>3. /\ record' = [record EXCEPT ![k] = r]
        /\ effects' = [effects EXCEPT ![k] = e]
        /\ seen' = [seen EXCEPT ![q] = q]
        /\ pc' = [pc EXCEPT ![q] = "idle"]
        /\ failed' \subseteq Key
    BY <1>2, <2>1, RequestFacts DEF RunUnkeyed, Commits, Answered
  <2>4. Settled(r, e, ShapeOf[k]) /\ Honest(q, r, e, ShapeOf[k]) /\ Underway("idle", e, ShapeOf[k])
    BY <2>1, <2>2, WrittenRecords DEF Settled, Honest, Underway
  <2>5. r \in Record /\ q \in Answer
    BY RequestFacts
  <2> HIDE DEF k, r, e
  <2> QED BY <2>2, <2>3, <2>4, <2>5, OneKeyStep DEF k, r
<1> QED BY <1>1, <1>2

LEMMA RetryFailsInv ==
    ASSUME Inv, NEW k \in Key, RetryFails(k)
    PROVE  Inv'
BY DEF RetryFails, Inv, TypeOK, RecordsTypeOK, KeysInv, RequestsInv, AnswersInv

\* Time changes leases and nothing else of a row.
LEMMA TickInv ==
    ASSUME Inv, Tick
    PROVE  Inv'
<1>1. record \in [Key -> Record] /\ Lease \in Nat
  BY RecordsAssumption DEF Inv, TypeOK, RecordsTypeOK
<1>2. ASSUME NEW k \in Key
      PROVE  /\ record'[k] \in Record
             /\ record'[k].state = record[k].state /\ record'[k].answer = record[k].answer
             /\ record'[k].fingerprint = record[k].fingerprint
  BY <1>1 DEF Tick, LeasesRun, Record
<1>3. TypeOK'
  BY <1>1, <1>2 DEF Tick, LeasesRun, Inv, TypeOK, RecordsTypeOK
<1>4. KeysInv'
  BY <1>2 DEF Tick, Inv, KeysInv, Settled
<1>5. RequestsInv'
  BY DEF Tick, Inv, RequestsInv
<1>6. AnswersInv'
  BY <1>2, RecordsAssumption DEF Tick, Inv, AnswersInv, Honest
<1> QED BY <1>3, <1>4, <1>5, <1>6 DEF Inv

-------------------------------------------------------------------------------
LEMMA InitInv == Init => Inv
<1> SUFFICES ASSUME Init PROVE Inv
  OBVIOUS
<1>1. NoRecord \in Record /\ NoRecord.state = "none"
  BY RecordsAssumption DEF NoRecord, Record, RecordState
<1>2. \A k \in Key : record[k] = NoRecord /\ effects[k] = 0
  BY DEF Init, RecordsInit
<1>3. TypeOK
  BY <1>1, IdempotencyAssumption DEF Init, RecordsInit, TypeOK, RecordsTypeOK, Answer
<1>4. KeysInv
  BY <1>1, <1>2 DEF KeysInv, Settled
<1>5. RequestsInv
  BY DEF Init, RequestsInv, Underway
<1>6. AnswersInv
  BY IdempotencyAssumption DEF Init, AnswersInv, Honest
<1> QED BY <1>3, <1>4, <1>5, <1>6 DEF Inv

LEMMA NextInv == Inv /\ [Next]_vars => Inv'
<1> SUFFICES ASSUME Inv, [Next]_vars PROVE Inv'
  OBVIOUS
<1>1. ASSUME NEW q \in Request, Serve(q) PROVE Inv'
  BY <1>1, RefuseInv, ReplayInv, RunSingleInv, AbortInv, StartSplitInv, FinishSplitInv,
     FailSplitInv, RunVoiceInv, CompleteVoiceInv, RunUnkeyedInv DEF Serve
<1>2. ASSUME NEW k \in Key, RetryFails(k) PROVE Inv'
  BY <1>2, RetryFailsInv
<1>3. CASE Tick
  BY <1>3, TickInv
<1>4. CASE UNCHANGED vars
  BY <1>4 DEF vars, Inv, TypeOK, RecordsTypeOK, KeysInv, RequestsInv, AnswersInv
<1> QED BY <1>1, <1>2, <1>3, <1>4 DEF Next

LEMMA InvHolds == Spec => []Inv
BY InitInv, NextInv, PTL DEF Spec

-------------------------------------------------------------------------------
\* Every row, answer and counter has its type in every reachable state.
THEOREM TypeCorrect == Spec => []TypeOK
<1>1. Inv => TypeOK
  BY DEF Inv
<1> QED BY <1>1, InvHolds, PTL

\* The operation of a key takes effect at most once, whatever duplicates, retries,
\* lost claims and takeovers there are (IdempotencyRepository.claim and complete).
THEOREM OneEffectHolds == Spec => []OneEffect
<1>1. Inv => OneEffect
  <2> SUFFICES ASSUME Inv, NEW k \in Key, ShapeOf[k] # "unkeyed" PROVE effects[k] <= 1
    BY DEF OneEffect
  <2>1. effects[k] \in {0, 1}
    BY DEF Inv, KeysInv, Settled
  <2> QED BY <2>1
<1> QED BY <1>1, InvHolds, PTL

\* Two clients of one key that are told of success hold the same response
\* (the response_body that claim returns for a completed row).
THEOREM AnswersAgreeHolds == Spec => []AnswersAgree
<1>1. Inv => AnswersAgree
  BY DEF Inv, AnswersInv, Honest, AnswersAgree, Keyed, Does
<1> QED BY <1>1, InvHolds, PTL

\* A stored response and an answer of success come after the effect, never before
\* it (complete is the last statement of the transaction).
THEOREM AnswerMeansEffectHolds == Spec => []AnswerMeansEffect
<1>1. Inv => AnswerMeansEffect
  <2> SUFFICES ASSUME Inv PROVE AnswerMeansEffect
    OBVIOUS
  <2>1. \A k \in Key : record[k].state = "completed" => effects[k] > 0
    BY DEF Inv, KeysInv, Settled
  <2>2. \A q \in Request : seen[q] \in Request => effects[KeyOf[q]] > 0
    BY DEF Inv, AnswersInv, Honest
  <2> QED BY <2>1, <2>2 DEF AnswerMeansEffect
<1> QED BY <1>1, InvHolds, PTL

-------------------------------------------------------------------------------
\* The promise of KeyedOperation

ResponseOf(r) == IF r.state = "completed" THEN r.answer ELSE Nobody

\* What the promise looks at, before and after a step of a request whose key is k.
LEMMA PromiseFacts ==
    ASSUME Inv, NEW q \in Request, Keyed(q)
    PROVE  /\ q \in KeyedRequests /\ KeyOf[q] \in KeyedKeys
           /\ (~Promise!Open(q)) <=> record[KeyOf[q]].state = "completed"
           /\ record[KeyOf[q]].state = "completed" =>
                 (Promise!SamePayload(q)
                    <=> record[KeyOf[q]].fingerprint = FingerprintOf[q])
<1>1. q \in KeyedRequests /\ KeyOf[q] \in KeyedKeys
  BY RecordsAssumption DEF KeyedRequests, KeyedKeys, Keyed, Does
<1>2. record[KeyOf[q]].state = "completed" =>
        /\ record[KeyOf[q]].answer \in Request
        /\ record[KeyOf[q]].fingerprint = FingerprintOf[record[KeyOf[q]].answer]
  BY RequestFacts DEF Settled
<1> QED BY <1>1, <1>2, RecordsAssumption DEF Promise!Open, Promise!SamePayload

\* A request that writes a row that is not completed leaves every response alone, if the
\* row it replaces was not completed either.
LEMMA SameResponses ==
    ASSUME Inv, NEW q \in Request, NEW r \in Record,
           record' = [record EXCEPT ![KeyOf[q]] = r],
           r.state # "completed", record[KeyOf[q]].state # "completed"
    PROVE  [k \in KeyedKeys |-> ResponseOf(record'[k])]
             = [k \in KeyedKeys |-> ResponseOf(record[k])]
BY RequestFacts DEF ResponseOf, KeyedKeys

\* An answer of the code is an answer of the promise, from a request that ends here or
\* was never under way.
LEMMA AnswerMaps ==
    ASSUME Inv, NEW q \in Request, Keyed(q), NEW a, Answered(q, a),
           Goes(q, "idle") \/ (pc[q] = "idle" /\ UNCHANGED pc)
    PROVE  Promise!Answers(q, a)
<1>1. q \in KeyedRequests /\ KeyedRequests \subseteq Request
  BY DEF KeyedRequests
<1>2. [p \in KeyedRequests |-> seen'[p]]
        = [[p \in KeyedRequests |-> seen[p]] EXCEPT ![q] = a]
  BY <1>1, RequestFacts DEF Answered
<1>3. {p \in KeyedRequests : pc'[p] # "idle"} = {p \in KeyedRequests : pc[p] # "idle"} \ {q}
  BY <1>1, RequestFacts DEF Goes
<1> QED BY <1>2, <1>3 DEF Promise!Answers

\* An error or a conflict, with every row and effect left alone.
LEMMA RefusalMaps ==
    ASSUME Inv, NEW q \in Request,
           \/ Refuse(q) \/ AbortSingle(q) \/ AbortVoice(q)
           \/ AbandonSplit(q) \/ AbandonVoice(q)
    PROVE  Keyed(q) /\ (Promise!Refuse(q) \/ Promise!Fail(q))
<1>1. CASE Refuse(q)
  <2>1. Keyed(q) /\ q \notin {p \in KeyedRequests : pc[p] # "idle"}
    BY <1>1 DEF Refuse
  <2>2. Promise!Answers(q, "conflict")
    BY <1>1, <2>1, AnswerMaps DEF Refuse
  <2>3. Promise!Open(q) \/ ~Promise!SamePayload(q)
    BY <1>1, <2>1, PromiseFacts DEF Refuse, KeyReused, Busy, Replays, Mine
  <2> QED BY <1>1, <2>1, <2>2, <2>3 DEF Promise!Refuse, Refuse
<1>2. CASE AbortSingle(q) \/ AbortVoice(q)
  <2>1. Keyed(q)
    BY <1>2 DEF AbortSingle, AbortVoice, Keyed, Does
  <2>2. Promise!Open(q)
    BY <1>2, <2>1, PromiseFacts, CompletedIsClosed DEF AbortSingle, AbortVoice
  <2>3. Promise!Answers(q, "error")
    BY <1>2, <2>1, AnswerMaps DEF AbortSingle, AbortVoice
  <2> QED BY <1>2, <2>1, <2>2, <2>3 DEF Promise!Fail, AbortSingle, AbortVoice
<1>3. CASE AbandonSplit(q) \/ AbandonVoice(q)
  <2>1. Keyed(q) /\ q \in {p \in KeyedRequests : pc[p] # "idle"}
    BY <1>3, RequestFacts DEF AbandonSplit, AbandonVoice, Underway, Keyed, Does, KeyedRequests
  <2>2. Promise!Answers(q, "error")
    BY <1>3, <2>1, AnswerMaps DEF AbandonSplit, AbandonVoice
  <2> QED BY <1>3, <2>1, <2>2 DEF Promise!Fail, AbandonSplit, AbandonVoice
<1> QED BY <1>1, <1>2, <1>3

LEMMA ReplayMaps ==
    ASSUME Inv, NEW q \in Request, Replay(q)
    PROVE  Keyed(q) /\ Promise!Replay(q)
<1>1. /\ Keyed(q) /\ q \notin {p \in KeyedRequests : pc[p] # "idle"}
      /\ record[KeyOf[q]].state = "completed"
      /\ record[KeyOf[q]].fingerprint = FingerprintOf[q]
  BY DEF Replay, Replays, KeyReused, Mine
<1>2. ~Promise!Open(q) /\ Promise!SamePayload(q) /\ KeyOf[q] \in KeyedKeys
  BY <1>1, PromiseFacts
<1>3. PICK a : a = record[KeyOf[q]].answer
  OBVIOUS
<1>4. Answered(q, a)
  BY <1>3 DEF Replay, Mine
<1>5. Promise!Answers(q, a)
  BY <1>1, <1>4, AnswerMaps DEF Replay
<1>6. [k \in KeyedKeys |-> IF record[k].state = "completed"
                          THEN record[k].answer ELSE Nobody][KeyOf[q]] = a
  BY <1>1, <1>2, <1>3
<1>7. Promise!Answers(q, [k \in KeyedKeys |-> IF record[k].state = "completed"
                          THEN record[k].answer ELSE Nobody][KeyOf[q]])
  BY <1>5, <1>6 DEF Promise!Answers
<1> QED BY <1>1, <1>2, <1>7 DEF Promise!Replay, Replay

\* The count of a key that is set to one, and of one that has been one.
LEMMA EffectMaps ==
    ASSUME Inv, NEW q \in Request, Keyed(q),
           \/ effects[KeyOf[q]] = 0 /\ Commits(q)
           \/ effects[KeyOf[q]] = 1 /\ UNCHANGED effects
    PROVE  [k \in KeyedKeys |-> effects'[k]]
             = [[k \in KeyedKeys |-> effects[k]] EXCEPT ![KeyOf[q]] = 1]
<1>1. KeyOf[q] \in KeyedKeys /\ KeyedKeys \subseteq Key /\ DOMAIN effects = Key
  BY PromiseFacts, RequestFacts DEF KeyedKeys
<1>2. \A k \in KeyedKeys : effects'[k] = IF k = KeyOf[q] THEN 1 ELSE effects[k]
  BY <1>1 DEF Commits
<1> QED BY <1>1, <1>2

\* A deletion begins with nothing to show for it, a voice message with its effect.
LEMMA BeginMaps ==
    ASSUME Inv, NEW q \in Request, StartSplit(q) \/ RunVoice(q)
    PROVE  Keyed(q) /\ Promise!Begin(q)
<1>1. /\ Keyed(q) /\ record[KeyOf[q]].state # "completed"
      /\ record' = [record EXCEPT ![KeyOf[q]] = ClaimedRecord(q)]
  BY CompletedIsClosed DEF StartSplit, RunVoice, Keyed, Does, WithRecord
<1>2. q \in KeyedRequests /\ KeyOf[q] \in KeyedKeys /\ Promise!Open(q)
  BY <1>1, PromiseFacts
<1>3. [k \in KeyedKeys |-> ResponseOf(record'[k])] = [k \in KeyedKeys |-> ResponseOf(record[k])]
  BY <1>1, WrittenRecords, SameResponses
<1>4. {p \in KeyedRequests : pc'[p] # "idle"} = {p \in KeyedRequests : pc[p] # "idle"} \cup {q}
  BY <1>2, RequestFacts DEF StartSplit, RunVoice, Goes, KeyedRequests
<1>5. UNCHANGED seen /\ q \notin {p \in KeyedRequests : pc[p] # "idle"}
  BY DEF StartSplit, RunVoice
<1>6. \/ UNCHANGED [k \in KeyedKeys |-> effects[k]]
      \/ /\ [k \in KeyedKeys |-> effects[k]][KeyOf[q]] = 0
         /\ [k \in KeyedKeys |-> effects'[k]]
              = [[k \in KeyedKeys |-> effects[k]] EXCEPT ![KeyOf[q]] = 1]
  <2>1. CASE StartSplit(q)
    BY <2>1 DEF StartSplit
  <2>2. CASE RunVoice(q)
    BY <1>1, <1>2, <2>2, EffectMaps DEF RunVoice
  <2> QED BY <2>1, <2>2
<1> QED BY <1>1, <1>2, <1>3, <1>4, <1>5, <1>6 DEF Promise!Begin, ResponseOf

\* A completion stores the first and only response.
LEMMA SucceedMaps ==
    ASSUME Inv, NEW q \in Request, RunSingle(q) \/ FinishSplit(q) \/ CompleteVoice(q)
    PROVE  Keyed(q) /\ Promise!Succeed(q)
<1>1. /\ Keyed(q) /\ record[KeyOf[q]].state # "completed"
      /\ record' = [record EXCEPT ![KeyOf[q]] = CompletedRecord(q)]
  BY CompletedIsClosed, RequestFacts
     DEF RunSingle, FinishSplit, CompleteVoice, Underway, Keyed, Does, WithRecord
<1>2. q \in KeyedRequests /\ KeyOf[q] \in KeyedKeys /\ Promise!Open(q)
  BY <1>1, PromiseFacts
<1>3. [k \in KeyedKeys |-> ResponseOf(record'[k])]
        = [[k \in KeyedKeys |-> ResponseOf(record[k])] EXCEPT ![KeyOf[q]] = q]
  BY <1>1, <1>2, WrittenRecords, RequestFacts DEF ResponseOf, KeyedKeys
<1>4. /\ [k \in KeyedKeys |-> effects[k]][KeyOf[q]] \in {0, 1}
      /\ [k \in KeyedKeys |-> effects'[k]]
           = [[k \in KeyedKeys |-> effects[k]] EXCEPT ![KeyOf[q]] = 1]
  <2>1. CASE RunSingle(q) \/ FinishSplit(q)
    <3>1. effects[KeyOf[q]] = 0 /\ Commits(q)
      BY <1>1, <2>1, RequestFacts DEF RunSingle, FinishSplit, Does, Underway, Settled
    <3> QED BY <1>1, <1>2, <3>1, EffectMaps
  <2>2. CASE CompleteVoice(q)
    <3>1. effects[KeyOf[q]] = 1 /\ UNCHANGED effects
      BY <2>2, RequestFacts DEF CompleteVoice, Underway
    <3> QED BY <1>1, <1>2, <3>1, EffectMaps
  <2> QED BY <2>1, <2>2
<1>5. Promise!Answers(q, q)
  BY <1>1, AnswerMaps DEF RunSingle, FinishSplit, CompleteVoice
<1> QED BY <1>1, <1>2, <1>3, <1>4, <1>5 DEF Promise!Succeed, ResponseOf

LEMMA FailSplitMaps ==
    ASSUME Inv, NEW q \in Request, FailSplit(q)
    PROVE  Keyed(q) /\ Promise!Fail(q)
<1>1. /\ Keyed(q) /\ record[KeyOf[q]].state # "completed"
      /\ record' = [record EXCEPT ![KeyOf[q]] = FailedRecord(q)]
  BY CompletedIsClosed, RequestFacts DEF FailSplit, Underway, Keyed, Does, WithRecord
<1>2. Promise!Open(q)
  BY <1>1, PromiseFacts
<1>3. [k \in KeyedKeys |-> ResponseOf(record'[k])] = [k \in KeyedKeys |-> ResponseOf(record[k])]
  BY <1>1, WrittenRecords, SameResponses
<1>4. Promise!Answers(q, "error")
  BY <1>1, AnswerMaps DEF FailSplit
<1> QED BY <1>1, <1>2, <1>3, <1>4 DEF Promise!Fail, FailSplit, ResponseOf

\* Steps that the promise does not see: time, and all that the retry endpoints do.
LEMMA UnseenMaps ==
    ASSUME Inv, Tick \/ (\E k \in Key : RetryFails(k)) \/ (\E q \in Request : RunUnkeyed(q))
                  \/ UNCHANGED vars
    PROVE  UNCHANGED Promise!kvars
<1>1. pc' = pc /\ (\A k \in Key : record'[k].state = record[k].state
                                  /\ record'[k].answer = record[k].answer)
  BY DEF Tick, LeasesRun, RetryFails, RunUnkeyed, vars, Inv, TypeOK, RecordsTypeOK, Record
<1>2. [k \in KeyedKeys |-> effects'[k]] = [k \in KeyedKeys |-> effects[k]]
  BY RequestFacts DEF Tick, RetryFails, RunUnkeyed, vars, Does, KeyedKeys, Commits
<1>3. [q \in KeyedRequests |-> seen'[q]] = [q \in KeyedRequests |-> seen[q]]
  BY RequestFacts DEF Tick, RetryFails, RunUnkeyed, vars, Keyed, KeyedRequests, Answered
<1>4. [k \in KeyedKeys |-> ResponseOf(record'[k])] = [k \in KeyedKeys |-> ResponseOf(record[k])]
  BY <1>1 DEF ResponseOf, KeyedKeys
<1> QED BY <1>1, <1>2, <1>3, <1>4 DEF Promise!kvars, ResponseOf

LEMMA PromiseStep ==
    ASSUME Inv, [Next]_vars
    PROVE  [Promise!Next]_(Promise!kvars)
<1>1. ASSUME NEW q \in Request, Serve(q), ~RunUnkeyed(q)
      PROVE  Promise!Next
  BY <1>1, RefusalMaps, ReplayMaps, BeginMaps, SucceedMaps, FailSplitMaps
     DEF Serve, Promise!Next, KeyedRequests
<1>2. CASE Tick \/ (\E k \in Key : RetryFails(k)) \/ (\E q \in Request : RunUnkeyed(q))
             \/ UNCHANGED vars
  BY <1>2, UnseenMaps
<1> QED BY <1>1, <1>2 DEF Next

\* The idempotency records implement KeyedOperation, for every mix of shapes, duplicates,
\* lost claims and takeovers (claim, complete and fail_retryable).
THEOREM RecordsKeepPromise == Spec => KeepsPromise
<1>1. Init => Promise!Init
  <2> SUFFICES ASSUME Init PROVE Promise!Init
    OBVIOUS
  <2>1. \A k \in KeyedKeys : record[k].state = "none" /\ effects[k] = 0
    BY DEF Init, RecordsInit, NoRecord, KeyedKeys
  <2>2. \A q \in KeyedRequests : seen[q] = "nothing" /\ pc[q] = "idle"
    BY DEF Init, KeyedRequests
  <2> QED BY <2>1, <2>2 DEF Promise!Init
<1> QED BY <1>1, PromiseStep, InvHolds, PTL DEF Spec, KeepsPromise, Promise!Spec

-------------------------------------------------------------------------------
\* Account deletion

(***************************************************************************)
(* DELETE /me claims its keys in the same table.  Account is               *)
(* AccountDeletion over the record, keys and requests of this module and   *)
(* the variables below and of AccountLeftovers; the two specifications are *)
(* proved about one after the other, and never together.                   *)
(***************************************************************************)
CONSTANTS Upload, SpeechJob, Mixes, Patient

VARIABLES sent, job, at, todo, source

Account == INSTANCE AccountDeletion

\* Since a deletion has found the store empty, whatever comes into it is late; the
\* user goes only afterwards.
EmptiedInv ==
    user = "deleted" \/ (\E q \in Request : at[q] = "emptied") => objects \subseteq late

\* The partial unique index: of the keys of a user, one is in progress.
OneInProgress ==
    \A j, k \in Key : Account!InProgress(j) /\ Account!InProgress(k) => j = k

AccountInv == Account!TypeOK /\ EmptiedInv /\ OneInProgress

\* The rows of the other keys stay as they are, and one key may be in progress.
LEMMA AccountRecordStep ==
    ASSUME AccountInv, NEW q \in Request, NEW r \in Record,
           record' = [record EXCEPT ![KeyOf[q]] = r],
           r.state = "in_progress" =>
               \A k \in Key \ {KeyOf[q]} : ~Account!InProgress(k)
    PROVE  (record \in [Key -> Record])' /\ OneInProgress'
<1>1. KeyOf[q] \in Key /\ record \in [Key -> Record]
  BY RecordsAssumption DEF AccountInv, Account!TypeOK, Account!RecordsTypeOK,
     Account!Record, Account!RecordState, Record, RecordState
<1> QED BY <1>1 DEF AccountInv, OneInProgress, Account!InProgress

\* Uploads write no row of a deletion.
LEMMA UploadsInv ==
    ASSUME AccountInv,
           \/ \E u \in Upload : Account!Admit(u) \/ Account!StoreUpload(u)
           \/ \E j \in SpeechJob : Account!ClaimSpeech(j) \/ Account!StoreSpeech(j)
           \/ \E s \in Upload \cup SpeechJob :
                 Account!Put(s) \/ Account!TakeBack(s) \/ Account!StopSource(s)
    PROVE  AccountInv'
<1> USE DEF AccountInv, Account!TypeOK, Account!RecordsTypeOK, Account!Becomes, Account!Source
<1>1. UNCHANGED <<record, sent, user, at, todo>>
  BY DEF Account!Admit, Account!StoreUpload, Account!ClaimSpeech, Account!StoreSpeech,
     Account!Put, Account!TakeBack, Account!StopSource
<1>2. OneInProgress'
  BY <1>1 DEF OneInProgress, Account!InProgress
<1>3. EmptiedInv'
  BY <1>1 DEF EmptiedInv, Account!Admit, Account!StoreUpload, Account!ClaimSpeech,
     Account!StoreSpeech, Account!Put, Account!TakeBack, Account!StopSource
<1>4. Account!TypeOK'
  BY <1>1 DEF Account!Admit, Account!StoreUpload, Account!ClaimSpeech,
     Account!StoreSpeech, Account!Put, Account!TakeBack, Account!StopSource
<1> QED BY <1>2, <1>3, <1>4

\* A deletion that goes on, and one that finds the store empty.
LEMMA DeletionInv ==
    ASSUME AccountInv, NEW q \in Request,
           Account!Start(q) \/ Account!ListAndCancel(q) \/ Account!DeleteObject(q)
             \/ Account!CheckRemaining(q)
    PROVE  AccountInv'
<1> USE DEF AccountInv, Account!TypeOK, Account!RecordsTypeOK, Account!Goes, Account!Source
<1>1. CASE Account!Start(q)
  <2>1. (record \in [Key -> Record])' /\ OneInProgress'
    BY <1>1, WrittenRecords, AccountRecordStep
       DEF Account!Start, Account!WithRecord, Account!ClaimedRecord, ClaimedRecord
  <2>2. EmptiedInv' /\ Account!TypeOK'
    BY <1>1, <2>1 DEF Account!Start, EmptiedInv, Account!Record, Account!RecordState,
       Record, RecordState
  <2> QED BY <2>1, <2>2
<1>2. CASE Account!ListAndCancel(q) \/ Account!DeleteObject(q) \/ Account!CheckRemaining(q)
  <2>1. UNCHANGED <<record, sent, user, source, late>>
    BY <1>2 DEF Account!ListAndCancel, Account!DeleteObject, Account!CheckRemaining
  <2>2. OneInProgress'
    BY <2>1 DEF OneInProgress, Account!InProgress
  <2>3. EmptiedInv'
    BY <1>2 DEF EmptiedInv, Account!ListAndCancel, Account!DeleteObject,
       Account!CheckRemaining
  <2>4. Account!TypeOK'
    BY <1>2 DEF Account!ListAndCancel, Account!DeleteObject, Account!CheckRemaining
  <2> QED BY <2>2, <2>3, <2>4
<1> QED BY <1>1, <1>2

\* The ways a deletion ends.
LEMMA DeletionEndsInv ==
    ASSUME AccountInv, NEW q \in Request,
           Account!DeleteUser(q) \/ Account!RecordFailure(q) \/ Account!Stop(q)
    PROVE  AccountInv'
<1> USE DEF AccountInv, Account!TypeOK, Account!RecordsTypeOK, Account!Goes, Account!Source
<1>1. CASE Account!DeleteUser(q)
  <2>1. NoRecord \in Record /\ NoRecord.state = "none"
    BY RecordsAssumption DEF NoRecord, Record, RecordState
  <2>2. record' = [k \in Key |-> NoRecord]
    BY <1>1 DEF Account!DeleteUser, Account!NoRecord, NoRecord
  <2>3. (record \in [Key -> Record])' /\ OneInProgress'
    BY <2>1, <2>2 DEF OneInProgress, Account!InProgress
  <2>4. EmptiedInv' /\ Account!TypeOK'
    BY <1>1, <2>3 DEF Account!DeleteUser, EmptiedInv, Account!Record, Account!RecordState,
       Record, RecordState
  <2> QED BY <2>3, <2>4
<1>2. CASE Account!RecordFailure(q)
  <2>1. (record \in [Key -> Record])' /\ OneInProgress'
    <3>1. CASE Account!HoldsClaim(q)
      BY <1>2, <3>1, WrittenRecords, AccountRecordStep
         DEF Account!RecordFailure, Account!WithRecord, Account!FailedRecord, FailedRecord
    <3>2. CASE ~Account!HoldsClaim(q)
      BY <1>2, <3>2 DEF Account!RecordFailure, OneInProgress, Account!InProgress,
         Account!Record, Account!RecordState, Record, RecordState
    <3> QED BY <3>1, <3>2
  <2>2. EmptiedInv' /\ Account!TypeOK'
    BY <1>2, <2>1 DEF Account!RecordFailure, EmptiedInv, Account!Record,
       Account!RecordState, Record, RecordState
  <2> QED BY <2>1, <2>2
<1>3. CASE Account!Stop(q)
  BY <1>3 DEF Account!Stop, EmptiedInv, OneInProgress, Account!InProgress
<1> QED BY <1>1, <1>2, <1>3

LEMMA AccountTickInv ==
    ASSUME AccountInv, Account!Tick
    PROVE  AccountInv'
<1>1. record \in [Key -> Record] /\ Lease \in Nat
  BY RecordsAssumption DEF AccountInv, Account!TypeOK, Account!RecordsTypeOK,
     Account!Record, Account!RecordState, Record, RecordState
<1>2. ASSUME NEW k \in Key
      PROVE  record'[k] \in Record /\ record'[k].state = record[k].state
  BY <1>1 DEF Account!Tick, Account!LeasesRun, Record
<1>3. (record \in [Key -> Record])'
  BY <1>2 DEF Account!Tick, Account!LeasesRun
<1>4. OneInProgress'
  BY <1>2 DEF AccountInv, OneInProgress, Account!InProgress
<1>5. Account!TypeOK' /\ EmptiedInv'
  BY <1>3 DEF AccountInv, Account!Tick, EmptiedInv, Account!TypeOK,
     Account!RecordsTypeOK, Account!Record, Account!RecordState, Record, RecordState
<1> QED BY <1>4, <1>5 DEF AccountInv

LEMMA AccountInitInv == Account!Init => AccountInv
<1> SUFFICES ASSUME Account!Init PROVE AccountInv
  OBVIOUS
<1>1. NoRecord \in Record /\ NoRecord.state = "none"
  BY RecordsAssumption DEF NoRecord, Record, RecordState
<1>2. record = [k \in Key |-> NoRecord]
  BY DEF Account!Init, Account!RecordsInit, Account!NoRecord, NoRecord
<1>3. OneInProgress
  BY <1>1, <1>2 DEF OneInProgress, Account!InProgress
<1>4. Account!TypeOK
  BY <1>1, <1>2 DEF Account!Init, Account!TypeOK, Account!RecordsTypeOK,
     Account!Record, Account!RecordState, Record, RecordState
<1> QED BY <1>3, <1>4 DEF Account!Init, AccountInv, EmptiedInv

LEMMA AccountNextInv == AccountInv /\ [Account!Next]_(Account!vars) => AccountInv'
<1> SUFFICES ASSUME AccountInv, [Account!Next]_(Account!vars) PROVE AccountInv'
  OBVIOUS
<1>1. CASE UNCHANGED Account!vars
  BY <1>1 DEF Account!vars, AccountInv, Account!TypeOK, Account!RecordsTypeOK, EmptiedInv,
     OneInProgress, Account!InProgress
<1>2. CASE Account!Next
  BY <1>2, UploadsInv, DeletionInv, DeletionEndsInv, AccountTickInv
     DEF Account!Next, Account!Source, Account!FilesRemain, Account!Fail
<1> QED BY <1>1, <1>2

LEMMA AccountInvHolds == Account!Spec => []AccountInv
BY AccountInitInv, AccountNextInv, PTL DEF Account!Spec

\* Every row, file, job and place of a deletion has its type in every reachable state.
THEOREM AccountTypeCorrect == Account!Spec => []Account!TypeOK
<1>1. AccountInv => Account!TypeOK
  BY DEF AccountInv
<1> QED BY <1>1, AccountInvHolds, PTL

\* What survives an account came after a deletion had found the store empty
\* (the second listing of delete_account).
THEOREM LeftoverIsLateHolds == Account!Spec => []LeftoverIsLate
<1>1. AccountInv => LeftoverIsLate
  BY DEF AccountInv, EmptiedInv, LeftoverIsLate
<1> QED BY <1>1, AccountInvHolds, PTL

\* Whatever keys the deletions of an account bring, at most one request holds a claim
\* (idempotency_account_delete_active_user_idx).
THEOREM OneDeletionHolds ==
    Account!Spec =>
        [](\A p, q \in Request : Account!HoldsClaim(p) /\ Account!HoldsClaim(q) => p = q)
<1>1. AccountInv =>
        \A p, q \in Request : Account!HoldsClaim(p) /\ Account!HoldsClaim(q) => p = q
  BY RecordsAssumption
     DEF AccountInv, OneInProgress, Account!InProgress, Account!HoldsClaim, Account!Mine
<1> QED BY <1>1, AccountInvHolds, PTL
=============================================================================
