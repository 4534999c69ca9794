----------------------------- MODULE Idempotency -----------------------------
(***************************************************************************)
(* The services that use idempotency records, by the shape of their        *)
(* transactions:                                                           *)
(*   single   claim, work and complete in one transaction (rooms,          *)
(*            messages, interview set-ups, documents, analyses,            *)
(*            configurations, practice rooms)                              *)
(*   split    claim committed first, work outside the database, then       *)
(*            effect and complete in one transaction, or fail_retryable    *)
(*            (delete_room)                                                *)
(*   voice    claim and effect in one transaction, complete in the next    *)
(*            (upload_voice_message)                                       *)
(*   unkeyed  the key is ignored (retry_response, retry_tts, the retries   *)
(*            of feedback, emotion and results)                            *)
(* What the work is does not matter here; "effects" counts the times it    *)
(* was committed for a key.                                                *)
(***************************************************************************)
EXTENDS IdempotencyRecords

CONSTANTS
    ShapeOf,      \* the shape of the operation a key is used for
    MaxEffects    \* bound on the effects of an unkeyed operation

Shape == {"single", "split", "voice", "unkeyed"}

ASSUME IdempotencyAssumption ==
    /\ ShapeOf \in [Key -> Shape]
    /\ MaxEffects \in Nat \ {0}
    /\ Request \cap {"nothing", "conflict", "error"} = {}

VARIABLES
    pc,           \* where a request is
    seen,         \* what the client of a request was answered last
    effects,      \* how often the operation of a key took effect
    failed        \* keys whose target row is in status failed (unkeyed)

vars == <<record, pc, seen, effects, failed>>

Answer == Request \cup {"nothing", "conflict", "error"}

TypeOK ==
    /\ RecordsTypeOK
    /\ pc \in [Request -> {"idle", "working", "worked"}]
    /\ seen \in [Request -> Answer]
    /\ effects \in [Key -> 0 .. MaxEffects]
    /\ failed \subseteq Key

Init ==
    /\ RecordsInit
    /\ pc = [q \in Request |-> "idle"]
    /\ seen = [q \in Request |-> "nothing"]
    /\ effects = [k \in Key |-> 0]
    /\ failed = {k \in Key : ShapeOf[k] = "unkeyed"}

Does(q, shape) == ShapeOf[KeyOf[q]] = shape
Keyed(q) == ~Does(q, "unkeyed")
Answered(q, a) == seen' = [seen EXCEPT ![q] = a]
Goes(q, where) == pc' = [pc EXCEPT ![q] = where]
Commits(q) == effects' = [effects EXCEPT ![KeyOf[q]] = @ + 1]

-------------------------------------------------------------------------------
\* The claim is refused: the key is busy or was used for another payload.
Refuse(q) ==
    /\ pc[q] = "idle" /\ Keyed(q)
    /\ KeyReused(q) \/ Busy(q)
    /\ Answered(q, "conflict")
    /\ UNCHANGED <<record, pc, effects, failed>>

\* The stored response is returned.
Replay(q) ==
    /\ pc[q] = "idle" /\ Keyed(q)
    /\ Replays(q)
    /\ Answered(q, Mine(q).answer)
    /\ UNCHANGED <<record, pc, effects, failed>>

\* One transaction: claim, work, complete.
RunSingle(q) ==
    /\ pc[q] = "idle" /\ Does(q, "single")
    /\ Claims(q)
    /\ record' = WithRecord(q, CompletedRecord(q))
    /\ Commits(q)
    /\ Answered(q, q)
    /\ UNCHANGED <<pc, failed>>

\* The work of that transaction raises (404, 409, 422, 429, storage down): the claim
\* is rolled back with it.
AbortSingle(q) ==
    /\ pc[q] = "idle" /\ Does(q, "single")
    /\ Claims(q)
    /\ Answered(q, "error")
    /\ UNCHANGED <<record, pc, effects, failed>>

\* An operation that stores its answer before it has done the work.
FaultyStartSplit(q) ==
    /\ pc[q] = "idle" /\ Does(q, "split")
    /\ Claims(q)
    /\ record' = WithRecord(q, CompletedRecord(q))
    /\ Goes(q, "working")
    /\ UNCHANGED <<seen, effects, failed>>

\* delete_room commits its claim before it calls the storage service ...
StartSplit(q) ==
    /\ pc[q] = "idle" /\ Does(q, "split")
    /\ Claims(q)
    /\ record' = WithRecord(q, ClaimedRecord(q))
    /\ Goes(q, "working")
    /\ UNCHANGED <<seen, effects, failed>>

\* ... and ends with the effect and the completion in one transaction ...
FinishSplit(q) ==
    /\ pc[q] = "working"
    /\ HoldsClaim(q)
    /\ record' = WithRecord(q, CompletedRecord(q))
    /\ Commits(q)
    /\ Goes(q, "idle")
    /\ Answered(q, q)
    /\ UNCHANGED failed

\* ... or, when the storage service fails, with a retryable failure ...
FailSplit(q) ==
    /\ pc[q] = "working"
    /\ HoldsClaim(q)
    /\ record' = WithRecord(q, FailedRecord(q))
    /\ Goes(q, "idle")
    /\ Answered(q, "error")
    /\ UNCHANGED <<effects, failed>>

\* ... or with nothing: the claim was lost, the last transaction was rejected, or
\* the process died.  The record keeps its lease.
AbandonSplit(q) ==
    /\ pc[q] = "working"
    /\ Goes(q, "idle")
    /\ Answered(q, "error")
    /\ UNCHANGED <<record, effects, failed>>

\* create_voice_message commits the claim together with the message.  The message
\* carries the key as client_request_id, which is unique in its room.
RunVoice(q) ==
    /\ pc[q] = "idle" /\ Does(q, "voice")
    /\ Claims(q)
    /\ effects[KeyOf[q]] = 0
    /\ record' = WithRecord(q, ClaimedRecord(q))
    /\ Commits(q)
    /\ Goes(q, "worked")
    /\ UNCHANGED <<seen, failed>>

\* The unique key of the message rejects it, or the work raises: roll back.
AbortVoice(q) ==
    /\ pc[q] = "idle" /\ Does(q, "voice")
    /\ Claims(q)
    /\ Answered(q, "error")
    /\ UNCHANGED <<record, pc, effects, failed>>

CompleteVoice(q) ==
    /\ pc[q] = "worked"
    /\ HoldsClaim(q)
    /\ record' = WithRecord(q, CompletedRecord(q))
    /\ Goes(q, "idle")
    /\ Answered(q, q)
    /\ UNCHANGED <<effects, failed>>

\* The claim was lost, or the process died after the first commit.
AbandonVoice(q) ==
    /\ pc[q] = "worked"
    /\ Goes(q, "idle")
    /\ Answered(q, "error")
    /\ UNCHANGED <<record, effects, failed>>

\* retry_response deletes the key unread and looks only at the row.
RunUnkeyed(q) ==
    /\ pc[q] = "idle" /\ Does(q, "unkeyed")
    /\ effects[KeyOf[q]] < MaxEffects
    /\ IF KeyOf[q] \in failed
       THEN /\ failed' = failed \ {KeyOf[q]}
            /\ Commits(q)
            /\ Answered(q, q)
       ELSE Answered(q, "conflict") /\ UNCHANGED <<effects, failed>>
    /\ UNCHANGED <<record, pc>>

\* The retried job fails again.
RetryFails(k) ==
    /\ ShapeOf[k] = "unkeyed"
    /\ failed' = failed \cup {k}
    /\ UNCHANGED <<record, pc, seen, effects>>

Tick == LeasesRun /\ UNCHANGED <<pc, seen, effects, failed>>

Serve(q) ==
    \/ Refuse(q) \/ Replay(q)
    \/ RunSingle(q) \/ AbortSingle(q)
    \/ StartSplit(q) \/ FinishSplit(q) \/ FailSplit(q) \/ AbandonSplit(q)
    \/ RunVoice(q) \/ AbortVoice(q) \/ CompleteVoice(q) \/ AbandonVoice(q)
    \/ RunUnkeyed(q)

Next ==
    \/ \E q \in Request : Serve(q)
    \/ \E k \in Key : RetryFails(k)
    \/ Tick

Spec == Init /\ [][Next]_vars

-------------------------------------------------------------------------------
\* Properties

\* A key takes effect at most once, whatever mix of duplicates, lost claims and
\* takeovers its requests go through (claim and complete, and the unique
\* client_request_id of a message).
OneEffect ==
    \A k \in Key : ShapeOf[k] # "unkeyed" => effects[k] <= 1

\* The API document asks the same of the retry endpoints: a required key, whose
\* repetition replays the first answer.
EveryKeyOneEffect == \A k \in Key : effects[k] <= 1

\* Everyone who is answered with success under a key is given the same response.
AnswersAgree ==
    \A p, q \in Request :
        /\ KeyOf[p] = KeyOf[q] /\ Keyed(p)
        /\ seen[p] \in Request /\ seen[q] \in Request
        => seen[p] = seen[q]

\* A response is stored, and a client told of success, only once the effect is
\* committed.
AnswerMeansEffect ==
    /\ \A k \in Key : record[k].state = "completed" => effects[k] > 0
    /\ \A q \in Request : seen[q] \in Request => effects[KeyOf[q]] > 0

\* "Partial success is recovered with the same key": once the effect is committed,
\* a request that runs alone is answered with the response and not with an error.
PartialSuccessRecovers ==
    [][\A q \in Request :
          /\ effects[KeyOf[q]] > 0
          /\ \A p \in Request : pc[p] = "idle"
          => seen'[q] = seen[q] \/ seen'[q] # "error"]_vars

-------------------------------------------------------------------------------
\* What the records implement

KeyedKeys == {k \in Key : ShapeOf[k] # "unkeyed"}
KeyedRequests == {q \in Request : Keyed(q)}

Promise == INSTANCE KeyedOperation WITH
    Key <- KeyedKeys,
    Request <- KeyedRequests,
    PayloadOf <- FingerprintOf,
    effects <- [k \in KeyedKeys |-> effects[k]],
    response <- [k \in KeyedKeys |-> IF record[k].state = "completed"
                                     THEN record[k].answer ELSE Nobody],
    seen <- [q \in KeyedRequests |-> seen[q]],
    underway <- {q \in KeyedRequests : pc[q] # "idle"}

\* The services that use idempotency records, whatever the shape of their transactions,
\* keep the promise that a client with a key relies on (KeyedOperation): one effect, one
\* response, and nobody whose payload is the same is refused once there is one.
KeepsPromise == Promise!Spec
=============================================================================
