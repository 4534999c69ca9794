---------------------------- MODULE AccountDeletion ----------------------------
(***************************************************************************)
(* DELETE /me (services/account.py, repositories/account.py) for one user, *)
(* beside the requests and workers that still add files to the user's      *)
(* prefix of the object store.  Database, object store and authentication  *)
(* service have no common transaction: each call is a step, and a request  *)
(* may fail or stop between two of them.                                   *)
(*                                                                         *)
(* Every Key is a key of the scope account.delete of this user.  A Source  *)
(* is one upload: a request that was authenticated (a document, a voice    *)
(* message) or the worker of a tts_generation job; the file bears its name.*)
(***************************************************************************)
EXTENDS IdempotencyRecords, AccountLeftovers

CONSTANTS
    Upload, SpeechJob,   \* the uploading requests, and the speech jobs
    Mixes,               \* bound: the deletions that come together
    Patient              \* deletions whose clients repeat them until they succeed

Source == Upload \cup SpeechJob

ASSUME AccountDeletionAssumption ==
    /\ Upload \cap SpeechJob = {}
    /\ Mixes \subseteq SUBSET Request /\ Patient \subseteq Request

VARIABLES
    sent,      \* the deletions that clients send
    job,       \* status of the speech jobs
    at,        \* where a deletion is
    todo,      \* files it has listed and not deleted yet
    source     \* where an upload is

vars == <<record, sent, user, objects, job, at, todo, source, late>>

TypeOK ==
    /\ RecordsTypeOK
    /\ sent \in Mixes
    /\ user \in {"active", "deleted"}
    /\ objects \subseteq Source /\ late \subseteq Source
    /\ job \in [SpeechJob -> {"queued", "processing", "succeeded", "cancelled"}]
    /\ at \in [Request -> {"idle", "claimed", "deleting", "emptied"}]
    /\ todo \in [Request -> SUBSET Source]
    /\ source \in [Source -> {"idle", "admitted", "uploaded", "ended"}]

Init ==
    /\ RecordsInit
    /\ sent \in Mixes
    /\ user = "active"
    /\ objects = {} /\ late = {}
    /\ job = [j \in SpeechJob |-> "queued"]
    /\ at = [q \in Request |-> "idle"]
    /\ todo = [q \in Request |-> {}]
    /\ source = [s \in Source |-> "idle"]

InProgress(k) == record[k].state = "in_progress"
Goes(q, where) == at' = [at EXCEPT ![q] = where]
Becomes(s, where) == source' = [source EXCEPT ![s] = where]

-------------------------------------------------------------------------------
\* Uploads

\* SqlSessionValidator.validate for every API but the deletion: the session exists
\* and no deletion of the account is in progress.
Authenticates == user = "active" /\ \A k \in Key : ~InProgress(k)

\* A request is authenticated once, when it arrives.
Admit(u) ==
    /\ source[u] = "idle" /\ Authenticates
    /\ Becomes(u, "admitted")
    /\ UNCHANGED <<record, sent, user, objects, job, at, todo, late>>

ClaimSpeech(j) ==
    /\ source[j] = "idle" /\ user = "active" /\ job[j] = "queued"
    /\ job' = [job EXCEPT ![j] = "processing"]
    /\ Becomes(j, "admitted")
    /\ UNCHANGED <<record, sent, user, objects, at, todo, late>>

Put(s) ==
    /\ source[s] = "admitted"
    /\ objects' = objects \cup {s}
    /\ late' = IF user = "deleted" \/ \E q \in Request : at[q] = "emptied"
               THEN late \cup {s} ELSE late
    /\ Becomes(s, "uploaded")
    /\ UNCHANGED <<record, sent, user, job, at, todo>>

\* The row of the file is inserted while its user exists.
StoreUpload(u) ==
    /\ source[u] = "uploaded" /\ user = "active"
    /\ Becomes(u, "ended")
    /\ UNCHANGED <<record, sent, user, objects, job, at, todo, late>>

\* complete: the row of the speech waits for its token; if the job was cancelled
\* meanwhile the transaction is rolled back and the file stays.
StoreSpeech(j) ==
    /\ source[j] = "uploaded" /\ user = "active"
    /\ job' = [job EXCEPT ![j] = IF @ = "processing" THEN "succeeded" ELSE @]
    /\ Becomes(j, "ended")
    /\ UNCHANGED <<record, sent, user, objects, at, todo, late>>

\* No user, no row: both delete the file they brought.
TakeBack(s) ==
    /\ source[s] = "uploaded" /\ user = "deleted"
    /\ objects' = objects \ {s}
    /\ Becomes(s, "ended")
    /\ UNCHANGED <<record, sent, user, job, at, todo, late>>

\* The process stops, or the provider or the store fails.
StopSource(s) ==
    /\ source[s] \in {"admitted", "uploaded"}
    /\ Becomes(s, "ended")
    /\ UNCHANGED <<record, sent, user, objects, job, at, todo, late>>

-------------------------------------------------------------------------------
\* delete_account

\* The session exists, the authentication service confirms the user, the key is
\* claimed and the claim committed.  The index idempotency_account_delete_active_user_idx
\* admits one deletion in progress: a second key is turned away (503).
Start(q) ==
    /\ q \in sent /\ at[q] = "idle" /\ user = "active" /\ Claims(q)
    /\ \A k \in Key \ {KeyOf[q]} : ~InProgress(k)
    /\ record' = WithRecord(q, ClaimedRecord(q))
    /\ Goes(q, "claimed")
    /\ UNCHANGED <<sent, user, objects, job, todo, source, late>>

\* list_storage_objects and cancel_jobs_and_cleanup_queues in one transaction; the
\* messages go with their jobs.
ListAndCancel(q) ==
    /\ at[q] = "claimed"
    /\ todo' = [todo EXCEPT ![q] = objects]
    /\ job' = [j \in SpeechJob |->
                 IF user = "active" /\ job[j] \in {"queued", "processing"}
                 THEN "cancelled" ELSE job[j]]
    /\ Goes(q, "deleting")
    /\ UNCHANGED <<record, sent, user, objects, source, late>>

\* A file that is gone already counts as deleted.
DeleteObject(q) ==
    /\ at[q] = "deleting"
    /\ \E o \in todo[q] :
          /\ objects' = objects \ {o}
          /\ todo' = [todo EXCEPT ![q] = @ \ {o}]
    /\ UNCHANGED <<record, sent, user, job, at, source, late>>

\* A deletion that believes its list.
FaultyCheckRemaining(q) ==
    /\ at[q] = "deleting" /\ todo[q] = {}
    /\ Goes(q, "emptied")
    /\ UNCHANGED <<record, sent, user, objects, job, todo, source, late>>

\* The second listing must be empty.
CheckRemaining(q) ==
    /\ at[q] = "deleting" /\ todo[q] = {}
    /\ objects = {}
    /\ Goes(q, "emptied")
    /\ UNCHANGED <<record, sent, user, objects, job, todo, source, late>>

\* delete_user: the authentication service deletes the user, and every row of the
\* user's with it; a user who is gone (404) counts as deleted.  Also when its answer
\* is lost and the request ends in 503.
DeleteUser(q) ==
    /\ at[q] = "emptied"
    /\ user' = "deleted"
    /\ record' = [k \in Key |-> NoRecord]
    /\ Goes(q, "idle")
    /\ UNCHANGED <<sent, objects, job, todo, source, late>>

\* _record_retryable_failure
RecordFailure(q) ==
    /\ record' = IF HoldsClaim(q) THEN WithRecord(q, FailedRecord(q)) ELSE record
    /\ todo' = [todo EXCEPT ![q] = {}]
    /\ Goes(q, "idle")
    /\ UNCHANGED <<sent, user, objects, job, source, late>>

\* The second listing is not: storage objects remain.
FilesRemain(q) ==
    /\ at[q] = "deleting" /\ todo[q] = {} /\ objects # {}
    /\ RecordFailure(q)

\* The store, the database or the authentication service failed.
Fail(q) == at[q] # "idle" /\ RecordFailure(q)

\* The process dies, or cannot even record the failure.
Stop(q) ==
    /\ at[q] # "idle"
    /\ todo' = [todo EXCEPT ![q] = {}]
    /\ Goes(q, "idle")
    /\ UNCHANGED <<record, sent, user, objects, job, source, late>>

Tick == LeasesRun /\ UNCHANGED <<sent, user, objects, job, at, todo, source, late>>

Next ==
    \/ \E u \in Upload : Admit(u) \/ StoreUpload(u)
    \/ \E j \in SpeechJob : ClaimSpeech(j) \/ StoreSpeech(j)
    \/ \E s \in Source : Put(s) \/ TakeBack(s) \/ StopSource(s)
    \/ \E q \in Request :
          \/ Start(q) \/ ListAndCancel(q) \/ DeleteObject(q) \/ CheckRemaining(q)
          \/ FilesRemain(q) \/ DeleteUser(q) \/ Fail(q) \/ Stop(q)
    \/ Tick

Spec == Init /\ [][Next]_vars

\* The clock runs; the clients of patient deletions repeat them until the account is gone,
\* and each call they make succeeds again and again, for one of them or another.
Fairness ==
    /\ WF_vars(Tick)
    /\ SF_vars(\E q \in Patient : Start(q))
    /\ SF_vars(\E q \in Patient : ListAndCancel(q))
    /\ SF_vars(\E q \in Patient : DeleteObject(q))
    /\ SF_vars(\E q \in Patient : CheckRemaining(q))
    /\ SF_vars(\E q \in Patient : DeleteUser(q))
    /\ WF_vars(\E q \in Patient : FilesRemain(q))

FairSpec == Spec /\ Fairness

-------------------------------------------------------------------------------
\* Properties

\* The ERD: deleting an account deletes the user's storage objects, all of them.
AccountLeavesNoFile ==
    user = "deleted" =>
        \A o \in objects : source[o] = "uploaded"

\* The API document: while a deletion is being processed, other APIs are closed.
ClosedWhileDeleting == (\E q \in Request : at[q] # "idle") => ~Authenticates

\* A deletion that is repeated with its key ends, whatever failed on the way and
\* whoever died holding the claim.
AccountIsDeleted == (\E q \in Patient : at[q] # "idle") ~> user = "deleted"
=============================================================================
