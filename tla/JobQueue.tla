------------------------------ MODULE JobQueue ------------------------------
(***************************************************************************)
(* The background job queue: processing_jobs rows, the domain row (target) *)
(* each job writes its result to, one pgmq queue with its dead letter      *)
(* queue, the consumers of worker/main.py and the deadline reaper.         *)
(*                                                                         *)
(* Simplifications:                                                        *)
(*  - One database transaction is one step.  A transaction that rolls back *)
(*    changes nothing but the position of the worker that ran it.          *)
(*  - Time is relative: ttl is what is left until deadline_at, wait until  *)
(*    next_attempt_at, vt until a message is visible; Tick advances them.  *)
(*  - A job id is bound to its target by TargetOf: a fresh id is "none"    *)
(*    until the job row is inserted.                                       *)
(*  - processing_token is a per-target counter; gen_random_uuid() is +1.   *)
(*  - A message is named by its job and the attempt count it was sent at:  *)
(*    each value of that count sends at most one message.                  *)
(*                                                                         *)
(* Operators named Faulty... are plausible errors in the code their        *)
(* neighbour models; the specification does not use them.                  *)
(***************************************************************************)
EXTENDS Naturals, FiniteSets

CONSTANTS
    Jobs,          \* ids of processing_jobs rows
    Targets,       \* ids of domain rows
    Sources,       \* rooms, or the documents an analysis is made from
    Workers,       \* consumer threads of this queue
    TargetOf,      \* the domain row a job writes
    TypeOf,        \* the job type of a domain row
    SourceOf,      \* the room or document a domain row belongs to
    MaxAttempts,   \* maximum_attempts
    Deadline,      \* deadline_seconds, timeout_seconds
    Visibility,    \* worker_visibility_timeout_seconds
    Backoff,       \* delay of the reaper's retry after n attempts
    NoJob, NoResult

DocumentTypes == {"interview_document_analysis", "interview_configuration_generation"}

\* The job types of each pgmq queue.
QueueTypes == {{"conversation_text"},
               {"emotion_analysis", "tts_generation"},
               {"turn_feedback", "session_result_generation", "scenario_goal_progress"},
               DocumentTypes}

ASSUME ConstantsAssumption ==
    /\ TargetOf \in [Jobs -> Targets]
    /\ \E types \in QueueTypes : TypeOf \in [Targets -> types]
    /\ SourceOf \in [Targets -> Sources]
    /\ MaxAttempts \in Nat \ {0}
    /\ Deadline \in Nat \ {0}
    /\ Visibility \in Nat \ {0}
    /\ Backoff \in [1..MaxAttempts -> Nat \ {0}]
    /\ NoJob \notin Jobs
    /\ NoResult \notin Jobs \X Nat

VARIABLES
    status, attempts, repairs, ttl, wait,   \* processing_jobs
    domain, token,   \* domain rows: status and processing_token
    result,          \* the attempt whose output a domain row holds
    source,          \* rooms in progress, documents current
    queue,           \* messages of the pgmq queue
    dlq,             \* number of dead letters sent for a job
    pc,              \* where a consumer is in run_once
    claimed,         \* the message and the ClaimedJob it works on
    left             \* time left until the ClaimedJob's deadline_at

jobVars == <<status, attempts, repairs, ttl, wait>>
rowVars == <<domain, token>>
workerVars == <<pc, claimed, left>>
vars == <<status, attempts, repairs, ttl, wait, domain, token, result, source,
          queue, dlq, pc, claimed, left>>

-----------------------------------------------------------------------------
(* Job types that differ for the queue *)

\* session_results has no processing_token column: its counter is never read.
HasToken(t) == TypeOf[t] # "session_result_generation"

\* Adapters whose claim() also needs the room or the source documents.
ClaimNeedsOpen(t) == TypeOf[t] \in {"conversation_text"} \cup DocumentTypes

\* Adapters whose complete() looks at them again.
StoreNeedsOpen(t) == TypeOf[t] \in {"conversation_text", "interview_document_analysis"}

\* Job types delete_room cancels; the others only go with their rows.
CancelledWithRoom(t) ==
    TypeOf[t] \in {"conversation_text", "emotion_analysis", "tts_generation",
                   "turn_feedback"}

\* Status of a domain row that a retry or regenerate endpoint accepts.
Retryable(t) ==
    \/ /\ domain[t] = "failed"
       /\ TypeOf[t] \notin {"interview_document_analysis", "scenario_goal_progress"}
    \/ domain[t] = "partial" /\ TypeOf[t] = "turn_feedback"
    \/ domain[t] = "succeeded" /\ TypeOf[t] = "interview_configuration_generation"

\* Status complete() may give to the domain row.
StoreOutcomes(t) ==
    {o \in {"succeeded", "partial", "failed"} :
        \/ o = "succeeded"
        \/ o = "partial" /\ TypeOf[t] \in {"turn_feedback", "session_result_generation"}
        \/ o = "failed" /\ TypeOf[t] = "session_result_generation"}

-----------------------------------------------------------------------------
Active == {"queued", "processing"}
Terminal == {"succeeded", "failed", "cancelled"}
Holding == {"claimed", "executing", "repairing"}

TargetsOf(s) == {t \in Targets : SourceOf[t] = s}
OnDocuments(s) == \A t \in TargetsOf(s) : TypeOf[t] \in DocumentTypes
IsOpen(t) == source[SourceOf[t]] = "open"
NoActiveJob(t) == \A j \in Jobs : TargetOf[j] = t => status[j] \notin Active

\* create_configuration takes analyses that have succeeded.
AnalysesDone(t) ==
    TypeOf[t] = "interview_configuration_generation" =>
        \A u \in TargetsOf(SourceOf[t]) :
            TypeOf[u] = "interview_document_analysis" => domain[u] = "succeeded"

\* The deferred constraint trigger on processing_jobs: checked at COMMIT for
\* every job row the transaction inserted or updated.
DomainAgrees(jobStatus, domainStatus) ==
    \/ jobStatus \in Active /\ domainStatus = "processing"
    \/ jobStatus = "failed" /\ domainStatus = "failed"
    \/ jobStatus = "succeeded" /\ domainStatus \in {"succeeded", "partial"}
    \/ jobStatus = "cancelled"

\* ClaimedJob (frozen) with the message it came from.
ClaimedJob(j, seq, k, n, r) ==
    [job |-> j, seq |-> seq, token |-> k, attempts |-> n, repairs |-> r]

Unclaimed == ClaimedJob(NoJob, 0, 0, 0, 0)

Release(w) ==
    /\ pc' = [pc EXCEPT ![w] = "idle"]
    /\ claimed' = [claimed EXCEPT ![w] = Unclaimed]
    /\ left' = [left EXCEPT ![w] = 0]

\* processing_token = gen_random_uuid()
FaultyNewToken(n) == n
NewToken(n) == n + 1

FaultyMessage(j, n, delay) == [job |-> j, seq |-> n, vt |-> 0]
Message(j, n, delay) == [job |-> j, seq |-> n, vt |-> delay]

Without(m) == {n \in queue : ~(n.job = m.job /\ n.seq = m.seq)}

Dec(n) == IF n = 0 THEN 0 ELSE n - 1

Init ==
    /\ status = [j \in Jobs |-> "none"]
    /\ attempts = [j \in Jobs |-> 0]
    /\ repairs = [j \in Jobs |-> 0]
    /\ ttl = [j \in Jobs |-> 0]
    /\ wait = [j \in Jobs |-> 0]
    /\ domain = [t \in Targets |-> "none"]
    /\ token = [t \in Targets |-> 0]
    /\ result = [t \in Targets |-> NoResult]
    /\ source = [s \in Sources |-> "open"]
    /\ queue = {}
    /\ dlq = [j \in Jobs |-> 0]
    /\ pc = [w \in Workers |-> "idle"]
    /\ claimed = [w \in Workers |-> Unclaimed]
    /\ left = [w \in Workers |-> 0]

-----------------------------------------------------------------------------
(* API requests and adapters that create work *)

\* insert_job and enqueue, in the transaction that makes the target processing.
InsertJob(j) ==
    /\ status[j] = "none"
    /\ status' = [status EXCEPT ![j] = "queued"]
    /\ ttl' = [ttl EXCEPT ![j] = Deadline]
    /\ queue' = queue \cup {Message(j, 0, 0)}
    /\ domain' = [domain EXCEPT ![TargetOf[j]] = "processing"]
    /\ token' = [token EXCEPT ![TargetOf[j]] = NewToken(@)]
    /\ UNCHANGED <<attempts, repairs, wait, result, source, dlq, workerVars>>

\* A new domain row and its first job: by a request, or by the adapter that
\* completed the job before (_fan_out, _enqueue_goal_progress, _complete_room).
Submit(j) ==
    LET t == TargetOf[j] IN
    /\ domain[t] = "none"
    /\ source[SourceOf[t]] # "deleted"
    /\ ClaimNeedsOpen(t) => IsOpen(t)
    /\ AnalysesDone(t)
    /\ InsertJob(j)

\* Neither the row's status nor its active jobs are looked at.
FaultyUserRetry(j) == domain[TargetOf[j]] # "none" /\ InsertJob(j)

\* The retry and regenerate endpoints: a new job and a new token for the row.
UserRetry(j) ==
    /\ Retryable(TargetOf[j])
    /\ NoActiveJob(TargetOf[j])
    /\ InsertJob(j)

-----------------------------------------------------------------------------
(* API requests that end what a job works for *)

\* complete_practice and complete_interview: the room ends, its jobs go on.
EndRoom(s) ==
    /\ source[s] = "open"
    /\ ~OnDocuments(s)
    /\ source' = [source EXCEPT ![s] = "closed"]
    /\ UNCHANGED <<jobVars, rowVars, result, queue, dlq, workerVars>>

\* delete_room: the rows go, and the jobs with them (ON DELETE CASCADE).  The
\* cancellation before it leaves progress_stage set, so the CHECK on job rows
\* rolls everything back if it meets a job in processing.
DeleteRoom(s) ==
    LET gone == {j \in Jobs : TargetOf[j] \in TargetsOf(s) /\ status[j] # "none"} IN
    /\ source[s] # "deleted"
    /\ ~OnDocuments(s)
    /\ \A j \in gone : CancelledWithRoom(TargetOf[j]) => status[j] # "processing"
    /\ source' = [source EXCEPT ![s] = "deleted"]
    /\ status' = [j \in Jobs |-> IF j \in gone THEN "deleted" ELSE status[j]]
    /\ domain' = [t \in Targets |->
                    IF SourceOf[t] = s /\ domain[t] # "none" THEN "deleted" ELSE domain[t]]
    /\ result' = [t \in Targets |-> IF SourceOf[t] = s THEN NoResult ELSE result[t]]
    /\ UNCHANGED <<attempts, repairs, ttl, wait, token, queue, dlq, workerVars>>

\* Jobs in processing are left to their workers.
FaultyCancelDocumentJobs(s) ==
    status' = [j \in Jobs |-> IF SourceOf[TargetOf[j]] = s /\ status[j] = "queued"
                              THEN "cancelled" ELSE status[j]]

\* _cancel_document_jobs: only document analysis jobs.
CancelDocumentJobs(s) ==
    status' = [j \in Jobs |->
                 IF /\ SourceOf[TargetOf[j]] = s
                    /\ TypeOf[TargetOf[j]] = "interview_document_analysis"
                    /\ status[j] \in Active
                 THEN "cancelled" ELSE status[j]]

\* create_document with replaced_document_id.
ReplaceDocument(s) ==
    /\ source[s] = "open"
    /\ OnDocuments(s)
    /\ source' = [source EXCEPT ![s] = "closed"]
    /\ CancelDocumentJobs(s)
    /\ UNCHANGED <<attempts, repairs, ttl, wait, rowVars, result, queue, dlq, workerVars>>

\* delete_document: analyses and configurations built on it are invalidated.
DeleteDocument(s) ==
    /\ source[s] = "open"
    /\ OnDocuments(s)
    /\ source' = [source EXCEPT ![s] = "closed"]
    /\ CancelDocumentJobs(s)
    /\ domain' = [t \in Targets |->
                    IF SourceOf[t] = s /\ domain[t] \in {"processing", "succeeded"}
                    THEN "invalidated" ELSE domain[t]]
    /\ UNCHANGED <<attempts, repairs, ttl, wait, token, result, queue, dlq, workerVars>>

-----------------------------------------------------------------------------
(* Deadline recovery: the reaper thread, and every consumer before it reads *)

Expired == {j \in Jobs : status[j] = "processing" /\ ttl[j] = 0}

\* Feedback gets another attempt, if its row still waits for one.
Requeues(j) ==
    /\ TypeOf[TargetOf[j]] = "turn_feedback"
    /\ attempts[j] < MaxAttempts
    /\ domain[TargetOf[j]] = "processing"

\* recover_expired for the jobs S it could lock (FOR UPDATE SKIP LOCKED).  A job
\* whose row is neither processing nor failed makes the trigger reject the batch.
RecoverTx(S) ==
    LET again == {j \in S : Requeues(j)}
        dead == S \ again
        delay(j) == Backoff[attempts[j]]
    IN
    /\ \A j \in S : domain[TargetOf[j]] \in {"processing", "failed"}
    /\ status' = [j \in Jobs |-> IF j \in again THEN "queued"
                                 ELSE IF j \in dead THEN "failed" ELSE status[j]]
    /\ wait' = [j \in Jobs |-> IF j \in again THEN delay(j) ELSE wait[j]]
    /\ ttl' = [j \in Jobs |-> IF j \in again THEN delay(j) + Deadline ELSE ttl[j]]
    /\ domain' = [t \in Targets |->
                    IF \E j \in dead : TargetOf[j] = t THEN "failed" ELSE domain[t]]
    /\ token' = [t \in Targets |->
                   IF \E j \in again : TargetOf[j] = t THEN NewToken(token[t]) ELSE token[t]]
    /\ queue' = queue \cup {Message(j, attempts[j], delay(j)) : j \in again}
    /\ dlq' = [j \in Jobs |-> IF j \in dead THEN dlq[j] + 1 ELSE dlq[j]]
    /\ UNCHANGED <<attempts, repairs, result, source>>

\* _run_deadline_reaper
Reap(S) ==
    /\ S # {}
    /\ RecoverTx(S)
    /\ UNCHANGED workerVars

\* A consumer starts run_once.
Poll(w, S) ==
    /\ pc[w] = "idle"
    /\ RecoverTx(S)
    /\ pc' = [pc EXCEPT ![w] = "reading"]
    /\ UNCHANGED <<claimed, left>>

-----------------------------------------------------------------------------
(* Reading and claiming: pgmq.read commits with the claim, or rolls back with it *)

Visible == {m \in queue : m.vt = 0}

Claimable(j) ==
    /\ status[j] = "queued"
    /\ wait[j] = 0
    /\ domain[TargetOf[j]] = "processing"
    /\ ClaimNeedsOpen(TargetOf[j]) => IsOpen(TargetOf[j])

ReadEmpty(w) ==
    /\ pc[w] = "reading"
    /\ Visible = {}
    /\ Release(w)
    /\ UNCHANGED <<jobVars, rowVars, result, source, queue, dlq>>

Claim(w, m) ==
    LET j == m.job IN
    /\ pc[w] = "reading"
    /\ Claimable(j)
    /\ status' = [status EXCEPT ![j] = "processing"]
    /\ attempts' = [attempts EXCEPT ![j] = @ + 1]
    /\ queue' = Without(m) \cup {Message(j, m.seq, Visibility)}
    /\ pc' = [pc EXCEPT ![w] = "claimed"]
    /\ claimed' = [claimed EXCEPT ![w] =
                     ClaimedJob(j, m.seq, token[TargetOf[j]], attempts[j] + 1, repairs[j])]
    /\ left' = [left EXCEPT ![w] = ttl[j]]
    /\ UNCHANGED <<repairs, ttl, wait, rowVars, result, source, dlq>>

\* claim returns None and has rolled back; the message is visible until discard.
RejectClaim(w, m) ==
    /\ pc[w] = "reading"
    /\ ~Claimable(m.job)
    /\ pc' = [pc EXCEPT ![w] = "discarding"]
    /\ claimed' = [claimed EXCEPT ![w] = ClaimedJob(m.job, m.seq, 0, 0, 0)]
    /\ UNCHANGED <<jobVars, rowVars, result, source, queue, dlq, left>>

\* Every message of the job goes, not the one that was read.
FaultyDiscardByJob(w) ==
    /\ pc[w] = "discarding"
    /\ queue' = {m \in queue : m.job # claimed[w].job}
    /\ Release(w)
    /\ UNCHANGED <<jobVars, rowVars, result, source, dlq>>

\* The message is left in the queue.
FaultyDiscardKeeps(w) ==
    /\ pc[w] = "discarding"
    /\ Release(w)
    /\ UNCHANGED <<jobVars, rowVars, result, source, queue, dlq>>

Discard(w) ==
    /\ pc[w] = "discarding"
    /\ queue' = Without(claimed[w])
    /\ Release(w)
    /\ UNCHANGED <<jobVars, rowVars, result, source, dlq>>

-----------------------------------------------------------------------------
(* Executing, and the transaction that ends an attempt *)

\* The token is not compared.
FaultyOwnsTarget(w) == domain[TargetOf[claimed[w].job]] = "processing"

\* The condition under which an adapter writes the domain row.
OwnsTarget(w) ==
    LET t == TargetOf[claimed[w].job] IN
    /\ domain[t] = "processing"
    /\ HasToken(t) => token[t] = claimed[w].token

Execute(w) ==
    /\ pc[w] = "claimed"
    /\ left[w] > 0
    /\ pc' = [pc EXCEPT ![w] = "executing"]
    /\ UNCHANGED <<jobVars, rowVars, result, source, queue, dlq, claimed, left>>

\* The row's schema_repair_count is not looked at.
FaultyRepair(w) ==
    LET j == claimed[w].job IN
    /\ pc[w] = "executing"
    /\ status[j] = "processing"
    /\ DomainAgrees("processing", domain[TargetOf[j]])
    /\ repairs' = [repairs EXCEPT ![j] = @ + 1]
    /\ pc' = [pc EXCEPT ![w] = "repairing"]
    /\ UNCHANGED <<status, attempts, ttl, wait, rowVars, result, source, queue, dlq,
                   claimed, left>>

\* The provider's answer does not fit the schema: mark_schema_repair, then the
\* one repair call.
Repair(w) ==
    LET j == claimed[w].job IN
    /\ pc[w] = "executing"
    /\ claimed[w].repairs < 1
    /\ status[j] = "processing"
    /\ repairs[j] = 0
    /\ DomainAgrees("processing", domain[TargetOf[j]])
    /\ repairs' = [repairs EXCEPT ![j] = @ + 1]
    /\ pc' = [pc EXCEPT ![w] = "repairing"]
    /\ UNCHANGED <<status, attempts, ttl, wait, rowVars, result, source, queue, dlq,
                   claimed, left>>

\* A store that goes by what was true when the job was claimed.
FaultyComplete(w) ==
    LET j == claimed[w].job
        t == TargetOf[j]
    IN
    /\ pc[w] \in {"executing", "repairing"}
    /\ OwnsTarget(w)
    /\ domain' = [domain EXCEPT ![t] = "succeeded"]
    /\ result' = [result EXCEPT ![t] = <<j, claimed[w].attempts>>]
    /\ status' = [status EXCEPT ![j] = "succeeded"]
    /\ queue' = Without(claimed[w])
    /\ Release(w)
    /\ UNCHANGED <<attempts, repairs, ttl, wait, token, source, dlq>>

\* The adapter stores the output and the job succeeds.  A reply that reaches the
\* scenario's goal or the end of the interview also ends the room.
Complete(w) ==
    LET j == claimed[w].job
        t == TargetOf[j]
    IN
    /\ pc[w] \in {"executing", "repairing"}
    /\ OwnsTarget(w)
    /\ StoreNeedsOpen(t) => IsOpen(t)
    /\ status[j] = "processing"
    /\ \E outcome \in StoreOutcomes(t) :
         /\ DomainAgrees("succeeded", outcome)
         /\ domain' = [domain EXCEPT ![t] = outcome]
    /\ result' = [result EXCEPT ![t] = <<j, claimed[w].attempts>>]
    /\ status' = [status EXCEPT ![j] = "succeeded"]
    /\ \/ source' = source
       \/ /\ TypeOf[t] = "conversation_text"
          /\ source' = [source EXCEPT ![SourceOf[t]] = "closed"]
    /\ queue' = Without(claimed[w])
    /\ Release(w)
    /\ UNCHANGED <<attempts, repairs, ttl, wait, token, dlq>>

\* A retryable provider failure: another attempt after delay, before the deadline.
Retry(w, delay) ==
    LET j == claimed[w].job IN
    /\ pc[w] \in {"executing", "repairing"}
    /\ claimed[w].attempts < MaxAttempts
    /\ delay < left[w]
    /\ status[j] = "processing"
    /\ DomainAgrees("queued", domain[TargetOf[j]])
    /\ status' = [status EXCEPT ![j] = "queued"]
    /\ wait' = [wait EXCEPT ![j] = delay]
    /\ queue' = Without(claimed[w]) \cup {Message(j, attempts[j], delay)}
    /\ Release(w)
    /\ UNCHANGED <<attempts, repairs, ttl, rowVars, result, source, dlq>>

\* The job's status is not looked at.
FaultyFail(w) ==
    LET j == claimed[w].job IN
    /\ pc[w] \in {"executing", "repairing"}
    /\ status' = [status EXCEPT ![j] = "failed"]
    /\ domain' = [domain EXCEPT ![TargetOf[j]] = "failed"]
    /\ dlq' = [dlq EXCEPT ![j] = @ + 1]
    /\ queue' = Without(claimed[w])
    /\ Release(w)
    /\ UNCHANGED <<attempts, repairs, ttl, wait, token, result, source>>

\* The deadline was past at the claim, or a provider failure is not retried.
Fail(w) ==
    LET j == claimed[w].job
        t == TargetOf[j]
        after == IF OwnsTarget(w) THEN "failed" ELSE domain[t]
    IN
    /\ \/ pc[w] = "claimed" /\ left[w] = 0
       \/ pc[w] \in {"executing", "repairing"}
    /\ status[j] = "processing"
    /\ DomainAgrees("failed", after)
    /\ domain' = [domain EXCEPT ![t] = after]
    /\ status' = [status EXCEPT ![j] = "failed"]
    /\ dlq' = [dlq EXCEPT ![j] = @ + 1]
    /\ queue' = Without(claimed[w])
    /\ Release(w)
    /\ UNCHANGED <<attempts, repairs, ttl, wait, token, result, source>>

\* run_once gives up on what it holds: a transaction that found the job or the
\* row changed, an exception, a crash of the worker process and its restart.
Abort(w) ==
    /\ pc[w] # "idle"
    /\ Release(w)
    /\ UNCHANGED <<jobVars, rowVars, result, source, queue, dlq>>

-----------------------------------------------------------------------------
Tick ==
    /\ ttl' = [j \in Jobs |-> Dec(ttl[j])]
    /\ wait' = [j \in Jobs |-> Dec(wait[j])]
    /\ left' = [w \in Workers |-> Dec(left[w])]
    /\ queue' = {Message(m.job, m.seq, Dec(m.vt)) : m \in queue}
    /\ UNCHANGED <<status, attempts, repairs, rowVars, result, source, dlq, pc, claimed>>

Requests ==
    \/ \E j \in Jobs : Submit(j) \/ UserRetry(j)
    \/ \E s \in Sources : EndRoom(s) \/ DeleteRoom(s) \/ ReplaceDocument(s) \/ DeleteDocument(s)

ReadStep(w) ==
    \/ \E S \in SUBSET Expired : Poll(w, S)
    \/ ReadEmpty(w)
    \/ \E m \in Visible : Claim(w, m) \/ RejectClaim(w, m)
    \/ Discard(w)

RunStep(w) ==
    \/ Execute(w)
    \/ Repair(w)
    \/ Complete(w)
    \/ \E delay \in 0..left[w] : Retry(w, delay)
    \/ Fail(w)

Next ==
    \/ Requests
    \/ \E S \in SUBSET Expired : Reap(S)
    \/ \E w \in Workers : ReadStep(w) \/ RunStep(w) \/ Abort(w)
    \/ Tick

Spec == Init /\ [][Next]_vars

\* Clocks advance.  A consumer thread goes on: provider calls have timeouts, an
\* exception ends in the loop of _run_consumer, a dead thread ends the process,
\* which is restarted.  SKIP LOCKED does not pass over the same expired row for
\* ever, pgmq serves visible messages in order, and not every discard is cut
\* short.
Fairness ==
    /\ WF_vars(Tick)
    /\ \A w \in Workers :
         /\ WF_vars(ReadStep(w) \/ RunStep(w) \/ Abort(w))
         /\ SF_vars(Discard(w))
         /\ \A j \in Jobs :
              SF_vars(\E m \in Visible : m.job = j /\ (Claim(w, m) \/ RejectClaim(w, m)))
    /\ \A j \in Jobs : SF_vars(\E S \in SUBSET Expired : j \in S /\ Reap(S))

FairSpec == Spec /\ Fairness

-----------------------------------------------------------------------------
(* Properties *)

JobStatus == {"none", "deleted"} \cup Active \cup Terminal

DomainStatus ==
    {"none", "processing", "succeeded", "partial", "failed", "invalidated", "deleted"}

Messages == [job : Jobs, seq : Nat, vt : Nat]

Claims == [job : Jobs \cup {NoJob}, seq : Nat, token : Nat, attempts : Nat, repairs : Nat]

Places == Holding \cup {"idle", "reading", "discarding"}

\* Rows, messages and claims keep their shape; at most one schema repair is
\* recorded for a job (mark_schema_repair), whoever asked for it.
TypeOK ==
    /\ status \in [Jobs -> JobStatus]
    /\ attempts \in [Jobs -> Nat]
    /\ repairs \in [Jobs -> 0..1]
    /\ ttl \in [Jobs -> Nat]
    /\ wait \in [Jobs -> Nat]
    /\ domain \in [Targets -> DomainStatus]
    /\ token \in [Targets -> Nat]
    /\ result \in [Targets -> {NoResult} \cup (Jobs \X Nat)]
    /\ source \in [Sources -> {"open", "closed", "deleted"}]
    /\ queue \subseteq Messages
    /\ dlq \in [Jobs -> Nat]
    /\ pc \in [Workers -> Places]
    /\ claimed \in [Workers -> Claims]
    /\ left \in [Workers -> Nat]
    /\ \A w \in Workers : pc[w] \in Holding \cup {"discarding"} => claimed[w].job \in Jobs

\* A stored output comes from the last attempt of a job that succeeded: a worker
\* the reaper has given up on (recover_expired) never stores its late answer.
ResultFromLastAttempt ==
    \A t \in Targets : result[t] # NoResult =>
        LET j == result[t][1] IN
        /\ TargetOf[j] = t
        /\ result[t][2] = attempts[j]
        /\ status[j] = "succeeded"

\* When another attempt of its job has begun, or the job waits for one, a worker
\* that still holds an earlier attempt cannot write the domain row.
ZombiesAreShutOut ==
    \A w \in Workers :
        LET j == claimed[w].job IN
        ( /\ pc[w] \in Holding
          /\ status[j] \in Active
          /\ status[j] = "queued" \/ attempts[j] # claimed[w].attempts )
            => ~OwnsTarget(w)

\* The planner of the worker and the reaper share one attempt counter: no mix
\* of their retries exceeds maximum_attempts.
AttemptsBounded == \A j \in Jobs : attempts[j] <= MaxAttempts

\* A row a client sees in processing has one job that is responsible for it, and
\* a job that is active works for a row that waits for it.
ActiveJobOwnsTarget ==
    \A j \in Jobs : status[j] \in Active =>
        /\ domain[TargetOf[j]] = "processing"
        /\ \A i \in Jobs : i # j /\ TargetOf[i] = TargetOf[j] => status[i] \notin Active

\* A failed job has exactly one dead letter and no other job has any, although
\* the reaper, every consumer and a late worker may all try to fail it.
DeadLetteredOnce ==
    \A j \in Jobs :
        /\ dlq[j] <= 1
        /\ status[j] # "deleted" => (dlq[j] = 1 <=> status[j] = "failed")

\* A queued job has a message that will wake a consumer for it: no discard,
\* redelivery or retry takes the last one.
QueuedHasMessage ==
    \A j \in Jobs : status[j] = "queued" => \E m \in queue : m.job = j

\* No output is stored for a room that has ended or documents that were replaced
\* or deleted (complete() of the adapters looks again before it writes).
NothingStoredForClosedSource ==
    [][\A t \in Targets : result'[t] \notin {result[t], NoResult} => IsOpen(t)]_vars

Contract == INSTANCE JobContract WITH
    phase <- status, tries <- attempts, stored <- result, dead <- dlq

\* The queue keeps the promise a polling client relies on (JobContract).
KeepsContract == Contract!Spec

\* Every job reaches an end the client can see, whatever crashes.
EveryJobEnds ==
    \A j \in Jobs : status[j] \in Active ~> status[j] \notin Active

\* Messages of a job that has ended do not circulate for ever.
EndedJobLeavesQueue ==
    \A j \in Jobs :
        status[j] \in Terminal \cup {"deleted"} ~> ~\E m \in queue : m.job = j

\* A job whose room has ended or whose documents are gone also ends.
JobsOfClosedSourceEnd ==
    \A j \in Jobs :
        status[j] \in Active /\ ~IsOpen(TargetOf[j]) ~> status[j] \notin Active

=============================================================================
