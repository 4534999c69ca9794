-------------------------- MODULE QuestionGeneration --------------------------
(***************************************************************************)
(* One interview_configuration_generation job, from the claim to the       *)
(* stored questions: what QueueWorker.run_once does around the executor,   *)
(* what WorkerExecutors._configuration does with the evidence it finds,    *)
(* how provider errors become a repair, a retry or a failure, and when.    *)
(*   worker/queue.py, worker/runtime.py   run_once, RetryPlanner           *)
(*   worker/executors.py                  evidence and questions           *)
(*   worker/sql_queue.py                  transactions, retrieve           *)
(*   app/ai/providers                     classification of errors         *)
(*                                                                         *)
(* Time is relative and passes between any two steps: ttl is what is left  *)
(* until deadline_at, wait until next_attempt_at, message until the        *)
(* message is visible, in units of the first back-off. One consumer stands *)
(* for all: a job in processing is claimed by no other, and a reaped job   *)
(* of this type is never queued again. A piece of evidence is a chunk row; *)
(* the text of a question is left out, its references are kept.            *)
(***************************************************************************)
EXTENDS Ordering, Sequences, SequencesExt, FiniteSetsExt

CONSTANTS
    Rows,            \* document_chunks: [id, user, document, version, similarity]
    Versions,        \* current version of each document of the configuration
    User,            \* owner of the configuration
    Threshold,       \* rag_similarity_threshold
    TopK,            \* RAG_CANDIDATE_TOP_K
    QuestionCount,   \* question_count of the configuration
    MaxAttempts,     \* maximum_attempts
    Deadline,        \* deadline_seconds
    Visibility,      \* worker_visibility_timeout_seconds
    RetryAfters,     \* values of the Retry-After header
    SlowReads,       \* may time pass between BEGIN and the read of the queue?
    MaxCrashes,      \* bound: restarts of the consumer
    None

ASSUME QuestionGenerationAssumption ==
    /\ IsFiniteSet(Rows)
    /\ \A r \in Rows : r.id \in Nat /\ r.similarity \in Nat
    /\ \A r, s \in Rows : r.id = s.id => r = s
    /\ Threshold \in Nat \ {0} /\ TopK \in Nat \ {0} /\ QuestionCount \in Nat \ {0}
    /\ MaxAttempts \in Nat \ {0} /\ Deadline \in Nat \ {0}
    /\ Visibility \in Nat /\ Visibility > Deadline
    /\ RetryAfters \subseteq Int
    /\ SlowReads \in BOOLEAN
    /\ MaxCrashes \in Nat
    /\ None \notin Int

VARIABLES
    ttl,         \* time left until the job's deadline_at
    job,         \* processing_jobs row
    message,     \* time left until the pgmq message is visible, None once deleted
    conf,        \* status of the interview_configurations row
    current,     \* documents that are neither replaced nor deleted
    stored,      \* references of the stored questions
    worker,      \* the consumer: what run_once holds in memory
    executions,  \* calls of executor.execute so far
    crashes

vars == <<ttl, job, message, conf, current, stored, worker, executions, crashes>>

Levels == {"supported", "partially_supported", "unsupported"}
Terminal == {"succeeded", "failed"}
Executing == {"embedding", "judging", "asking"}

\* What the consumer forgets when run_once ends.
Idle == [pc |-> "idle", early |-> FALSE, attempt |-> 0, repairs |-> 0, repairing |-> FALSE,
         found |-> <<>>, levels |-> <<>>, error |-> None, delay |-> None, output |-> <<>>]

Documents == DOMAIN Versions

TypeOK ==
    /\ ttl \in 0 .. Deadline
    /\ job \in [status : {"queued", "processing"} \cup Terminal,
                attempts : 0 .. MaxAttempts, repairs : 0 .. 1,
                wait : 0 .. Deadline - 1]
    /\ message \in {None} \cup 0 .. Visibility
    /\ conf \in {"processing", "ready", "failed", "invalidated"}
    /\ current \subseteq Documents
    /\ worker.pc \in {"idle", "reading", "discarding", "claimed", "deciding", "retrying",
                      "failing", "completing", "escaped"} \cup Executing
    /\ worker.levels # <<>> => Len(worker.levels) = Len(worker.found)
    /\ Len(worker.found) <= TopK
    /\ worker.delay \in {None} \cup 0 .. Deadline

-------------------------------------------------------------------------------
\* Provider errors

\* post_json: 429, 5xx, no connection, a timeout or a body that is no JSON.
Unavailable(after) == [retryable |-> TRUE, schema |-> FALSE, after |-> after]

\* post_json: any other HTTP status.
Refused == [retryable |-> FALSE, schema |-> FALSE, after |-> None]

\* generate_structured: an answer that the result type does not accept.
SchemaInvalid == [retryable |-> FALSE, schema |-> TRUE, after |-> None]

\* _configuration: nothing retrieved, nothing left after the judgement.
InsufficientEvidence == Refused
RelevanceEmpty == Unavailable(None)

ProviderErrors == {Refused, SchemaInvalid} \cup {Unavailable(a) : a \in RetryAfters \cup {None}}

-------------------------------------------------------------------------------
\* Evidence and questions

Better(r, s) == r.similarity > s.similarity \/ (r.similarity = s.similarity /\ r.id < s.id)

\* retrieve: the owner's chunks of exactly the versions the claim read.
Retrieve(rows) ==
    LET eligible == {r \in rows : /\ r.user = User
                                  /\ r.document \in Documents
                                  /\ r.version = Versions[r.document]
                                  /\ r.similarity >= Threshold}
        ranked == InOrder(eligible, {p \in eligible \X eligible : Better(p[1], p[2])})
    IN SubSeq(ranked, 1, Min({TopK, Len(ranked)}))

\* The numbers whose level is one of S, in order.
Numbered(levels, S) ==
    LET wanted == {n \in 1 .. Len(levels) : levels[n] \in S}
    IN InOrder(wanted, {p \in wanted \X wanted : p[1] < p[2]})

Pick(seq, numbers) == [i \in 1 .. Len(numbers) |-> seq[numbers[i]]]

\* filter_relevant_evidence: partial support counts only if nothing is supported.
FilterRelevant(found, levels) ==
    LET supported == Numbered(levels, {"supported"})
        partial == Numbered(levels, {"partially_supported"})
    IN Pick(found, IF supported # <<>> THEN supported ELSE partial)

\* The decisions _configuration pairs with the relevant evidence.
Surviving(levels) == Numbered(levels, Levels \ {"unsupported"})

\* Numbers are looked up in the evidence as it was retrieved.
FaultyResolve(found, relevant, refs) == [q \in DOMAIN refs |-> {found[n] : n \in refs[q]}]

\* resolve_question_evidence: number n is the n-th piece the provider was shown.
Resolve(found, relevant, refs) == [q \in DOMAIN refs |-> {relevant[n] : n \in refs[q]}]

\* validate_count and the checks of resolve_question_evidence.
AcceptsQuestions(relevant, refs) ==
    /\ Len(refs) = QuestionCount
    /\ \A q \in DOMAIN refs : refs[q] # {} /\ refs[q] \subseteq 1 .. Len(relevant)

-------------------------------------------------------------------------------
\* RetryPlanner

Backoffs(attempt) == 0 .. 2 ^ (attempt - 1)

ShouldRetry(error, attempt, delay) ==
    /\ error.retryable
    /\ attempt < MaxAttempts
    /\ delay >= 0
    /\ delay < ttl

\* decide: the header before the jitter.
Delays(error, attempt) == IF error.after # None THEN {error.after} ELSE Backoffs(attempt)

-------------------------------------------------------------------------------
Init ==
    /\ ttl = Deadline
    /\ job = [status |-> "queued", attempts |-> 0, repairs |-> 0, wait |-> 0]
    /\ message = 0
    /\ conf = "processing"
    /\ current = Documents
    /\ stored = <<>>
    /\ worker = Idle
    /\ executions = 0
    /\ crashes = 0

\* The trigger on processing_jobs, checked when a transaction commits.
Agrees(status, c) ==
    \/ status \in {"queued", "processing"} /\ c = "processing"
    \/ status = "failed" /\ c = "failed"
    \/ status = "succeeded" /\ c = "ready"

Failed(c) == IF c = "processing" THEN "failed" ELSE c

\* Jobs that wait are recovered, not those in processing.
FaultyRecoverExpired ==
    /\ job.status = "queued" /\ ttl = 0
    /\ Agrees("failed", Failed(conf))
    /\ job' = [job EXCEPT !.status = "failed"]
    /\ conf' = Failed(conf)
    /\ UNCHANGED <<ttl, message, current, stored, worker, executions, crashes>>

\* recover_expired, by the reaper thread or before any read.
RecoverExpired ==
    /\ job.status = "processing" /\ ttl = 0
    /\ Agrees("failed", Failed(conf))
    /\ job' = [job EXCEPT !.status = "failed"]
    /\ conf' = Failed(conf)
    /\ UNCHANGED <<ttl, message, current, stored, worker, executions, crashes>>

\* The transaction of read_one and claim begins: its now() is fixed, and may
\* lie before the time the message it will read becomes visible.
Begin ==
    /\ worker.pc = "idle"
    /\ worker' = [worker EXCEPT !.pc = "reading", !.early = job.wait > 0]
    /\ UNCHANGED <<ttl, job, message, conf, current, stored, executions, crashes>>

\* pgmq.read goes by the wall clock.
Visible == message = 0

ReadEmpty ==
    /\ worker.pc = "reading" /\ ~Visible
    /\ worker' = Idle
    /\ UNCHANGED <<ttl, job, message, conf, current, stored, executions, crashes>>

\* The job row's conditions and those of ConfigurationAdapter.claim.
Claimable ==
    /\ job.status = "queued"
    /\ job.wait = 0 /\ ~worker.early
    /\ conf = "processing"
    /\ current = Documents

Claim ==
    /\ worker.pc = "reading" /\ Visible
    /\ Claimable
    /\ job' = [job EXCEPT !.status = "processing", !.attempts = @ + 1]
    /\ message' = Visibility
    /\ worker' = [worker EXCEPT !.pc = "claimed", !.attempt = job.attempts + 1,
                                !.repairs = job.repairs]
    /\ UNCHANGED <<ttl, conf, current, stored, executions, crashes>>

\* claim returns None.
RejectClaim ==
    /\ worker.pc = "reading" /\ Visible
    /\ ~Claimable
    /\ worker' = [worker EXCEPT !.pc = "discarding"]
    /\ UNCHANGED <<ttl, job, message, conf, current, stored, executions, crashes>>

Discard ==
    /\ worker.pc = "discarding"
    /\ message' = None
    /\ worker' = Idle
    /\ UNCHANGED <<ttl, job, conf, current, stored, executions, crashes>>

\* run_once looks at the deadline once, before it executes.
Execute ==
    /\ worker.pc = "claimed"
    /\ IF ttl = 0
       THEN worker' = [worker EXCEPT !.pc = "failing"] /\ UNCHANGED executions
       ELSE worker' = [worker EXCEPT !.pc = "embedding"] /\ executions' = executions + 1
    /\ UNCHANGED <<ttl, job, message, conf, current, stored, crashes>>

-------------------------------------------------------------------------------
\* WorkerExecutors._configuration

Raise(error) ==
    /\ worker' = [worker EXCEPT !.pc = "deciding", !.error = error]
    /\ UNCHANGED <<ttl, job, message, conf, current, stored, executions, crashes>>

\* Any of the provider calls fails.
ProviderFails(error) == worker.pc \in Executing /\ Raise(error)

\* embed, then retrieve in a transaction of its own.
RetrieveEvidence ==
    LET found == Retrieve({r \in Rows : r.document \in current}) IN
    /\ worker.pc = "embedding"
    /\ IF found = <<>>
       THEN Raise(InsufficientEvidence)
       ELSE /\ worker' = [worker EXCEPT !.pc = "judging", !.found = found]
            /\ UNCHANGED <<ttl, job, message, conf, current, stored, executions, crashes>>

\* The relevance call.  zip(strict=True) raises a ValueError, which no handler of
\* run_once expects, when the relevant evidence and the decisions differ in length.
Judge(levels) ==
    LET relevant == FilterRelevant(worker.found, levels) IN
    /\ worker.pc = "judging"
    /\ IF relevant = <<>>
       THEN Raise(RelevanceEmpty)
       ELSE /\ worker' = [worker EXCEPT
                 !.levels = levels,
                 !.pc = IF Len(relevant) = Len(Surviving(levels)) THEN "asking" ELSE "escaped"]
            /\ UNCHANGED <<ttl, job, message, conf, current, stored, executions, crashes>>

\* The question call; refs[q] are the numbers question q refers to.
Ask(refs) ==
    LET relevant == FilterRelevant(worker.found, worker.levels) IN
    /\ worker.pc = "asking"
    /\ IF ~AcceptsQuestions(relevant, refs)
       THEN Raise(SchemaInvalid)
       ELSE /\ worker' = [worker EXCEPT !.pc = "completing",
                            !.output = Resolve(worker.found, relevant, refs)]
            /\ UNCHANGED <<ttl, job, message, conf, current, stored, executions, crashes>>

-------------------------------------------------------------------------------
\* How run_once ends

\* The repair is not counted in the job's row.
FaultyRepair ==
    /\ worker.pc = "deciding" /\ worker.error.schema
    /\ worker.repairs = 0 /\ ~worker.repairing
    /\ worker' = [worker EXCEPT !.pc = "embedding", !.repairing = TRUE, !.error = None,
                                !.found = <<>>, !.levels = <<>>]
    /\ executions' = executions + 1
    /\ UNCHANGED <<ttl, job, message, conf, current, stored, crashes>>

\* _execute_with_repair: mark_schema_repair commits before the second call, and
\* raises when the job is no longer this worker's.
Repair ==
    /\ worker.pc = "deciding" /\ worker.error.schema
    /\ worker.repairs = 0 /\ ~worker.repairing
    /\ IF job.status = "processing" /\ job.repairs = 0 /\ Agrees("processing", conf)
       THEN /\ job' = [job EXCEPT !.repairs = 1]
            /\ worker' = [worker EXCEPT !.pc = "embedding", !.repairing = TRUE, !.error = None,
                                        !.found = <<>>, !.levels = <<>>]
            /\ executions' = executions + 1
       ELSE worker' = [worker EXCEPT !.pc = "escaped"] /\ UNCHANGED <<job, executions>>
    /\ UNCHANGED <<ttl, message, conf, current, stored, crashes>>

\* _handle_provider_failure: the decision, taken with the clock as it is now.
Decide(delay) ==
    /\ worker.pc = "deciding"
    /\ ~(worker.error.schema /\ worker.repairs = 0 /\ ~worker.repairing)
    /\ delay \in Delays(worker.error, worker.attempt)
    /\ worker' = IF ShouldRetry(worker.error, worker.attempt, delay)
                 THEN [worker EXCEPT !.pc = "retrying", !.delay = delay]
                 ELSE [worker EXCEPT !.pc = "failing"]
    /\ UNCHANGED <<ttl, job, message, conf, current, stored, executions, crashes>>

\* retry: its own reading of the clock.  A job that is no longer in processing, or
\* a commit the trigger rejects, leaves everything as it was.
Retry ==
    /\ worker.pc = "retrying"
    /\ worker' = Idle
    /\ IF job.status = "processing" /\ Agrees("queued", conf)
       THEN /\ job' = [job EXCEPT !.status = "queued", !.wait = worker.delay]
            /\ message' = worker.delay
       ELSE UNCHANGED <<job, message>>
    /\ UNCHANGED <<ttl, conf, current, stored, executions, crashes>>

Fail ==
    /\ worker.pc = "failing"
    /\ worker' = Idle
    /\ IF job.status = "processing" /\ Agrees("failed", Failed(conf))
       THEN /\ job' = [job EXCEPT !.status = "failed"]
            /\ conf' = Failed(conf)
            /\ message' = None
       ELSE UNCHANGED <<job, conf, message>>
    /\ UNCHANGED <<ttl, current, stored, executions, crashes>>

\* ConfigurationAdapter.complete with the job's compare-and-set.
Complete ==
    /\ worker.pc = "completing"
    /\ worker' = Idle
    /\ IF conf = "processing" /\ job.status = "processing"
       THEN /\ job' = [job EXCEPT !.status = "succeeded"]
            /\ conf' = "ready"
            /\ stored' = worker.output
            /\ message' = None
       ELSE UNCHANGED <<job, conf, stored, message>>
    /\ UNCHANGED <<ttl, current, executions, crashes>>

\* _run_consumer catches whatever run_once raises, and goes on.
Escape ==
    /\ worker.pc = "escaped"
    /\ worker' = Idle
    /\ UNCHANGED <<ttl, job, message, conf, current, stored, executions, crashes>>

-------------------------------------------------------------------------------
\* The rest of the world

\* A document is replaced (the configuration stays) or deleted (it is invalidated);
\* its chunks go with it.
LoseDocument(d) ==
    /\ d \in current
    /\ current' = current \ {d}
    /\ \/ UNCHANGED conf
       \/ conf' = IF conf \in {"processing", "ready"} THEN "invalidated" ELSE conf
    /\ UNCHANGED <<ttl, job, message, stored, worker, executions, crashes>>

Crash ==
    /\ crashes < MaxCrashes /\ worker.pc # "idle"
    /\ crashes' = crashes + 1
    /\ worker' = Idle
    /\ UNCHANGED <<ttl, job, message, conf, current, stored, executions>>

Dec(n) == IF n \in {0, None} THEN n ELSE n - 1

Tick ==
    /\ worker.pc = "reading" => SlowReads
    /\ ttl' = Dec(ttl)
    /\ message' = Dec(message)
    /\ job' = [job EXCEPT !.wait = Dec(@)]
    /\ UNCHANGED <<conf, current, stored, worker, executions, crashes>>

\* Answers of the relevance and the question call: every judgement of the evidence,
\* and question lists with good, missing and unknown references.
Judgements == [1 .. Len(worker.found) -> Levels]
References == LET n == Len(FilterRelevant(worker.found, worker.levels))
              IN [1 .. QuestionCount -> {{}} \cup {{i} : i \in 1 .. n + 1}]

Step ==
    \/ Begin \/ ReadEmpty \/ Claim \/ RejectClaim \/ Discard \/ Execute
    \/ RetrieveEvidence
    \/ \E levels \in Judgements : Judge(levels)
    \/ \E refs \in References : Ask(refs)
    \/ \E e \in ProviderErrors : ProviderFails(e)
    \/ Repair
    \/ worker.pc = "deciding" /\ \E delay \in Delays(worker.error, worker.attempt) : Decide(delay)
    \/ Retry \/ Fail \/ Complete \/ Escape

Next == Step \/ RecoverExpired \/ Tick \/ Crash \/ \E d \in Documents : LoseDocument(d)

Spec == Init /\ [][Next]_vars

\* The consumer and the reaper thread run, and time passes whatever they do.
FairSpec == Spec /\ WF_vars(Step) /\ WF_vars(RecoverExpired) /\ SF_vars(Tick)

-------------------------------------------------------------------------------
\* Properties

\* A question is stored with evidence that is the owner's, of the version the
\* configuration was made for, above the threshold, and judged relevant in the same
\* attempt: the numbers given to the provider still mean what they meant when they
\* are turned back into chunks (_configuration, resolve_question_evidence).
QuestionsCiteEvidence ==
    /\ worker.pc = "completing" =>
         \A q \in DOMAIN worker.output : \A r \in worker.output[q] :
            \E n \in DOMAIN worker.found :
               /\ r = worker.found[n]
               /\ worker.levels[n] # "unsupported"
               /\ "supported" \in Range(worker.levels) => worker.levels[n] = "supported"
    /\ \A q \in DOMAIN stored :
         /\ stored[q] # {}
         /\ \A r \in stored[q] : /\ r.user = User
                                 /\ r.version = Versions[r.document]
                                 /\ r.similarity >= Threshold

\* Over all attempts, redeliveries, restarts and repairs, the providers are run for
\* at most maximum_attempts executions and one repair (_execute_with_repair and
\* mark_schema_repair, RetryPlanner.decide).
CallBudget == executions <= MaxAttempts + 1

\* Unless its documents went away, the job ends: it succeeds, or it fails by the
\* deadline at the latest (recover_expired, run_once).
JobSettles == <>(job.status \in Terminal \/ current # Documents)

\* A retry is only scheduled before the deadline (RetryPlanner.decide).
RetryInTime == job.status = "queued" /\ job.wait > 0 => job.wait < ttl

\* Evidence that was judged to be supported leads to the question call
\* (filter_relevant_evidence, _configuration).
SupportedIsAsked == worker.pc = "escaped" => "supported" \notin Range(worker.levels)

===============================================================================
