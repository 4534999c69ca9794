------------------------------- MODULE TtsStream -------------------------------
(***************************************************************************)
(* Speech relayed while it is being made: a worker that runs a             *)
(* tts_generation job appends PCM chunks to tts_stream_chunks              *)
(* (worker/executors.py _tts, worker/tts_streaming.py), and the API polls  *)
(* them for a client (app/services/tts_streaming.py).  One message_audio   *)
(* row.  The reader makes two queries per poll, each with a snapshot of    *)
(* its own; appends commit one by one; complete commits at the end.        *)
(*                                                                         *)
(* An attempt is one claim of a job.  The row's processing_token changes   *)
(* when the user asks for a new generation, not when the worker retries.   *)
(* What a chunk sounds like depends on the attempt and on its number: two  *)
(* attempts of the provider need not cut or speak the text alike.  Chunks  *)
(* live five minutes, longer than any reader, and do not expire here.      *)
(***************************************************************************)
EXTENDS Ordering, StreamOrder, SequencesExt

CONSTANTS
    Worker,
    MaxChunks,    \* bound: chunks an attempt may produce
    MaxAttempts,  \* transport attempts of a job
    MaxToken,     \* bound: generations of the row
    Polls         \* polls until the reader's deadline of 50 seconds

ASSUME TtsStreamAssumption ==
    /\ MaxChunks \in Nat \ {0} /\ MaxAttempts \in Nat \ {0}
    /\ MaxToken \in Nat \ {0} /\ Polls \in Nat \ {0}

VARIABLES
    status,    \* generation_status; "gone" when the row is deleted
    job,       \* status of its latest job
    table,     \* tts_stream_chunks of the row
    work       \* what a worker is doing

vars == <<status, token, job, attempt, table, work, reader>>

Chunk == [token : 1 .. MaxToken, attempt : 1 .. MaxAttempts, seq : 0 .. MaxChunks - 1]

Idle == [busy |-> FALSE, token |-> 0, attempt |-> 0, next |-> 0]

\* rows is the result of the first query of a poll, sent what the client received
\* since the reader last began a token, missed what it had not received of the token
\* when it closed the stream.
Closed == [at |-> "closed", token |-> 0, seq |-> -1, rows |-> <<>>, sent |-> <<>>,
           polls |-> 0, missed |-> {}, why |-> "none"]

TypeOK ==
    /\ status \in {"processing", "ready", "failed", "gone"}
    /\ token \in 1 .. MaxToken
    /\ job \in {"queued", "processing", "ended"}
    /\ attempt \in 0 .. MaxAttempts
    /\ table \subseteq Chunk
    /\ work \in [Worker -> [busy : BOOLEAN, token : 0 .. MaxToken,
                            attempt : 0 .. MaxAttempts, next : 0 .. MaxChunks]]
    /\ reader.at \in {"closed", "polling", "fetched"}
    /\ reader.seq \in -1 .. MaxChunks - 1
    /\ reader.polls \in 0 .. Polls
    /\ \A i \in DOMAIN reader.sent : reader.sent[i] \in Chunk

Init ==
    /\ status = "processing" /\ token = 1 /\ job = "queued" /\ attempt = 0
    /\ table = {}
    /\ work = [w \in Worker |-> Idle]
    /\ reader = Closed

-------------------------------------------------------------------------------
\* The worker

\* TTSAdapter.claim deletes the row's chunks with the claim.
Claim(w) ==
    /\ ~work[w].busy
    /\ job = "queued" /\ status = "processing"
    /\ job' = "processing"
    /\ attempt' = attempt + 1
    /\ table' = {}
    /\ work' = [work EXCEPT ![w] = [busy |-> TRUE, token |-> token,
                                    attempt |-> attempt + 1, next |-> 0]]
    /\ UNCHANGED <<status, token, reader>>

\* append: insert ... on conflict do nothing, in a transaction of its own.
Append1(w) ==
    LET c == [token |-> work[w].token, attempt |-> work[w].attempt,
              seq |-> work[w].next]
    IN /\ work[w].busy /\ work[w].next < MaxChunks /\ status # "gone"
       /\ table' = IF \E d \in table : d.token = c.token /\ d.seq = c.seq
                   THEN table ELSE table \cup {c}
       /\ work' = [work EXCEPT ![w].next = @ + 1]
       /\ UNCHANGED <<status, token, job, attempt, reader>>

IsCurrent(w) == token = work[w].token /\ status = "processing" /\ job = "processing"

\* At least one chunk came.  A worker whose token is no longer current discards.
Complete(w) ==
    /\ work[w].busy /\ work[w].next > 0
    /\ IF IsCurrent(w) THEN status' = "ready" /\ job' = "ended"
                       ELSE UNCHANGED <<status, job>>
    /\ work' = [work EXCEPT ![w] = Idle]
    /\ UNCHANGED <<token, attempt, table, reader>>

\* The provider fails, perhaps amid its stream: a retry keeps the token.
Retry(w) ==
    /\ work[w].busy /\ attempt < MaxAttempts
    /\ IF IsCurrent(w) THEN job' = "queued" ELSE UNCHANGED job
    /\ work' = [work EXCEPT ![w] = Idle]
    /\ UNCHANGED <<status, token, attempt, table, reader>>

Fail(w) ==
    /\ work[w].busy
    /\ IF IsCurrent(w) THEN status' = "failed" /\ job' = "ended"
                       ELSE UNCHANGED <<status, job>>
    /\ work' = [work EXCEPT ![w] = Idle]
    /\ UNCHANGED <<token, attempt, table, reader>>

Crash(w) ==
    /\ work[w].busy
    /\ work' = [work EXCEPT ![w] = Idle]
    /\ UNCHANGED <<status, token, job, attempt, table, reader>>

\* recover_expired: the worker may be alive and go on appending.
Reap ==
    /\ job \in {"queued", "processing"} /\ status = "processing"
    /\ job' = "ended" /\ status' = "failed"
    /\ UNCHANGED <<token, attempt, table, work, reader>>

\* retry_tts: a new token and a new job.
RetryTts ==
    /\ status = "failed" /\ token < MaxToken
    /\ status' = "processing" /\ token' = token + 1
    /\ job' = "queued" /\ attempt' = 0
    /\ UNCHANGED <<table, work, reader>>

\* The room is deleted; the chunks go with the row.
DeleteRow ==
    /\ status # "gone" /\ job # "processing"
    /\ status' = "gone" /\ job' = "ended" /\ table' = {}
    /\ UNCHANGED <<token, attempt, work, reader>>

-------------------------------------------------------------------------------
\* The reader

\* resolve_tts_stream_target.  One connection at a time is enough: readers do not meet.
Open ==
    /\ reader.at = "closed" /\ reader.why = "none" /\ status # "gone"
    /\ reader' = [Closed EXCEPT !.at = "polling", !.token = token, !.polls = Polls]
    /\ UNCHANGED <<status, token, job, attempt, table, work>>

\* The chunks behind the last one sent, order by sequence_no.
NewRows ==
    LET new == {c \in table : c.token = reader.token /\ c.seq > reader.seq}
    IN InOrder(new, {p \in new \X new : p[1].seq < p[2].seq})

\* A reader that polls as long as the speech is not finished.
FaultyFetchRows ==
    /\ reader.at = "polling" /\ reader.polls > 0
    /\ reader' = [reader EXCEPT !.at = "fetched", !.rows = NewRows]
    /\ UNCHANGED <<status, token, job, attempt, table, work>>

FetchRows ==
    /\ reader.at = "polling" /\ reader.polls > 0
    /\ reader' = [reader EXCEPT !.at = "fetched", !.rows = NewRows,
                                !.polls = @ - 1]
    /\ UNCHANGED <<status, token, job, attempt, table, work>>

\* The rows are yielded after both queries, so also before the token is changed.
Yielded ==
    [reader EXCEPT
        !.at = "polling", !.rows = <<>>, !.sent = @ \o reader.rows,
        !.seq = IF reader.rows = <<>> THEN @ ELSE Last(reader.rows).seq]

Unsent == {c \in table : c.token = reader.token} \ Range(Yielded.sent)

\* A reader that keeps its place when the token changes.
FaultyRestart == [Yielded EXCEPT !.token = token, !.sent = <<>>]

Restart == [Yielded EXCEPT !.token = token, !.seq = -1, !.sent = <<>>]

Ends(why) == [Yielded EXCEPT !.at = "closed", !.why = why, !.missed = Unsent]

Done == status \in {"ready", "failed"} /\ reader.rows = <<>>

FetchState ==
    /\ reader.at = "fetched"
    /\ reader' =
         IF status = "gone" THEN Ends("gone")
         ELSE IF token # reader.token THEN Restart
         ELSE IF Done THEN Ends("done")
         ELSE Yielded
    /\ UNCHANGED <<status, token, job, attempt, table, work>>

TimeOut ==
    /\ reader.at = "polling" /\ reader.polls = 0
    /\ reader' = [reader EXCEPT !.at = "closed", !.why = "timeout"]
    /\ UNCHANGED <<status, token, job, attempt, table, work>>

Next ==
    \/ \E w \in Worker :
          Claim(w) \/ Append1(w) \/ Complete(w) \/ Retry(w) \/ Fail(w) \/ Crash(w)
    \/ Reap \/ RetryTts \/ DeleteRow
    \/ Open \/ FetchRows \/ FetchState \/ TimeOut

Spec == Init /\ [][Next]_vars

\* The reader polls until it ends: a loop without a wait on anybody.
Fairness == WF_vars(FetchRows \/ FetchState \/ TimeOut)

FairSpec == Spec /\ Fairness

-------------------------------------------------------------------------------
\* Properties

\* The API document lets the client concatenate what it receives: between two changes
\* of the token that is the beginning of one attempt.
ConcatenationIsAnAttempt == IsPrefixOfAttempt(reader.sent)

\* The API document: the stream closes after ready or failed and after the remaining
\* chunks have been sent.
ClosesWhenAllSent == reader.why = "done" => reader.missed = {}

\* A stream ends, also when tokens change under it, its worker is dead or the room is
\* deleted.
StreamEnds == reader.at # "closed" ~> reader.at = "closed"
=============================================================================
