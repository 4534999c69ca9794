--------------------------- MODULE JobQueueProofs ---------------------------
(***************************************************************************)
(* Theorems about JobQueue, for any number of jobs, domain rows, sources   *)
(* and consumers and for any retry policy.  The heart is the relation      *)
(* between a worker that holds a job and the job's row: it is the current  *)
(* holder, or a zombie the reaper has given up on.                         *)
(***************************************************************************)
EXTENDS JobQueue, TLAPS

-----------------------------------------------------------------------------
(* The inductive invariant *)

\* The attempt counter is bounded and leaves room for a queued job's next try.
AttemptsInv ==
    \A j \in Jobs :
        /\ attempts[j] <= MaxAttempts
        /\ status[j] = "none" => attempts[j] = 0 /\ wait[j] = 0
        /\ status[j] = "queued" => attempts[j] < MaxAttempts
        /\ status[j] = "processing" => attempts[j] >= 1 /\ wait[j] = 0

Holds(w) == pc[w] \in Holding

\* w made the job's last attempt, with its deadline and the row's token.
Current(w) ==
    LET j == claimed[w].job IN
    /\ status[j] = "processing"
    /\ claimed[w].attempts = attempts[j]
    /\ left[w] = ttl[j]
    /\ claimed[w].token = token[TargetOf[j]]

\* The reaper has requeued the job under w: deadline past, token replaced.
Zombie(w) ==
    LET t == TargetOf[claimed[w].job] IN
    /\ TypeOf[t] = "turn_feedback"
    /\ left[w] = 0
    /\ claimed[w].token < token[t]

HolderInv ==
    \A w \in Workers : Holds(w) =>
        /\ status[claimed[w].job] # "none"
        /\ claimed[w].attempts <= attempts[claimed[w].job]
        /\ status[claimed[w].job] \in Active => Current(w) \/ Zombie(w)

\* Two workers never made the same attempt.
DistinctHolders ==
    \A v, w \in Workers :
        v # w /\ Holds(v) /\ Holds(w) /\ claimed[v].job = claimed[w].job
            => claimed[v].attempts # claimed[w].attempts

\* A row waits for its active job; only configurations are invalidated under one.
TargetInv ==
    \A j \in Jobs :
        /\ status[j] \in Active =>
             \/ domain[TargetOf[j]] = "processing"
             \/ /\ domain[TargetOf[j]] = "invalidated"
                /\ TypeOf[TargetOf[j]] = "interview_configuration_generation"
        /\ domain[TargetOf[j]] = "none" => status[j] = "none"
        /\ status[j] \in Active =>
             \A i \in Jobs : i # j /\ TargetOf[i] = TargetOf[j] => status[i] \notin Active

Inv == TypeOK /\ AttemptsInv /\ HolderInv /\ DistinctHolders /\ TargetInv
           /\ DeadLetteredOnce /\ ResultFromLastAttempt

-----------------------------------------------------------------------------
(* Messages, for queues whose adapters never refuse a job for its source *)

Ungated == \A t \in Targets : ~ClaimNeedsOpen(t)

\* A message is no newer than its job's attempts; the newest one of a queued job
\* becomes visible when the job may be claimed.
MessageInv ==
    \A m \in queue :
        /\ status[m.job] # "none"
        /\ status[m.job] = "queued" => m.seq <= attempts[m.job]
        /\ status[m.job] = "processing" => m.seq < attempts[m.job]
        /\ status[m.job] = "queued" /\ m.seq = attempts[m.job] => m.vt = wait[m.job]

\* What a consumer is about to discard is not a queued job's newest message.
DiscardInv ==
    \A w \in Workers : pc[w] = "discarding" =>
        /\ status[claimed[w].job] # "none"
        /\ status[claimed[w].job] \in Active => claimed[w].seq < attempts[claimed[w].job]

WakeUpInv ==
    \A j \in Jobs : status[j] = "queued" =>
        \E m \in queue : m.job = j /\ m.seq = attempts[j]

QueueInv == MessageInv /\ DiscardInv /\ WakeUpInv

-----------------------------------------------------------------------------
(* The constants *)

\* ConstantsAssumption, one element at a time.
LEMMA ConstantTypes ==
    /\ \A j \in Jobs : TargetOf[j] \in Targets
    /\ \A t \in Targets : SourceOf[t] \in Sources
    /\ MaxAttempts \in Nat \ {0}
    /\ Deadline \in Nat \ {0}
    /\ Visibility \in Nat \ {0}
    /\ \A n \in 1..MaxAttempts : Backoff[n] \in Nat \ {0}
    /\ NoJob \notin Jobs
    /\ NoResult \notin Jobs \X Nat
  BY ConstantsAssumption

-----------------------------------------------------------------------------
(* Records *)

\* What enqueue and pgmq.send put into the queue is a message.
LEMMA MessageType ==
    ASSUME NEW j \in Jobs, NEW n \in Nat, NEW delay \in Nat
    PROVE  Message(j, n, delay) \in Messages
  BY DEF Message, Messages

\* The parts of a message of the queue.
LEMMA MessageFields ==
    ASSUME NEW m \in Messages
    PROVE  /\ m.job \in Jobs /\ m.seq \in Nat /\ m.vt \in Nat
           /\ m = Message(m.job, m.seq, m.vt)
  BY DEF Message, Messages

\* The parts of what a consumer has claimed.
LEMMA ClaimFields ==
    ASSUME NEW c \in Claims
    PROVE  /\ c.job \in Jobs \cup {NoJob} /\ c.seq \in Nat /\ c.token \in Nat
           /\ c.attempts \in Nat /\ c.repairs \in Nat
  BY DEF Claims

\* A claim of a job of the table is a claim.
LEMMA ClaimType ==
    ASSUME NEW j \in Jobs, NEW seq \in Nat, NEW k \in Nat, NEW n \in Nat, NEW r \in Nat
    PROVE  ClaimedJob(j, seq, k, n, r) \in Claims
  BY DEF Claims, ClaimedJob

\* So is the empty claim of an idle consumer.
LEMMA UnclaimedType == Unclaimed \in Claims
  BY DEF Unclaimed, ClaimedJob, Claims

\* Going back to idle keeps the consumer's part of TypeOK.
LEMMA ReleaseType ==
    ASSUME TypeOK, NEW w \in Workers, Release(w)
    PROVE  /\ pc' \in [Workers -> Places]
           /\ claimed' \in [Workers -> Claims]
           /\ left' \in [Workers -> Nat]
           /\ \A v \in Workers : pc'[v] \in Holding \cup {"discarding"} => claimed'[v].job \in Jobs
  BY UnclaimedType DEF TypeOK, Release, Places, Holding

-----------------------------------------------------------------------------
(* Type correctness *)

\* insert_job keeps the types.
LEMMA InsertType ==
    ASSUME TypeOK, NEW j \in Jobs, InsertJob(j)
    PROVE  TypeOK'
<1> USE DEF TypeOK, InsertJob
<1>1. UNCHANGED <<attempts, repairs, wait, result, source, dlq, pc, claimed, left>>
  BY DEF workerVars
<1>2. status' \in [Jobs -> JobStatus] /\ ttl' \in [Jobs -> Nat]
  BY ConstantTypes DEF JobStatus, Active
<1>3. domain' \in [Targets -> DomainStatus] /\ token' \in [Targets -> Nat]
  BY ConstantTypes DEF DomainStatus, NewToken
<1>4. queue' \subseteq Messages
  BY MessageType
<1> QED BY <1>1, <1>2, <1>3, <1>4

\* So do the requests that end a room or a document.
LEMMA SourceType ==
    ASSUME TypeOK, NEW s \in Sources,
           EndRoom(s) \/ DeleteRoom(s) \/ ReplaceDocument(s) \/ DeleteDocument(s)
    PROVE  TypeOK'
<1> USE DEF TypeOK, EndRoom, DeleteRoom, ReplaceDocument, DeleteDocument
<1>1. UNCHANGED <<attempts, repairs, ttl, wait, token, queue, dlq, pc, claimed, left>>
  BY DEF jobVars, rowVars, workerVars
<1>2. status' \in [Jobs -> JobStatus]
  BY DEF CancelDocumentJobs, JobStatus, Terminal, jobVars
<1>3. domain' \in [Targets -> DomainStatus]
  BY DEF DomainStatus, rowVars
<1>4. result' \in [Targets -> {NoResult} \cup (Jobs \X Nat)]
  BY DEF DomainStatus, rowVars
<1>5. source' \in [Sources -> {"open", "closed", "deleted"}]
  OBVIOUS
<1> QED BY <1>1, <1>2, <1>3, <1>4, <1>5

\* The reaper's delay is defined: a job in processing has made 1..MaxAttempts tries.
LEMMA DelayType ==
    ASSUME TypeOK, AttemptsInv, NEW S \in SUBSET Expired, NEW j \in S
    PROVE  Backoff[attempts[j]] \in Nat \ {0}
<1>1. j \in Jobs /\ attempts[j] \in Nat /\ 1 <= attempts[j] /\ attempts[j] <= MaxAttempts
  BY DEF TypeOK, AttemptsInv, Expired
<1> QED BY <1>1, ConstantTypes

\* recover_expired keeps the types, run by the reaper or by a consumer.
LEMMA RecoverType ==
    ASSUME TypeOK, AttemptsInv, NEW S \in SUBSET Expired, RecoverTx(S),
           \/ UNCHANGED workerVars
           \/ \E w \in Workers :
                pc' = [pc EXCEPT ![w] = "reading"] /\ UNCHANGED <<claimed, left>>
    PROVE  TypeOK'
<1> USE DEF TypeOK, RecoverTx
<1>1. S \subseteq Jobs
  BY DEF Expired
<1>2. status' \in [Jobs -> JobStatus]
  BY DEF JobStatus, Active, Terminal
<1>3. ttl' \in [Jobs -> Nat] /\ wait' \in [Jobs -> Nat]
  BY DelayType, ConstantTypes
<1>4. domain' \in [Targets -> DomainStatus] /\ token' \in [Targets -> Nat]
  BY DEF DomainStatus, NewToken
<1>5. queue' \subseteq Messages
  BY <1>1, DelayType, MessageType
<1>6. dlq' \in [Jobs -> Nat]
  OBVIOUS
<1>7. /\ pc' \in [Workers -> Places] /\ claimed' \in [Workers -> Claims]
      /\ left' \in [Workers -> Nat]
      /\ \A v \in Workers : pc'[v] \in Holding \cup {"discarding"} => claimed'[v].job \in Jobs
  BY DEF workerVars, Places, Holding
<1> QED BY <1>2, <1>3, <1>4, <1>5, <1>6, <1>7

\* Claiming or rejecting what was read keeps the types.
LEMMA ClaimStepType ==
    ASSUME TypeOK, NEW w \in Workers, NEW m \in Visible, Claim(w, m) \/ RejectClaim(w, m)
    PROVE  TypeOK'
<1> USE DEF TypeOK, Claim, RejectClaim
<1>0. m \in Messages /\ m.job \in Jobs /\ m.seq \in Nat
  BY MessageFields DEF Visible
<1>1. UNCHANGED <<repairs, ttl, wait, domain, token, result, source, dlq>>
  BY DEF jobVars, rowVars
<1>2. status' \in [Jobs -> JobStatus] /\ attempts' \in [Jobs -> Nat]
  BY <1>0 DEF JobStatus, Active, jobVars
<1>3. queue' \subseteq Messages
  BY <1>0, MessageType, ConstantTypes DEF Without
<1>4. claimed' \in [Workers -> Claims]
  <2>1. repairs[m.job] \in Nat /\ attempts[m.job] + 1 \in Nat /\ token[TargetOf[m.job]] \in Nat
    BY <1>0, ConstantTypes
  <2>2. /\ ClaimedJob(m.job, m.seq, token[TargetOf[m.job]], attempts[m.job] + 1, repairs[m.job])
             \in Claims
        /\ ClaimedJob(m.job, m.seq, 0, 0, 0) \in Claims
    BY <2>1, <1>0, ClaimType
  <2> QED BY <2>2
<1>5. pc' \in [Workers -> Places] /\ left' \in [Workers -> Nat]
  BY <1>0 DEF Places, Holding
<1>6. \A v \in Workers : pc'[v] \in Holding \cup {"discarding"} => claimed'[v].job \in Jobs
  BY <1>0 DEF Holding, ClaimedJob
<1> QED BY <1>1, <1>2, <1>3, <1>4, <1>5, <1>6

\* So do the consumer steps that write no job or domain row.
LEMMA ReadStepType ==
    ASSUME TypeOK, NEW w \in Workers, ReadEmpty(w) \/ Discard(w) \/ Execute(w) \/ Abort(w)
    PROVE  TypeOK'
<1> USE DEF TypeOK, ReadEmpty, Discard, Execute, Abort
<1>1. UNCHANGED <<status, attempts, repairs, ttl, wait, domain, token, result, source, dlq>>
  BY DEF jobVars, rowVars
<1>2. queue' \subseteq Messages
  BY DEF Without
<1>3. CASE Release(w)
  BY <1>1, <1>2, <1>3, ReleaseType
<1>4. CASE Execute(w)
  <2>1. pc' \in [Workers -> Places] /\ UNCHANGED <<claimed, left>>
    BY <1>4 DEF Places, Holding
  <2>2. \A v \in Workers : pc'[v] \in Holding \cup {"discarding"} => claimed'[v].job \in Jobs
    BY <1>4 DEF Holding
  <2> QED BY <1>1, <1>2, <2>1, <2>2
<1> QED BY <1>3, <1>4

\* So do the transactions that end an attempt; mark_schema_repair finds the
\* count at 0 and leaves it at 1.
LEMMA RunStepType ==
    ASSUME TypeOK, NEW w \in Workers,
           Repair(w) \/ Complete(w) \/ (\E delay \in 0..left[w] : Retry(w, delay)) \/ Fail(w)
    PROVE  TypeOK'
<1> DEFINE j == claimed[w].job
           t == TargetOf[j]
<1>0. j \in Jobs /\ t \in Targets /\ SourceOf[t] \in Sources /\ claimed[w].attempts \in Nat
  BY ClaimFields, ConstantTypes DEF TypeOK, Repair, Complete, Retry, Fail, Holding
<1> USE DEF TypeOK
<1>1. CASE Repair(w)
  <2>1. UNCHANGED <<status, attempts, ttl, wait, domain, token, result, source, queue, dlq,
                    claimed, left>>
    BY <1>1 DEF Repair, rowVars
  <2>2. repairs' \in [Jobs -> 0..1] /\ pc' \in [Workers -> Places]
    BY <1>0, <1>1 DEF Repair, Places, Holding
  <2>3. \A v \in Workers : pc'[v] \in Holding \cup {"discarding"} => claimed'[v].job \in Jobs
    BY <1>0, <1>1, <2>1 DEF Repair, Holding
  <2> QED BY <2>1, <2>2, <2>3
<1>2. CASE Complete(w)
  <2>1. UNCHANGED <<attempts, repairs, ttl, wait, token, dlq>> /\ Release(w)
    BY <1>2 DEF Complete
  <2>2. status' \in [Jobs -> JobStatus]
    BY <1>0, <1>2 DEF Complete, JobStatus, Terminal
  <2>3. domain' \in [Targets -> DomainStatus]
    BY <1>0, <1>2 DEF Complete, StoreOutcomes, DomainStatus
  <2>4. result' \in [Targets -> {NoResult} \cup (Jobs \X Nat)]
    BY <1>0, <1>2 DEF Complete
  <2>5. source' \in [Sources -> {"open", "closed", "deleted"}]
    BY <1>0, <1>2 DEF Complete
  <2>6. queue' \subseteq Messages
    BY <1>2 DEF Complete, Without
  <2> QED BY <2>1, <2>2, <2>3, <2>4, <2>5, <2>6, ReleaseType
<1>3. ASSUME NEW delay \in 0..left[w], Retry(w, delay)
      PROVE  TypeOK'
  <2>1. UNCHANGED <<attempts, repairs, ttl, domain, token, result, source, dlq>> /\ Release(w)
    BY <1>3 DEF Retry, rowVars
  <2>2. status' \in [Jobs -> JobStatus] /\ wait' \in [Jobs -> Nat]
    BY <1>0, <1>3 DEF Retry, JobStatus, Active
  <2>3. queue' \subseteq Messages
    BY <1>0, <1>3, MessageType DEF Retry, Without
  <2> QED BY <2>1, <2>2, <2>3, ReleaseType
<1>4. CASE Fail(w)
  <2>1. UNCHANGED <<attempts, repairs, ttl, wait, token, result, source>> /\ Release(w)
    BY <1>4 DEF Fail
  <2>2. status' \in [Jobs -> JobStatus] /\ dlq' \in [Jobs -> Nat]
    BY <1>0, <1>4 DEF Fail, JobStatus, Terminal
  <2>3. domain' \in [Targets -> DomainStatus]
    BY <1>0, <1>4 DEF Fail, DomainStatus
  <2>4. queue' \subseteq Messages
    BY <1>4 DEF Fail, Without
  <2> QED BY <2>1, <2>2, <2>3, <2>4, ReleaseType
<1> QED BY <1>1, <1>2, <1>3, <1>4

\* Time leaves every remaining time a natural number.
LEMMA TickType ==
    ASSUME TypeOK, Tick
    PROVE  TypeOK'
<1> USE DEF TypeOK, Tick
<1>1. UNCHANGED <<status, attempts, repairs, domain, token, result, source, dlq, pc, claimed>>
  BY DEF rowVars
<1>2. \A n \in Nat : Dec(n) \in Nat
  BY DEF Dec
<1>3. ttl' \in [Jobs -> Nat] /\ wait' \in [Jobs -> Nat] /\ left' \in [Workers -> Nat]
  BY <1>2
<1>4. queue' \subseteq Messages
  BY <1>2, MessageFields, MessageType
<1> QED BY <1>1, <1>3, <1>4

\* Every step keeps TypeOK.
LEMMA TypeStep ==
    ASSUME TypeOK, AttemptsInv, [Next]_vars
    PROVE  TypeOK'
<1>1. CASE Requests
  BY <1>1, InsertType, SourceType DEF Requests, Submit, UserRetry
<1>2. CASE \E S \in SUBSET Expired : Reap(S)
  BY <1>2, RecoverType DEF Reap
<1>3. ASSUME NEW w \in Workers, ReadStep(w)
      PROVE  TypeOK'
  BY <1>3, RecoverType, ClaimStepType, ReadStepType DEF ReadStep, Poll
<1>4. ASSUME NEW w \in Workers, RunStep(w) \/ Abort(w)
      PROVE  TypeOK'
  BY <1>4, ReadStepType, RunStepType DEF RunStep
<1>5. CASE UNCHANGED vars
  BY <1>5 DEF vars, TypeOK
<1> QED BY <1>1, <1>2, <1>3, <1>4, <1>5, TickType DEF Next

-----------------------------------------------------------------------------
(* Holders *)

\* A consumer that holds or discards something has a job of the table.
LEMMA HeldJob ==
    ASSUME TypeOK, NEW w \in Workers, pc[w] \in Holding \cup {"discarding"}
    PROVE  /\ claimed[w].job \in Jobs /\ TargetOf[claimed[w].job] \in Targets
           /\ claimed[w].attempts \in Nat /\ claimed[w].token \in Nat /\ claimed[w].seq \in Nat
  BY ClaimFields, ConstantTypes DEF TypeOK

\* Time left, or the row's token, tells the current holder from a zombie.
LEMMA CurrentHolder ==
    ASSUME TypeOK, HolderInv, NEW w \in Workers, Holds(w),
           status[claimed[w].job] = "processing",
           left[w] > 0 \/ OwnsTarget(w)
    PROVE  Current(w)
<1>1. token[TargetOf[claimed[w].job]] \in Nat /\ claimed[w].token \in Nat /\ left[w] \in Nat
  BY HeldJob DEF TypeOK, Holds
<1>2. ~Zombie(w)
  BY <1>1 DEF Zombie, OwnsTarget, HasToken
<1> QED BY <1>2 DEF HolderInv, Active

-----------------------------------------------------------------------------
(* Attempts *)

\* Every step keeps AttemptsInv: the planner compares the attempts of the claim,
\* which are those of the row because a zombie has no time left for a retry.
LEMMA AttemptsStep ==
    ASSUME TypeOK, AttemptsInv, HolderInv, [Next]_vars
    PROVE  AttemptsInv'
<1> USE DEF TypeOK, AttemptsInv
<1>1. ASSUME NEW j \in Jobs, InsertJob(j)
      PROVE  AttemptsInv'
  BY <1>1, ConstantTypes DEF InsertJob
<1>2. ASSUME NEW s \in Sources,
             EndRoom(s) \/ DeleteRoom(s) \/ ReplaceDocument(s) \/ DeleteDocument(s)
      PROVE  AttemptsInv'
  BY <1>2 DEF EndRoom, DeleteRoom, ReplaceDocument, DeleteDocument, CancelDocumentJobs, jobVars
<1>3. ASSUME NEW S \in SUBSET Expired, RecoverTx(S)
      PROVE  AttemptsInv'
  BY <1>3 DEF RecoverTx, Requeues, Expired
<1>4. ASSUME NEW w \in Workers, NEW m \in Visible, Claim(w, m)
      PROVE  AttemptsInv'
  <2>1. m.job \in Jobs /\ MaxAttempts \in Nat
    BY MessageFields, ConstantTypes DEF Visible
  <2> QED BY <1>4, <2>1 DEF Claim, Claimable
<1>5. ASSUME NEW w \in Workers, NEW delay \in 0..left[w], Retry(w, delay)
      PROVE  AttemptsInv'
  <2>1. Holds(w) /\ claimed[w].job \in Jobs /\ left[w] > 0
    BY <1>5, HeldJob DEF Retry, Holds, Holding
  <2>2. attempts[claimed[w].job] < MaxAttempts
    BY <1>5, <2>1, CurrentHolder DEF Retry, Current
  <2> QED BY <1>5, <2>1, <2>2 DEF Retry
<1>6. ASSUME NEW w \in Workers, Complete(w) \/ Fail(w)
      PROVE  AttemptsInv'
  BY <1>6 DEF Complete, Fail
<1>7. CASE Tick
  BY <1>7 DEF Tick, Dec
<1>8. ASSUME UNCHANGED <<status, attempts, wait>>
      PROVE  AttemptsInv'
  BY <1>8
<1> HIDE DEF TypeOK, AttemptsInv
<1>9. CASE Requests
  BY <1>9, <1>1, <1>2 DEF Requests, Submit, UserRetry
<1>10. ASSUME NEW w \in Workers, ReadStep(w) \/ RunStep(w) \/ Abort(w)
      PROVE  AttemptsInv'
  BY <1>10, <1>3, <1>4, <1>5, <1>6, <1>8
     DEF ReadStep, RunStep, Poll, ReadEmpty, RejectClaim, Discard, Execute, Repair, Abort, jobVars
<1> QED BY <1>3, <1>7, <1>8, <1>9, <1>10 DEF Next, Reap, vars

-----------------------------------------------------------------------------
(* Domain rows *)

\* A request inserts a job only for a row without active jobs.
LEMMA FreeTarget ==
    ASSUME TargetInv, NEW j \in Jobs, Submit(j) \/ UserRetry(j)
    PROVE  InsertJob(j) /\ NoActiveJob(TargetOf[j])
  BY DEF TargetInv, Submit, UserRetry, NoActiveJob, Active

\* Every step keeps TargetInv: a row gets a job only when it has none.
LEMMA TargetStep ==
    ASSUME TypeOK, TargetInv, [Next]_vars
    PROVE  TargetInv'
<1> USE ConstantTypes DEF TypeOK, TargetInv, Active
<1>1. ASSUME NEW j \in Jobs, Submit(j) \/ UserRetry(j)
      PROVE  TargetInv'
  BY <1>1, FreeTarget DEF InsertJob, NoActiveJob
<1>2. ASSUME NEW s \in Sources, DeleteRoom(s)
      PROVE  TargetInv'
  BY <1>2 DEF DeleteRoom, TargetsOf
<1>3. ASSUME NEW s \in Sources, ReplaceDocument(s)
      PROVE  TargetInv'
  BY <1>3 DEF ReplaceDocument, CancelDocumentJobs, rowVars
<1>4. ASSUME NEW s \in Sources, DeleteDocument(s)
      PROVE  TargetInv'
  BY <1>4 DEF DeleteDocument, CancelDocumentJobs, OnDocuments, TargetsOf, DocumentTypes
<1>5. ASSUME NEW S \in SUBSET Expired, RecoverTx(S)
      PROVE  TargetInv'
  BY <1>5 DEF RecoverTx, Requeues, Expired
<1>6. ASSUME NEW w \in Workers, NEW m \in Visible, Claim(w, m)
      PROVE  TargetInv'
  <2>1. m.job \in Jobs
    BY MessageFields DEF Visible
  <2> QED BY <1>6, <2>1 DEF Claim, Claimable, rowVars
<1>7. ASSUME NEW w \in Workers, NEW delay \in 0..left[w], Retry(w, delay)
      PROVE  TargetInv'
  BY <1>7 DEF Retry, rowVars
<1>8. ASSUME NEW w \in Workers, Complete(w) \/ Fail(w)
      PROVE  TargetInv'
  <2>1. claimed[w].job \in Jobs
    BY <1>8, HeldJob DEF Complete, Fail, Holding
  <2>2. CASE Complete(w)
    BY <2>1, <2>2 DEF Complete, StoreOutcomes
  <2>3. CASE Fail(w)
    BY <2>1, <2>3 DEF Fail
  <2> QED BY <1>8, <2>2, <2>3
<1>9. ASSUME UNCHANGED <<status, domain>>
      PROVE  TargetInv'
  BY <1>9
<1> HIDE DEF TypeOK, TargetInv
<1>10. CASE Requests
  BY <1>10, <1>1, <1>2, <1>3, <1>4, <1>9 DEF Requests, EndRoom, jobVars, rowVars
<1>11. ASSUME NEW w \in Workers, ReadStep(w) \/ RunStep(w) \/ Abort(w)
      PROVE  TargetInv'
  BY <1>11, <1>5, <1>6, <1>7, <1>8, <1>9
     DEF ReadStep, RunStep, Poll, ReadEmpty, RejectClaim, Discard, Execute, Repair, Abort,
         jobVars, rowVars
<1> QED BY <1>5, <1>9, <1>10, <1>11 DEF Next, Reap, Tick, vars, rowVars

-----------------------------------------------------------------------------
(* A holder is current or a zombie *)

\* Every step keeps HolderInv: the reaper turns a current holder into a zombie,
\* the claim of the next attempt leaves zombies alone, and nothing turns one back.
LEMMA HolderStep ==
    ASSUME TypeOK, AttemptsInv, HolderInv, DistinctHolders, TargetInv, [Next]_vars
    PROVE  HolderInv'
<1> USE DEF Holds, Current, Zombie, HolderInv
<1>1. ASSUME NEW j \in Jobs, Submit(j) \/ UserRetry(j)
      PROVE  HolderInv'
  <2> SUFFICES ASSUME NEW w \in Workers, pc'[w] \in Holding
               PROVE  /\ status'[claimed'[w].job] # "none"
                      /\ claimed'[w].attempts <= attempts'[claimed'[w].job]
                      /\ status'[claimed'[w].job] \in Active => (Current(w) \/ Zombie(w))'
    OBVIOUS
  <2>1. InsertJob(j) /\ NoActiveJob(TargetOf[j]) /\ UNCHANGED <<attempts, pc, claimed, left>>
    BY <1>1, FreeTarget DEF InsertJob, workerVars
  <2>2. claimed[w].job \in Jobs /\ claimed[w].job # j /\ claimed[w].token \in Nat
    BY <2>1, HeldJob DEF InsertJob
  <2>3. CASE status[claimed[w].job] \notin Active
    BY <2>1, <2>2, <2>3 DEF InsertJob, TypeOK
  <2>4. CASE status[claimed[w].job] \in Active /\ Current(w)
    BY <2>1, <2>2, <2>4 DEF InsertJob, TypeOK, NoActiveJob
  <2>5. CASE Zombie(w)
    BY <2>1, <2>2, <2>5, ConstantTypes DEF InsertJob, TypeOK, NewToken
  <2> QED BY <2>1, <2>3, <2>4, <2>5
<1>2. ASSUME NEW s \in Sources,
             EndRoom(s) \/ DeleteRoom(s) \/ ReplaceDocument(s) \/ DeleteDocument(s)
      PROVE  HolderInv'
  <2>1. UNCHANGED <<attempts, ttl, token, pc, claimed, left>>
    BY <1>2 DEF EndRoom, DeleteRoom, ReplaceDocument, DeleteDocument, jobVars, rowVars, workerVars
  <2>2. \A j \in Jobs : /\ status'[j] \in Active => status'[j] = status[j]
                        /\ status'[j] = "none" => status[j] = "none"
    BY <1>2 DEF EndRoom, DeleteRoom, ReplaceDocument, DeleteDocument, CancelDocumentJobs,
                jobVars, Active, TypeOK
  <2> QED BY <2>1, <2>2, HeldJob
<1>3. ASSUME NEW S \in SUBSET Expired, RecoverTx(S),
             UNCHANGED <<claimed, left>>,
             \A w \in Workers : pc'[w] \in Holding => pc[w] \in Holding
      PROVE  HolderInv'
  <2> SUFFICES ASSUME NEW w \in Workers, pc[w] \in Holding
               PROVE  /\ status'[claimed[w].job] # "none"
                      /\ claimed[w].attempts <= attempts[claimed[w].job]
                      /\ status'[claimed[w].job] \in Active => (Current(w) \/ Zombie(w))'
    BY <1>3 DEF RecoverTx
  <2> DEFINE j == claimed[w].job
             t == TargetOf[j]
  <2>1. j \in Jobs /\ t \in Targets /\ claimed[w].token \in Nat /\ token[t] \in Nat
    BY HeldJob DEF TypeOK
  <2>2. status'[j] # "none" /\ attempts' = attempts
    BY <1>3, <2>1 DEF RecoverTx, TypeOK
  <2>3. token'[t] \in Nat /\ token[t] <= token'[t]
    BY <1>3, <2>1 DEF RecoverTx, NewToken, TypeOK
  <2>4. CASE Zombie(w)
    <3>1. claimed[w].token < token'[t]
      BY <2>1, <2>3, <2>4
    <3> QED BY <1>3, <2>2, <2>4, <3>1
  <2>5. CASE j \in S /\ Requeues(j) /\ Current(w)
    BY <1>3, <2>1, <2>5 DEF RecoverTx, NewToken, Requeues, Expired
  <2>6. CASE j \in S /\ ~Requeues(j)
    BY <1>3, <2>1, <2>6 DEF RecoverTx, Active
  <2>7. CASE j \notin S /\ status[j] \in Active /\ Current(w)
    <3>1. \A i \in S : TargetOf[i] # t
      BY <1>3, <2>1, <2>7 DEF Expired, TargetInv, Active
    <3> QED BY <1>3, <2>1, <2>7, <3>1 DEF RecoverTx
  <2>8. CASE j \notin S /\ status[j] \notin Active
    BY <1>3, <2>1, <2>8 DEF RecoverTx
  <2>9. j \in S => status[j] \in Active
    BY DEF Expired, Active
  <2> QED BY <2>2, <2>4, <2>5, <2>6, <2>7, <2>8, <2>9
<1>4. ASSUME NEW w \in Workers, NEW m \in Visible, Claim(w, m)
      PROVE  HolderInv'
  <2>1. m.job \in Jobs /\ TargetOf[m.job] \in Targets /\ attempts[m.job] + 1 \in Nat
    BY MessageFields, ConstantTypes DEF Visible, TypeOK
  <2>2. ASSUME NEW v \in Workers, v # w, pc'[v] \in Holding
        PROVE  /\ status'[claimed'[v].job] # "none"
               /\ claimed'[v].attempts <= attempts'[claimed'[v].job]
               /\ status'[claimed'[v].job] \in Active => (Current(v) \/ Zombie(v))'
    <3>1. pc'[v] = pc[v] /\ claimed'[v] = claimed[v] /\ left'[v] = left[v]
      BY <1>4, <2>2 DEF Claim, TypeOK
    <3>2. claimed[v].job \in Jobs /\ claimed[v].attempts \in Nat
      BY <2>2, <3>1, HeldJob
    <3>3. UNCHANGED <<ttl, token>>
      BY <1>4 DEF Claim, rowVars
    <3>4. CASE claimed[v].job = m.job
      BY <1>4, <2>1, <2>2, <3>1, <3>2, <3>3, <3>4 DEF Claim, Claimable, Active, TypeOK
    <3>5. CASE claimed[v].job # m.job
      BY <1>4, <2>1, <2>2, <3>1, <3>2, <3>3, <3>5 DEF Claim, TypeOK
    <3> QED BY <3>4, <3>5
  <2>3. /\ status'[claimed'[w].job] # "none"
        /\ claimed'[w].attempts <= attempts'[claimed'[w].job]
        /\ Current(w)'
    <3>1. /\ claimed'[w].job = m.job /\ claimed'[w].attempts = attempts[m.job] + 1
          /\ claimed'[w].token = token[TargetOf[m.job]] /\ left'[w] = ttl[m.job]
      BY <1>4 DEF Claim, TypeOK, ClaimedJob
    <3>2. UNCHANGED <<ttl, token>> /\ status'[m.job] = "processing"
          /\ attempts'[m.job] = attempts[m.job] + 1
      BY <1>4, <2>1 DEF Claim, rowVars, TypeOK
    <3> QED BY <2>1, <3>1, <3>2
  <2> QED BY <2>2, <2>3
<1>5. ASSUME NEW w \in Workers, Release(w), UNCHANGED <<attempts, ttl, token>>,
             \A v \in Workers : v # w /\ pc[v] \in Holding =>
                LET j == claimed[v].job IN
                /\ status[j] # "none" => status'[j] # "none"
                /\ status'[j] \in Active => \/ status'[j] = status[j]
                                            \/ status[j] \in Active /\ Zombie(v)
      PROVE  HolderInv'
  <2>1. pc'[w] \notin Holding
    BY <1>5 DEF Release, TypeOK, Holding
  <2>2. \A v \in Workers :
          v # w => pc'[v] = pc[v] /\ claimed'[v] = claimed[v] /\ left'[v] = left[v]
    BY <1>5 DEF Release, TypeOK
  <2> QED BY <1>5, <2>1, <2>2
<1>6. ASSUME NEW w \in Workers, Complete(w) \/ Fail(w)
      PROVE  HolderInv'
  BY <1>5, <1>6, HeldJob DEF Complete, Fail, Active, TypeOK
<1>7. ASSUME NEW w \in Workers, NEW delay \in 0..left[w], Retry(w, delay)
      PROVE  HolderInv'
  <2>1. pc[w] \in Holding /\ Current(w)
    BY <1>7, CurrentHolder DEF Retry, Holding, TypeOK
  <2>2. \A v \in Workers :
          v # w /\ pc[v] \in Holding /\ claimed[v].job = claimed[w].job => Zombie(v)
    BY <1>7, <2>1 DEF DistinctHolders, Retry, Active
  <2> QED BY <1>5, <1>7, <2>1, <2>2, HeldJob DEF Retry, rowVars, Active, TypeOK
<1>8. ASSUME UNCHANGED <<status, attempts, ttl, token>>,
             \A w \in Workers : pc'[w] \in Holding =>
                pc[w] \in Holding /\ claimed'[w] = claimed[w] /\ left'[w] = left[w]
      PROVE  HolderInv'
  BY <1>8
<1>9. CASE Tick
  <2>1. UNCHANGED <<status, attempts, token, pc, claimed>>
    BY <1>9 DEF Tick, rowVars
  <2>2. \A w \in Workers : left'[w] = Dec(left[w])
    BY <1>9 DEF Tick
  <2>3. \A j \in Jobs : ttl'[j] = Dec(ttl[j])
    BY <1>9 DEF Tick
  <2> QED BY <2>1, <2>2, <2>3, HeldJob DEF Dec
<1> HIDE DEF Holds, Current, Zombie, HolderInv
<1>10. CASE Requests
  BY <1>10, <1>1, <1>2 DEF Requests
<1>11. CASE \E S \in SUBSET Expired : Reap(S)
  BY <1>11, <1>3 DEF Reap, workerVars
<1>12. ASSUME NEW w \in Workers, ReadStep(w)
      PROVE  HolderInv'
  <2>1. CASE \E S \in SUBSET Expired : Poll(w, S)
    BY <2>1, <1>3 DEF Poll, TypeOK, Holding
  <2>2. CASE \E m \in Visible : RejectClaim(w, m)
    BY <2>2, <1>8 DEF RejectClaim, TypeOK, Holding, jobVars, rowVars
  <2>3. CASE ReadEmpty(w) \/ Discard(w)
    BY <2>3, <1>8 DEF ReadEmpty, Discard, Release, TypeOK, Holding, jobVars, rowVars
  <2> QED BY <1>12, <1>4, <2>1, <2>2, <2>3 DEF ReadStep
<1>13. ASSUME NEW w \in Workers, RunStep(w) \/ Abort(w)
      PROVE  HolderInv'
  <2>1. CASE Execute(w) \/ Repair(w)
    BY <2>1, <1>8 DEF Execute, Repair, TypeOK, Holding, jobVars, rowVars
  <2>2. CASE Abort(w)
    BY <2>2, <1>8 DEF Abort, Release, TypeOK, Holding, jobVars, rowVars
  <2> QED BY <1>13, <1>6, <1>7, <2>1, <2>2 DEF RunStep
<1>14. CASE UNCHANGED vars
  BY <1>14, <1>8 DEF vars
<1> QED BY <1>9, <1>10, <1>11, <1>12, <1>13, <1>14 DEF Next

\* Only a claim adds a holder, and its attempt number is new.
LEMMA DistinctStep ==
    ASSUME TypeOK, HolderInv, DistinctHolders, [Next]_vars
    PROVE  DistinctHolders'
<1> USE DEF Holds
<1>1. ASSUME \A w \in Workers : pc'[w] \in Holding => pc[w] \in Holding /\ claimed'[w] = claimed[w]
      PROVE  DistinctHolders'
  BY <1>1 DEF DistinctHolders
<1>2. ASSUME NEW w \in Workers, NEW m \in Visible, Claim(w, m)
      PROVE  DistinctHolders'
  <2>1. m.job \in Jobs /\ attempts[m.job] \in Nat
    BY MessageFields DEF Visible, TypeOK
  <2>2. claimed'[w].job = m.job /\ claimed'[w].attempts = attempts[m.job] + 1
    BY <1>2 DEF Claim, TypeOK, ClaimedJob
  <2>3. \A v \in Workers : v # w => pc'[v] = pc[v] /\ claimed'[v] = claimed[v]
    BY <1>2 DEF Claim, TypeOK
  <2>4. \A v \in Workers : v # w /\ pc[v] \in Holding /\ claimed[v].job = m.job =>
            claimed[v].attempts # attempts[m.job] + 1
    BY <2>1, HeldJob DEF HolderInv
  <2> QED BY <2>2, <2>3, <2>4 DEF DistinctHolders
<1>3. CASE Requests \/ Tick \/ UNCHANGED vars \/ \E S \in SUBSET Expired : Reap(S)
  <2>1. UNCHANGED <<pc, claimed>>
    BY <1>3 DEF Requests, Submit, UserRetry, InsertJob, EndRoom, DeleteRoom, ReplaceDocument,
                DeleteDocument, Tick, Reap, vars, workerVars
  <2> QED BY <1>1, <2>1
<1>4. ASSUME NEW w \in Workers, ReadStep(w) \/ RunStep(w) \/ Abort(w),
             \A m \in Visible : ~Claim(w, m)
      PROVE  DistinctHolders'
  <2>1. CASE Release(w)
    BY <2>1, <1>1 DEF Release, TypeOK, Holding
  <2>2. CASE (\E S \in SUBSET Expired : Poll(w, S)) \/ Execute(w) \/ Repair(w)
    BY <2>2, <1>1 DEF Poll, Execute, Repair, TypeOK, Holding
  <2>3. CASE \E m \in Visible : RejectClaim(w, m)
    BY <2>3, <1>1 DEF RejectClaim, TypeOK, Holding
  <2> QED BY <1>4, <2>1, <2>2, <2>3
          DEF ReadStep, RunStep, ReadEmpty, Discard, Complete, Retry, Fail, Abort
<1> QED BY <1>2, <1>3, <1>4 DEF Next, ReadStep

-----------------------------------------------------------------------------
(* Dead letters and results *)

\* Every step keeps DeadLetteredOnce: whoever fails a job finds it in processing.
LEMMA DeadLetterStep ==
    ASSUME TypeOK, DeadLetteredOnce, [Next]_vars
    PROVE  DeadLetteredOnce'
<1> USE DEF TypeOK, DeadLetteredOnce
<1>1. ASSUME NEW j \in Jobs, status[j] = "processing"
      PROVE  dlq[j] = 0
  <2>1. status[j] # "deleted" /\ status[j] # "failed"
    BY <1>1
  <2>2. dlq[j] # 1
    BY <2>1, Zenon
  <2>3. dlq[j] \in Nat /\ dlq[j] <= 1
    BY Zenon
  <2> HIDE DEF TypeOK, DeadLetteredOnce
  <2> QED BY <2>2, <2>3
<1>2. ASSUME NEW j \in Jobs, InsertJob(j)
      PROVE  DeadLetteredOnce'
  BY <1>2 DEF InsertJob
<1>3. ASSUME NEW s \in Sources,
             EndRoom(s) \/ DeleteRoom(s) \/ ReplaceDocument(s) \/ DeleteDocument(s)
      PROVE  DeadLetteredOnce'
  BY <1>3 DEF EndRoom, DeleteRoom, ReplaceDocument, DeleteDocument, CancelDocumentJobs,
              jobVars, Active
<1>4. ASSUME NEW S \in SUBSET Expired, RecoverTx(S)
      PROVE  DeadLetteredOnce'
  BY <1>1, <1>4 DEF RecoverTx, Expired
<1>5. ASSUME NEW w \in Workers, NEW m \in Visible, Claim(w, m)
      PROVE  DeadLetteredOnce'
  BY <1>5 DEF Claim, Claimable
<1>6. ASSUME NEW w \in Workers, Complete(w) \/ (\E delay \in 0..left[w] : Retry(w, delay))
      PROVE  DeadLetteredOnce'
  BY <1>6 DEF Complete, Retry
<1>7. ASSUME NEW w \in Workers, Fail(w)
      PROVE  DeadLetteredOnce'
  BY <1>1, <1>7 DEF Fail
<1>8. ASSUME UNCHANGED <<status, dlq>>
      PROVE  DeadLetteredOnce'
  BY <1>8
<1> HIDE DEF TypeOK, DeadLetteredOnce
<1>9. CASE Requests
  BY <1>9, <1>2, <1>3 DEF Requests, Submit, UserRetry
<1>10. ASSUME NEW w \in Workers, ReadStep(w) \/ RunStep(w) \/ Abort(w)
      PROVE  DeadLetteredOnce'
  BY <1>10, <1>4, <1>5, <1>6, <1>7, <1>8
     DEF ReadStep, RunStep, Poll, ReadEmpty, RejectClaim, Discard, Execute, Repair, Abort, jobVars
<1> QED BY <1>4, <1>8, <1>9, <1>10 DEF Next, Reap, Tick, vars

\* Every step keeps ResultFromLastAttempt: complete() runs for current holders.
LEMMA ResultStep ==
    ASSUME TypeOK, HolderInv, ResultFromLastAttempt, [Next]_vars
    PROVE  ResultFromLastAttempt'
<1>1. \A t \in Targets : result[t] # NoResult =>
        result[t][1] \in Jobs /\ TargetOf[result[t][1]] = t
    /\ result[t][2] = attempts[result[t][1]] /\ status[result[t][1]] = "succeeded"
  BY DEF TypeOK, ResultFromLastAttempt
<1>2. ASSUME UNCHANGED result,
             \A j \in Jobs : status[j] = "succeeded" =>
                               status'[j] = "succeeded" /\ attempts'[j] = attempts[j]
      PROVE  ResultFromLastAttempt'
  BY <1>1, <1>2 DEF ResultFromLastAttempt
<1>3. ASSUME NEW s \in Sources, DeleteRoom(s)
      PROVE  ResultFromLastAttempt'
  BY <1>1, <1>3 DEF DeleteRoom, TargetsOf, TypeOK, ResultFromLastAttempt
<1>4. ASSUME NEW w \in Workers, Complete(w)
      PROVE  ResultFromLastAttempt'
  <2> DEFINE j == claimed[w].job
             t == TargetOf[j]
  <2>1. j \in Jobs /\ t \in Targets /\ claimed[w].attempts = attempts[j]
    BY <1>4, HeldJob, CurrentHolder DEF Complete, Holding, Holds, Current
  <2>2. /\ result'[t] = <<j, attempts[j]>>
        /\ \A u \in Targets : u # t => result'[u] = result[u]
    BY <1>4, <2>1 DEF Complete, TypeOK
  <2>3. /\ attempts' = attempts /\ status'[j] = "succeeded"
        /\ \A i \in Jobs : i # j => status'[i] = status[i]
    BY <1>4, <2>1 DEF Complete, TypeOK
  <2> QED BY <1>1, <2>1, <2>2, <2>3 DEF ResultFromLastAttempt
<1>5. CASE Requests
  BY <1>5, <1>2, <1>3 DEF Requests, Submit, UserRetry, InsertJob, EndRoom, ReplaceDocument,
     DeleteDocument, CancelDocumentJobs, jobVars, Active, TypeOK
<1>6. ASSUME NEW S \in SUBSET Expired, RecoverTx(S)
      PROVE  ResultFromLastAttempt'
  BY <1>6, <1>2 DEF RecoverTx, Expired
<1>7. ASSUME NEW w \in Workers, ReadStep(w) \/ Abort(w)
      PROVE  ResultFromLastAttempt'
  BY <1>7, <1>2, <1>6 DEF ReadStep, Poll, Claim, Claimable, RejectClaim, ReadEmpty, Discard, Abort,
     jobVars, TypeOK
<1>8. ASSUME NEW w \in Workers, RunStep(w)
      PROVE  ResultFromLastAttempt'
  BY <1>8, <1>2, <1>4 DEF RunStep, Execute, Repair, Retry, Fail, jobVars, rowVars, TypeOK
<1> QED BY <1>2, <1>5, <1>6, <1>7, <1>8 DEF Next, Reap, Tick, vars

-----------------------------------------------------------------------------
(* The invariant *)

\* The empty tables satisfy the invariant.
LEMMA InvInit == Init => Inv
  BY ConstantTypes, UnclaimedType
     DEF Init, Inv, TypeOK, AttemptsInv, HolderInv, DistinctHolders, TargetInv, DeadLetteredOnce,
         ResultFromLastAttempt, Holds, JobStatus, DomainStatus, Places, Holding, Active

\* Every step keeps the invariant.
LEMMA InvStep == Inv /\ [Next]_vars => Inv'
  BY TypeStep, AttemptsStep, HolderStep, DistinctStep, TargetStep, DeadLetterStep, ResultStep
     DEF Inv

\* Inv is an invariant of the job queue.
THEOREM Invariance == Spec => []Inv
  BY InvInit, InvStep, PTL DEF Spec

-----------------------------------------------------------------------------
(* What follows from it *)

\* TypeOK holds for every number of jobs, rows and consumers; with it the one
\* schema repair per job that mark_schema_repair counts.
THEOREM TypeCorrect == Spec => []TypeOK
<1>1. Inv => TypeOK
  BY DEF Inv
<1> QED BY <1>1, Invariance, PTL

\* The attempt counter of a job never exceeds maximum_attempts, whichever of
\* the planner and the reaper orders the retries.
THEOREM AttemptsAreBounded == Spec => []AttemptsBounded
<1>1. Inv => AttemptsBounded
  BY DEF Inv, AttemptsInv, AttemptsBounded
<1> QED BY <1>1, Invariance, PTL

\* What a domain row holds is the output of the last attempt of a job that
\* succeeded: token and row lock keep every late answer out.
THEOREM ResultsAreFromLastAttempt == Spec => []ResultFromLastAttempt
<1>1. Inv => ResultFromLastAttempt
  BY DEF Inv
<1> QED BY <1>1, Invariance, PTL

\* A job is dead-lettered exactly when it fails, and once.
THEOREM DeadLettersAreUnique == Spec => []DeadLetteredOnce
<1>1. Inv => DeadLetteredOnce
  BY DEF Inv
<1> QED BY <1>1, Invariance, PTL

\* A worker the reaper has given up on can no longer write the domain row.
THEOREM ZombiesStayOut == Spec => []ZombiesAreShutOut
<1>1. ASSUME Inv, NEW w \in Workers, pc[w] \in Holding, status[claimed[w].job] \in Active,
             \/ status[claimed[w].job] = "queued"
             \/ attempts[claimed[w].job] # claimed[w].attempts
      PROVE  ~OwnsTarget(w)
  <2>1. Zombie(w)
    BY <1>1 DEF Inv, HolderInv, Holds, Current
  <2>2. claimed[w].token \in Nat /\ token[TargetOf[claimed[w].job]] \in Nat
    BY <1>1, HeldJob DEF Inv, TypeOK
  <2> QED BY <2>1, <2>2 DEF Zombie, OwnsTarget, HasToken
<1>2. Inv => ZombiesAreShutOut
  BY <1>1 DEF ZombiesAreShutOut
<1> QED BY <1>2, Invariance, PTL

\* Where no configurations are generated, an active job works for a row in
\* processing and is the only one (delete_document breaks this for them).
THEOREM ActiveJobsOwnTargets ==
    ASSUME \A t \in Targets : TypeOf[t] # "interview_configuration_generation"
    PROVE  Spec => []ActiveJobOwnsTarget
<1>1. Inv => ActiveJobOwnsTarget
  BY ConstantTypes DEF Inv, TargetInv, ActiveJobOwnsTarget
<1> QED BY <1>1, Invariance, PTL

-----------------------------------------------------------------------------
(* Refinement *)

\* Every step of the queue is a step of the contract or leaves it unchanged.
LEMMA ContractStep ==
    ASSUME Inv, [Next]_vars
    PROVE  [Contract!Next]_(Contract!cvars)
<1> USE DEF Inv, TypeOK
<1>1. ASSUME NEW j \in Jobs, Submit(j) \/ UserRetry(j)
      PROVE  Contract!Create(j)
  BY <1>1, FreeTarget DEF Contract!Create, InsertJob, NoActiveJob, Active, Contract!Running
<1>2. ASSUME NEW s \in Sources, DeleteRoom(s)
      PROVE  Contract!Delete(TargetsOf(s))
  BY <1>2, ConstantTypes DEF DeleteRoom, TargetsOf, Contract!Delete
<1>3. ASSUME NEW s \in Sources, ReplaceDocument(s) \/ DeleteDocument(s)
      PROVE  \E S \in SUBSET Jobs : Contract!Cancel(S)
  <2> DEFINE S == {j \in Jobs : /\ SourceOf[TargetOf[j]] = s
                                /\ TypeOf[TargetOf[j]] = "interview_document_analysis"
                                /\ status[j] \in Active}
  <2>1. Contract!Cancel(S)
    BY <1>3 DEF ReplaceDocument, DeleteDocument, CancelDocumentJobs, Contract!Cancel, Active,
                Contract!Running
  <2> QED BY <2>1
<1>4. ASSUME NEW S \in SUBSET Expired, RecoverTx(S)
      PROVE  \E again, others \in SUBSET Jobs : Contract!GiveUp(again, others)
  <2> DEFINE again == {j \in S : Requeues(j)}
  <2>1. again \in SUBSET Jobs /\ S \ again \in SUBSET Jobs
    BY DEF Expired
  <2>2. Contract!GiveUp(again, S \ again)
    BY <1>4 DEF RecoverTx, Expired, Contract!GiveUp, Requeues
  <2> QED BY <2>1, <2>2
<1>5. ASSUME NEW w \in Workers, NEW m \in Visible, Claim(w, m)
      PROVE  m.job \in Jobs /\ Contract!Start(m.job)
  <2>1. m.job \in Jobs
    BY MessageFields DEF Visible
  <2> QED BY <1>5, <2>1 DEF Claim, Claimable, Contract!Start, AttemptsInv
<1>6. ASSUME NEW w \in Workers, Complete(w)
      PROVE  claimed[w].job \in Jobs /\ Contract!Finish(claimed[w].job)
  <2>1. claimed[w].job \in Jobs /\ claimed[w].attempts = attempts[claimed[w].job]
    BY <1>6, HeldJob, CurrentHolder DEF Complete, Holding, Holds, Current
  <2> QED BY <1>6, <2>1 DEF Complete, Contract!Finish
<1>7. ASSUME NEW w \in Workers, NEW delay \in 0..left[w], Retry(w, delay)
      PROVE  \E again, others \in SUBSET Jobs : Contract!GiveUp(again, others)
  <2>1. claimed[w].job \in Jobs /\ attempts[claimed[w].job] < MaxAttempts
    BY <1>7, HeldJob, CurrentHolder DEF Retry, Holding, Holds, Current
  <2>2. Contract!GiveUp({claimed[w].job}, {})
    BY <1>7, <2>1 DEF Retry, Contract!GiveUp
  <2> QED BY <2>1, <2>2
<1>8. ASSUME NEW w \in Workers, Fail(w)
      PROVE  \E again, others \in SUBSET Jobs : Contract!GiveUp(again, others)
  <2>1. claimed[w].job \in Jobs
    BY <1>8, HeldJob DEF Fail, Holding
  <2>2. Contract!GiveUp({}, {claimed[w].job})
    BY <1>8, <2>1 DEF Fail, Contract!GiveUp
  <2> QED BY <2>1, <2>2
<1> HIDE DEF Inv, TypeOK
<1>9. CASE Requests
  BY <1>9, <1>1, <1>2, <1>3
     DEF Requests, EndRoom, TargetsOf, jobVars, Contract!Next, Contract!cvars
<1>10. ASSUME NEW w \in Workers, ReadStep(w) \/ RunStep(w) \/ Abort(w)
      PROVE  [Contract!Next]_(Contract!cvars)
  BY <1>10, <1>4, <1>5, <1>6, <1>7, <1>8
     DEF ReadStep, RunStep, Poll, ReadEmpty, RejectClaim, Discard, Execute, Repair, Abort,
         jobVars, rowVars, Contract!Next, Contract!cvars
<1> QED BY <1>4, <1>9, <1>10 DEF Next, Reap, Tick, vars, Contract!Next, Contract!cvars

\* The job queue implements JobContract: a client that polls a job and reads its
\* row sees one job at a time per row, bounded attempts, an output that appears
\* with the success of the attempt that made it, one dead letter per failure,
\* and no way out of an end state.
THEOREM QueueKeepsContract == Spec => KeepsContract
<1>1. Init => Contract!Init
  BY DEF Init, Contract!Init
<1> QED BY <1>1, ContractStep, Invariance, PTL DEF Spec, KeepsContract, Contract!Spec

-----------------------------------------------------------------------------
(* No job is lost *)

\* The parts of a message that was just made.
LEMMA MessageParts ==
    ASSUME NEW j, NEW n, NEW delay
    PROVE  /\ Message(j, n, delay).job = j
           /\ Message(j, n, delay).seq = n
           /\ Message(j, n, delay).vt = delay
  BY DEF Message

\* A job may leave the active states, but enters them only when it is inserted.
LEMMA MessageStep ==
    ASSUME Inv, MessageInv, [Next]_vars
    PROVE  MessageInv'
<1> USE MessageFields, MessageParts DEF Inv, TypeOK, MessageInv
<1>1. ASSUME NEW j \in Jobs, InsertJob(j)
      PROVE  MessageInv'
  BY <1>1 DEF InsertJob, AttemptsInv
<1>2. ASSUME NEW s \in Sources,
             EndRoom(s) \/ DeleteRoom(s) \/ ReplaceDocument(s) \/ DeleteDocument(s)
      PROVE  MessageInv'
  BY <1>2 DEF EndRoom, DeleteRoom, ReplaceDocument, DeleteDocument, CancelDocumentJobs, jobVars
<1>3. ASSUME NEW S \in SUBSET Expired, RecoverTx(S)
      PROVE  MessageInv'
  <2>1. ASSUME NEW m \in queue
        PROVE  /\ status'[m.job] # "none"
               /\ status'[m.job] = "queued" => m.seq <= attempts'[m.job]
               /\ status'[m.job] = "processing" => m.seq < attempts'[m.job]
               /\ status'[m.job] = "queued" /\ m.seq = attempts'[m.job] => m.vt = wait'[m.job]
    BY <1>3, <2>1 DEF RecoverTx, Expired
  <2>2. ASSUME NEW j \in S, Requeues(j)
        PROVE  /\ status'[j] = "queued" /\ wait'[j] = Backoff[attempts[j]]
               /\ attempts'[j] = attempts[j] /\ attempts[j] \in Nat
    BY <1>3, <2>2 DEF RecoverTx, Expired
  <2>3. queue' = queue \cup {Message(j, attempts[j], Backoff[attempts[j]]) :
                               j \in {i \in S : Requeues(i)}}
    BY <1>3 DEF RecoverTx
  <2> HIDE DEF MessageInv
  <2>4. MessageInv' <=> \A m \in queue' :
               /\ status'[m.job] # "none"
               /\ status'[m.job] = "queued" => m.seq <= attempts'[m.job]
               /\ status'[m.job] = "processing" => m.seq < attempts'[m.job]
               /\ status'[m.job] = "queued" /\ m.seq = attempts'[m.job] => m.vt = wait'[m.job]
    BY DEF MessageInv
  <2> QED BY <2>1, <2>2, <2>3, <2>4
<1>4. ASSUME NEW w \in Workers, NEW m \in Visible, Claim(w, m)
      PROVE  MessageInv'
  BY <1>4 DEF Claim, Claimable, Visible, Without
<1>5. ASSUME NEW w \in Workers, NEW delay \in 0..left[w], Retry(w, delay)
      PROVE  MessageInv'
  <2>1. claimed[w].job \in Jobs
    BY <1>5, HeldJob DEF Retry, Holding
  <2> QED BY <1>5, <2>1 DEF Retry, Without
<1>6. ASSUME NEW w \in Workers, Complete(w) \/ Fail(w)
      PROVE  MessageInv'
  BY <1>6 DEF Complete, Fail, Without
<1>7. CASE Tick
  BY <1>7 DEF Tick
<1>8. ASSUME UNCHANGED <<status, attempts, wait>>, queue' \subseteq queue
      PROVE  MessageInv'
  BY <1>8
<1> HIDE DEF Inv, TypeOK, MessageInv
<1>9. CASE Requests
  BY <1>9, <1>1, <1>2 DEF Requests, Submit, UserRetry
<1>10. ASSUME NEW w \in Workers, ReadStep(w) \/ RunStep(w) \/ Abort(w)
      PROVE  MessageInv'
  BY <1>10, <1>3, <1>4, <1>5, <1>6, <1>8
     DEF ReadStep, RunStep, Poll, ReadEmpty, RejectClaim, Discard, Execute, Repair, Abort, jobVars,
         Without
<1> QED BY <1>3, <1>7, <1>8, <1>9, <1>10 DEF Next, Reap, vars

\* A consumer rejects what it cannot claim: for ungated types an older message,
\* or one of an ended job, since the newest is visible only in time.
LEMMA RejectedIsOld ==
    ASSUME Ungated, Inv, MessageInv, NEW m \in Visible, ~Claimable(m.job)
    PROVE  /\ status[m.job] # "none"
           /\ status[m.job] \in Active => m.seq < attempts[m.job]
<1>1. m \in queue /\ m.job \in Jobs /\ m.seq \in Nat /\ m.vt = 0 /\ TargetOf[m.job] \in Targets
  BY MessageFields, ConstantTypes DEF Inv, TypeOK, Visible
<1>2. status[m.job] = "queued" => wait[m.job] # 0
  BY <1>1 DEF Inv, TargetInv, Active, Claimable, Ungated, ClaimNeedsOpen, DocumentTypes
<1>3. attempts[m.job] \in Nat
  BY <1>1 DEF Inv, TypeOK
<1>4. status[m.job] = "queued" => m.seq < attempts[m.job]
  BY <1>1, <1>2, <1>3 DEF MessageInv
<1> QED BY <1>1, <1>4 DEF MessageInv, Active

\* As in the contract: attempts grow, and a job becomes active only once.
LEMMA JobsMoveForward ==
    ASSUME Inv, [Next]_vars, NEW j \in Jobs
    PROVE  /\ attempts[j] \in Nat /\ attempts'[j] \in Nat /\ attempts[j] <= attempts'[j]
           /\ status[j] # "none" => status'[j] # "none"
           /\ status[j] # "none" /\ status'[j] \in Active => status[j] \in Active
<1>1. [Contract!Next]_(Contract!cvars)
  BY ContractStep
<1>2. attempts \in [Jobs -> Nat] /\ status \in [Jobs -> JobStatus]
  BY DEF Inv, TypeOK
<1> USE DEF Active
<1>3. CASE \E i \in Jobs : Contract!Create(i) \/ Contract!Start(i) \/ Contract!Finish(i)
  BY <1>2, <1>3 DEF Contract!Create, Contract!Start, Contract!Finish
<1>4. CASE \E again, others \in SUBSET Jobs : Contract!GiveUp(again, others)
  BY <1>2, <1>4 DEF Contract!GiveUp
<1>5. CASE \E S \in SUBSET Jobs : Contract!Cancel(S)
  BY <1>2, <1>5 DEF Contract!Cancel
<1>6. CASE \E T \in SUBSET Targets : Contract!Delete(T)
  BY <1>2, <1>6 DEF Contract!Delete
<1>7. CASE UNCHANGED Contract!cvars
  BY <1>2, <1>7 DEF Contract!cvars
<1> QED BY <1>1, <1>3, <1>4, <1>5, <1>6, <1>7 DEF Contract!Next

\* Every step keeps DiscardInv: a message that is old when it is rejected stays
\* old until it is discarded.
LEMMA DiscardStep ==
    ASSUME Ungated, Inv, MessageInv, DiscardInv, [Next]_vars
    PROVE  DiscardInv'
<1>1. ASSUME \A w \in Workers : pc'[w] = "discarding" =>
                pc[w] = "discarding" /\ claimed'[w] = claimed[w]
      PROVE  DiscardInv'
  <2> SUFFICES ASSUME NEW w \in Workers, pc[w] = "discarding", claimed'[w] = claimed[w]
               PROVE  /\ status'[claimed[w].job] # "none"
                      /\ status'[claimed[w].job] \in Active =>
                           claimed[w].seq < attempts'[claimed[w].job]
    BY <1>1 DEF DiscardInv
  <2>1. claimed[w].job \in Jobs /\ claimed[w].seq \in Nat
    BY HeldJob DEF Inv
  <2> QED BY <2>1, JobsMoveForward DEF DiscardInv
<1>2. ASSUME NEW w \in Workers, NEW m \in Visible, RejectClaim(w, m)
      PROVE  DiscardInv'
  <2>1. /\ UNCHANGED <<status, attempts>>
        /\ \A v \in Workers : v # w => pc'[v] = pc[v] /\ claimed'[v] = claimed[v]
    BY <1>2 DEF RejectClaim, jobVars, Inv, TypeOK
  <2>2. claimed'[w].job = m.job /\ claimed'[w].seq = m.seq
    BY <1>2 DEF RejectClaim, Inv, TypeOK, ClaimedJob
  <2>3. status[m.job] # "none" /\ (status[m.job] \in Active => m.seq < attempts[m.job])
    BY <1>2, RejectedIsOld DEF RejectClaim
  <2> QED BY <2>1, <2>2, <2>3 DEF DiscardInv
<1>3. CASE Requests \/ Tick \/ UNCHANGED vars \/ \E S \in SUBSET Expired : Reap(S)
  <2>1. UNCHANGED <<pc, claimed>>
    BY <1>3 DEF Requests, Submit, UserRetry, InsertJob, EndRoom, DeleteRoom, ReplaceDocument,
                DeleteDocument, Tick, Reap, vars, workerVars
  <2> QED BY <1>1, <2>1
<1>4. ASSUME NEW w \in Workers, ReadStep(w) \/ RunStep(w) \/ Abort(w),
             \A m \in Visible : ~RejectClaim(w, m)
      PROVE  DiscardInv'
  <2>1. CASE Release(w)
    BY <2>1, <1>1 DEF Release, Inv, TypeOK
  <2>2. CASE (\E S \in SUBSET Expired : Poll(w, S)) \/ Execute(w) \/ Repair(w)
             \/ \E m \in Visible : Claim(w, m)
    BY <2>2, <1>1 DEF Poll, Execute, Repair, Claim, Inv, TypeOK
  <2> QED BY <1>4, <2>1, <2>2
          DEF ReadStep, RunStep, ReadEmpty, Discard, Complete, Retry, Fail, Abort
<1> QED BY <1>2, <1>3, <1>4 DEF Next, ReadStep

\* Every step keeps WakeUpInv: retry and reaper send the message of the next
\* attempt, and no discard or completion takes it.
LEMMA WakeUpStep ==
    ASSUME Inv, QueueInv, [Next]_vars
    PROVE  WakeUpInv'
<1> USE MessageFields, MessageParts DEF Inv, TypeOK, QueueInv, WakeUpInv
<1>1. ASSUME NEW j \in Jobs, InsertJob(j)
      PROVE  WakeUpInv'
  BY <1>1 DEF InsertJob, AttemptsInv
<1>2. ASSUME NEW s \in Sources,
             EndRoom(s) \/ DeleteRoom(s) \/ ReplaceDocument(s) \/ DeleteDocument(s)
      PROVE  WakeUpInv'
  BY <1>2 DEF EndRoom, DeleteRoom, ReplaceDocument, DeleteDocument, CancelDocumentJobs, jobVars
<1>3. ASSUME NEW S \in SUBSET Expired, RecoverTx(S)
      PROVE  WakeUpInv'
  <2>1. ASSUME NEW j \in S, Requeues(j)
        PROVE  Message(j, attempts[j], Backoff[attempts[j]]) \in queue'
    BY <1>3, <2>1 DEF RecoverTx
  <2>2. queue \subseteq queue' /\ attempts' = attempts
    BY <1>3 DEF RecoverTx
  <2>3. \A j \in Jobs : status'[j] = "queued" =>
          status[j] = "queued" \/ (j \in S /\ Requeues(j))
    BY <1>3 DEF RecoverTx
  <2> QED BY <2>1, <2>2, <2>3
<1>4. ASSUME NEW w \in Workers, NEW m \in Visible, Claim(w, m)
      PROVE  WakeUpInv'
  BY <1>4 DEF Claim, Claimable, Visible, Without
<1>5. ASSUME NEW w \in Workers, NEW delay \in 0..left[w], Retry(w, delay)
      PROVE  WakeUpInv'
  <2>1. claimed[w].job \in Jobs
    BY <1>5, HeldJob DEF Retry, Holding
  <2> QED BY <1>5, <2>1 DEF Retry, Without
<1>6. ASSUME NEW w \in Workers, Complete(w) \/ Fail(w)
      PROVE  WakeUpInv'
  BY <1>6 DEF Complete, Fail, Without
<1>7. ASSUME NEW w \in Workers, Discard(w)
      PROVE  WakeUpInv'
  <2>1. UNCHANGED <<status, attempts>> /\ pc[w] = "discarding"
    BY <1>7 DEF Discard, jobVars
  <2>2. claimed[w].job \in Jobs /\ claimed[w].seq \in Nat
    BY <2>1, HeldJob
  <2>3. \A j \in Jobs : status[j] = "queued" =>
          ~(j = claimed[w].job /\ attempts[j] = claimed[w].seq)
    BY <2>1, <2>2 DEF DiscardInv, Active
  <2>4. \A m \in queue : m \in queue' \/ (m.job = claimed[w].job /\ m.seq = claimed[w].seq)
    BY <1>7 DEF Discard, Without
  <2> QED BY <2>1, <2>3, <2>4
<1>8. CASE Tick
  <2>1. \A m \in queue : Message(m.job, m.seq, Dec(m.vt)) \in queue'
    BY <1>8 DEF Tick
  <2> QED BY <1>8, <2>1 DEF Tick
<1>9. ASSUME UNCHANGED <<status, attempts, queue>>
      PROVE  WakeUpInv'
  BY <1>9
<1> HIDE DEF Inv, TypeOK, QueueInv, WakeUpInv
<1>10. CASE Requests
  BY <1>10, <1>1, <1>2 DEF Requests, Submit, UserRetry
<1>11. ASSUME NEW w \in Workers, ReadStep(w) \/ RunStep(w) \/ Abort(w)
      PROVE  WakeUpInv'
  BY <1>11, <1>3, <1>4, <1>5, <1>6, <1>7, <1>9
     DEF ReadStep, RunStep, Poll, ReadEmpty, RejectClaim, Execute, Repair, Abort, jobVars
<1> QED BY <1>3, <1>8, <1>9, <1>10, <1>11 DEF Next, Reap, vars

\* No retry, redelivery, rejection or discard loses a job of a type whose adapter
\* does not look at the room or the documents: while it is queued, a message for
\* it is in the queue.
THEOREM NoQueuedJobIsLost ==
    ASSUME Ungated
    PROVE  Spec => []QueuedHasMessage
<1>1. Init => QueueInv
  BY DEF Init, QueueInv, MessageInv, DiscardInv, WakeUpInv
<1>2. Inv /\ QueueInv /\ [Next]_vars => QueueInv'
  BY MessageStep, DiscardStep, WakeUpStep DEF QueueInv
<1>3. QueueInv => QueuedHasMessage
  BY DEF QueueInv, WakeUpInv, QueuedHasMessage
<1> QED BY <1>1, <1>2, <1>3, Invariance, PTL DEF Spec

-----------------------------------------------------------------------------
(* Stale sources *)

\* Conversation and document analysis store nothing for a room that has ended or
\* a document that was replaced or deleted while the provider was at work.
THEOREM StoresNeedOpenSource ==
    ASSUME \A t \in Targets : StoreNeedsOpen(t)
    PROVE  Spec => NothingStoredForClosedSource
<1>1. ASSUME TypeOK, [Next]_vars, NEW t \in Targets, result'[t] \notin {result[t], NoResult}
      PROVE  IsOpen(t)
  <2>1. \E w \in Workers : Complete(w)
    <3>1. ~Requests
      BY <1>1 DEF Requests, Submit, UserRetry, InsertJob, EndRoom, DeleteRoom, ReplaceDocument,
                  DeleteDocument
    <3>2. \A S \in SUBSET Expired : ~RecoverTx(S)
      BY <1>1 DEF RecoverTx
    <3>3. \A w \in Workers : ~ReadStep(w) /\ ~Abort(w)
      BY <1>1, <3>2 DEF ReadStep, Poll, ReadEmpty, Claim, RejectClaim, Discard, Abort
    <3>4. \A w \in Workers : RunStep(w) => Complete(w)
      BY <1>1 DEF RunStep, Execute, Repair, Retry, Fail
    <3> QED BY <1>1, <3>1, <3>2, <3>3, <3>4 DEF Next, Reap, Tick, vars
  <2>2. PICK w \in Workers : Complete(w)
    BY <2>1
  <2>3. TargetOf[claimed[w].job] = t
    BY <1>1, <2>2 DEF Complete, TypeOK
  <2> QED BY <2>2, <2>3 DEF Complete
<1>2. TypeOK /\ [Next]_vars =>
        [\A t \in Targets : result'[t] \notin {result[t], NoResult} => IsOpen(t)]_vars
  BY <1>1
<1> QED BY <1>2, TypeCorrect, PTL DEF Spec, NothingStoredForClosedSource
=============================================================================
