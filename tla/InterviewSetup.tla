---------------------------- MODULE InterviewSetup ----------------------------
(***************************************************************************)
(* One interview setup: documents of one type, their analyses with the     *)
(* stored chunks, and the configurations (questions) made from them.       *)
(*   app/services/interviews.py       upload, analyze, delete, generate,   *)
(*       regenerate, create_practice_room                                  *)
(*   app/repositories/interviews.py   their SQL                            *)
(*   worker/domain_adapters.py        DocumentAnalysisAdapter,             *)
(*       ConfigurationAdapter                                              *)
(*                                                                         *)
(* A document is one row and one storage path; its version is its row.  A  *)
(* transaction is one step unless another can come between its statements: *)
(* analyze and generate read before they insert, without a lock; the       *)
(* worker's complete holds the analysis while it writes chunks and looks   *)
(* at the job last; delete_document holds document, jobs, analyses and     *)
(* configurations while it calls storage.  The document's own              *)
(* analysis_status, a copy for display, is left out.                       *)
(***************************************************************************)
EXTENDS Naturals, FiniteSets

CONSTANTS
    Document, Analysis, Configuration,   \* rows that may be created
    Worker,                              \* consumers of the interview queues
    Nothing,
    MaxGenerations                       \* bound: executions of one configuration

ASSUME InterviewSetupAssumption ==
    /\ Nothing \notin Document \cup Analysis \cup Configuration
    /\ Document \cap Analysis = {} /\ Analysis \cap Configuration = {}
    /\ MaxGenerations \in Nat \ {0}

VARIABLES
    docs,      \* interview_documents: is_current, deleted_at
    files,     \* objects in the document bucket, by their document
    uploads,   \* upload_document between storage and row
    deletes,   \* delete_document's open transaction
    ans,       \* interview_document_analyses, each with its job
    asks,      \* analyze_document between its check and its insert
    chunks,    \* document_chunks: the analysis that wrote them
    confs,     \* interview_configurations, each with its last job
    plans,     \* generate_configuration between its check and its insert
    work       \* what a worker is doing

vars == <<docs, files, uploads, deletes, ans, asks, chunks, confs, plans, work>>

NoUpload == [step |-> "none", old |-> Nothing]
NoDelete == [step |-> "none", confs |-> {}]
NoAnalysis == [doc |-> Nothing, status |-> "none", job |-> "none"]
NoConf == [uses |-> {}, status |-> "none", job |-> "none", token |-> 0, questions |-> 0]
Idle == [step |-> "idle", target |-> Nothing, token |-> 0, seen |-> Nothing]

JobStatus == {"none", "queued", "processing", "succeeded", "failed", "cancelled"}

TypeOK ==
    /\ docs \in [Document -> {"none", "current", "replaced", "deleted"}]
    /\ files \subseteq Document
    /\ uploads \in [Document -> [step : {"none", "stored", "ended"},
                                 old : Document \cup {Nothing}]]
    /\ deletes \in [Document -> [step : {"none", "locking", "rows", "gone"},
                                 confs : SUBSET Configuration]]
    /\ ans \in [Analysis ->
         [doc : Document \cup {Nothing}, job : JobStatus,
          status : {"none", "processing", "succeeded", "failed", "invalidated"}]]
    /\ asks \in [Analysis -> Document \cup {Nothing}]
    /\ chunks \in [Document -> Analysis \cup {Nothing}]
    /\ confs \in [Configuration ->
         [uses : SUBSET Analysis, job : JobStatus, token : 0 .. MaxGenerations,
          questions : 0 .. MaxGenerations,
          status : {"none", "processing", "ready", "in_progress", "completed",
                    "failed", "invalidated"}]]
    /\ plans \in [Configuration -> SUBSET Analysis]
    /\ work \in [Worker ->
         [step : {"idle", "analysing", "storing", "configuring"},
          target : Analysis \cup Configuration \cup {Nothing},
          token : 0 .. MaxGenerations, seen : Analysis \cup {Nothing}]]

Init ==
    /\ docs = [d \in Document |-> "none"]
    /\ files = {}
    /\ uploads = [d \in Document |-> NoUpload]
    /\ deletes = [d \in Document |-> NoDelete]
    /\ ans = [a \in Analysis |-> NoAnalysis]
    /\ asks = [a \in Analysis |-> Nothing]
    /\ chunks = [d \in Document |-> Nothing]
    /\ confs = [c \in Configuration |-> NoConf]
    /\ plans = [c \in Configuration |-> {}]
    /\ work = [w \in Worker |-> Idle]

AnalysesOf(d) == {a \in Analysis : ans[a].doc = d}
Active(job) == job \in {"queued", "processing"}

\* Row locks of an open delete_document, and of a worker that stores an analysis.
DocLocked(d) == deletes[d].step # "none"
AnalysisLocked(a) == ans[a].doc # Nothing /\ deletes[ans[a].doc].step \in {"rows", "gone"}
JobLocked(a) == ans[a].doc # Nothing /\ DocLocked(ans[a].doc)
ConfLocked(c) == \E d \in Document : c \in deletes[d].confs
Storing(a) == \E w \in Worker : work[w].step = "storing" /\ work[w].target = a

-------------------------------------------------------------------------------
\* Documents

\* upload_document: the object is stored under a new path; old is the document that
\* is to be replaced, if any.
PutFile(d, old) ==
    /\ docs[d] = "none" /\ uploads[d].step = "none" /\ old # d
    /\ old # Nothing => docs[old] # "none"
    /\ files' = files \cup {d}
    /\ uploads' = [uploads EXCEPT ![d] = [step |-> "stored", old |-> old]]
    /\ UNCHANGED <<docs, deletes, ans, asks, chunks, confs, plans, work>>

\* _cancel_document_jobs: the jobs of its analyses, not the analyses.
Cancelled(d) ==
    [a \in Analysis |->
        IF ans[a].doc = d /\ Active(ans[a].job) THEN [ans[a] EXCEPT !.job = "cancelled"]
        ELSE ans[a]]

\* create_document commits; the new row is the only current one of its type.
CreateRow(d) ==
    LET old == uploads[d].old IN
    /\ uploads[d].step = "stored"
    /\ old # Nothing => docs[old] = "current" /\ ~DocLocked(old)
    /\ \A e \in Document \ {old} : docs[e] # "current"
    /\ docs' = [e \in Document |-> IF e = d THEN "current"
                                   ELSE IF e = old THEN "replaced" ELSE docs[e]]
    /\ ans' = IF old = Nothing THEN ans ELSE Cancelled(old)
    /\ chunks' = [e \in Document |-> IF e = old THEN Nothing ELSE chunks[e]]
    /\ uploads' = [uploads EXCEPT ![d].step = "ended"]
    /\ UNCHANGED <<files, deletes, asks, confs, plans, work>>

\* The document to be replaced is not current any more: the new object is removed, if
\* storage lets it be.
ReplacedMeanwhile(d) ==
    /\ uploads[d].step = "stored" /\ uploads[d].old # Nothing
    /\ docs[uploads[d].old] # "current" /\ ~DocLocked(uploads[d].old)
    /\ files' \in {files, files \ {d}}
    /\ uploads' = [uploads EXCEPT ![d].step = "ended"]
    /\ UNCHANGED <<docs, deletes, ans, asks, chunks, confs, plans, work>>

\* interview_documents_one_current_type_idx refuses the row, or the request dies.
UploadFails(d) ==
    /\ uploads[d].step = "stored"
    /\ uploads' = [uploads EXCEPT ![d].step = "ended"]
    /\ UNCHANGED <<docs, files, deletes, ans, asks, chunks, confs, plans, work>>

\* delete_document: first the document's row and the jobs of its analyses ...
DeleteLocks(d) ==
    /\ docs[d] = "current" /\ ~DocLocked(d)
    /\ deletes' = [deletes EXCEPT ![d].step = "locking"]
    /\ UNCHANGED <<docs, files, uploads, ans, asks, chunks, confs, plans, work>>

UsesOf(c, d) == confs[c].uses \cap AnalysesOf(d)

\* ... then its chunks and analyses, and the configurations that have not started.
DeleteRows(d) ==
    /\ deletes[d].step = "locking" /\ \A a \in AnalysesOf(d) : ~Storing(a)
    /\ deletes' = [deletes EXCEPT ![d] =
         [step |-> "rows",
          confs |-> {c \in Configuration :
                       confs[c].status \in {"processing", "ready"} /\ UsesOf(c, d) # {}}]]
    /\ UNCHANGED <<docs, files, uploads, ans, asks, chunks, confs, plans, work>>

\* The original is removed before the transaction commits.
DeleteObject(d) ==
    /\ deletes[d].step = "rows"
    /\ files' = files \ {d}
    /\ deletes' = [deletes EXCEPT ![d].step = "gone"]
    /\ UNCHANGED <<docs, uploads, ans, asks, chunks, confs, plans, work>>

DeleteCommit(d) ==
    /\ deletes[d].step = "gone"
    /\ docs' = [docs EXCEPT ![d] = "deleted"]
    /\ ans' = [a \in Analysis |->
         IF a \in AnalysesOf(d) /\ ans[a].status \in {"processing", "succeeded"}
         THEN [Cancelled(d)[a] EXCEPT !.status = "invalidated"] ELSE Cancelled(d)[a]]
    /\ chunks' = [chunks EXCEPT ![d] = Nothing]
    /\ confs' = [c \in Configuration |->
         IF c \in deletes[d].confs THEN [confs[c] EXCEPT !.status = "invalidated"]
         ELSE confs[c]]
    /\ deletes' = [deletes EXCEPT ![d] = NoDelete]
    /\ UNCHANGED <<files, uploads, asks, plans, work>>

\* Storage refuses, the request dies, or the database picks this transaction to break
\* the circular wait with a worker that stores: everything is rolled back.
DeleteRollsBack(d) ==
    /\ DocLocked(d)
    /\ deletes' = [deletes EXCEPT ![d] = NoDelete]
    /\ UNCHANGED <<docs, files, uploads, ans, asks, chunks, confs, plans, work>>

-------------------------------------------------------------------------------
\* Analyses

\* analyze_document finds a current document without an active analysis ...
AskAnalysis(a, d) ==
    /\ ans[a] = NoAnalysis /\ asks[a] = Nothing
    /\ docs[d] = "current"
    /\ \A b \in AnalysesOf(d) : ans[b].status # "processing"
    /\ asks' = [asks EXCEPT ![a] = d]
    /\ UNCHANGED <<docs, files, uploads, deletes, ans, chunks, confs, plans, work>>

\* ... and inserts analysis, job and message.
CreateAnalysis(a) ==
    /\ asks[a] # Nothing /\ ~DocLocked(asks[a])
    /\ ans' = [ans EXCEPT ![a] = [doc |-> asks[a], status |-> "processing",
                                  job |-> "queued"]]
    /\ asks' = [asks EXCEPT ![a] = Nothing]
    /\ UNCHANGED <<docs, files, uploads, deletes, chunks, confs, plans, work>>

\* DocumentAnalysisAdapter.claim
ClaimAnalysis(w, a) ==
    /\ work[w].step = "idle" /\ ans[a].job = "queued" /\ ~JobLocked(a)
    /\ ans[a].status = "processing" /\ docs[ans[a].doc] = "current"
    /\ ans' = [ans EXCEPT ![a].job = "processing"]
    /\ work' = [work EXCEPT ![w] = [Idle EXCEPT !.step = "analysing", !.target = a]]
    /\ UNCHANGED <<docs, files, uploads, deletes, asks, chunks, confs, plans>>

\* complete: the analysis is still processing and its document current; the chunks of
\* the document are written anew, as far as this transaction sees them.
StoreAnalysis(w) ==
    LET a == work[w].target IN
    /\ work[w].step = "analysing"
    /\ ans[a].status = "processing" /\ docs[ans[a].doc] = "current"
    /\ ~AnalysisLocked(a) /\ ~Storing(a)
    /\ work' = [work EXCEPT ![w].step = "storing", ![w].seen = chunks[ans[a].doc]]
    /\ UNCHANGED <<docs, files, uploads, deletes, ans, asks, chunks, confs, plans>>

\* A commit that does not ask whether the job is still processing.
FaultyCommits(w) == chunks[ans[work[w].target].doc] \in {work[w].seen, Nothing}

\* The job is still processing, and no other analysis has written chunks meanwhile
\* (their index is unique in the document).
Commits(w) ==
    /\ ans[work[w].target].job = "processing"
    /\ chunks[ans[work[w].target].doc] \in {work[w].seen, Nothing}

CommitAnalysis(w) ==
    LET a == work[w].target IN
    /\ work[w].step = "storing" /\ ~JobLocked(a) /\ Commits(w)
    /\ ans' = [ans EXCEPT ![a].status = "succeeded", ![a].job = "succeeded"]
    /\ chunks' = [chunks EXCEPT ![ans[a].doc] = a]
    /\ work' = [work EXCEPT ![w] = Idle]
    /\ UNCHANGED <<docs, files, uploads, deletes, asks, confs, plans>>

\* The result is discarded, or the transaction is refused, aborted or lost.
DropWork(w) ==
    /\ work[w].step # "idle"
    /\ work' = [work EXCEPT ![w] = Idle]
    /\ UNCHANGED <<docs, files, uploads, deletes, ans, asks, chunks, confs, plans>>

\* The provider fails: the job is queued again, or it and the analysis are failed.
AttemptFails(w) ==
    LET a == work[w].target IN
    /\ work[w].step = "analysing" /\ ans[a].job = "processing" /\ ~JobLocked(a)
    /\ ans[a].status = "processing"
    /\ \/ ans' = [ans EXCEPT ![a].job = "queued"]
       \/ ans' = [ans EXCEPT ![a].job = "failed", ![a].status = "failed"]
    /\ work' = [work EXCEPT ![w] = Idle]
    /\ UNCHANGED <<docs, files, uploads, deletes, asks, chunks, confs, plans>>

\* The reaper fails an analysis that is past its deadline.
AnalysisExpires(a) ==
    /\ ans[a].job = "processing" /\ ans[a].status = "processing"
    /\ ~JobLocked(a) /\ ~Storing(a)
    /\ ans' = [ans EXCEPT ![a].job = "failed", ![a].status = "failed"]
    /\ UNCHANGED <<docs, files, uploads, deletes, asks, chunks, confs, plans, work>>

-------------------------------------------------------------------------------
\* Configurations

Eligible(S) == \A a \in S : ans[a].status = "succeeded" /\ docs[ans[a].doc] = "current"
OthersInactive(c) ==
    \A e \in Configuration \ {c} : confs[e].status \notin {"processing", "ready", "in_progress"}

\* create_configuration counts the eligible analyses ...
PlanConfiguration(c, S) ==
    /\ confs[c] = NoConf /\ plans[c] = {} /\ S # {} /\ Eligible(S)
    /\ plans' = [plans EXCEPT ![c] = S]
    /\ UNCHANGED <<docs, files, uploads, deletes, ans, asks, chunks, confs, work>>

\* ... and inserts; interview_configurations_one_active_idx allows one active row.
CreateConfiguration(c) ==
    /\ plans[c] # {} /\ OthersInactive(c)
    /\ confs' = [confs EXCEPT ![c] = [uses |-> plans[c], status |-> "processing",
                                      job |-> "queued", token |-> 1, questions |-> 0]]
    /\ plans' = [plans EXCEPT ![c] = {}]
    /\ UNCHANGED <<docs, files, uploads, deletes, ans, asks, chunks, work>>

\* A setup may be regenerated while it is being practised.
FaultyRegenerable(c) ==
    confs[c].status \in {"failed", "ready", "in_progress"} /\ ~Active(confs[c].job)

Regenerable(c) == confs[c].status \in {"failed", "ready"} /\ ~Active(confs[c].job)

RegenerateConfiguration(c) ==
    /\ Regenerable(c) /\ ~ConfLocked(c) /\ OthersInactive(c)
    /\ confs[c].token < MaxGenerations
    /\ confs' = [confs EXCEPT ![c].status = "processing", ![c].job = "queued",
                              ![c].token = @ + 1]
    /\ UNCHANGED <<docs, files, uploads, deletes, ans, asks, chunks, plans, work>>

\* ConfigurationAdapter.claim: every analysis is still succeeded and current.
ClaimConfiguration(w, c) ==
    /\ work[w].step = "idle" /\ confs[c].job = "queued" /\ ~ConfLocked(c)
    /\ confs[c].status = "processing" /\ Eligible(confs[c].uses)
    /\ confs' = [confs EXCEPT ![c].job = "processing"]
    /\ work' = [work EXCEPT ![w] = [Idle EXCEPT !.step = "configuring", !.target = c,
                                                !.token = confs[c].token]]
    /\ UNCHANGED <<docs, files, uploads, deletes, ans, asks, chunks, plans>>

\* A row that any worker with a job of it may write.
FaultyOwnsConfiguration(w) == confs[work[w].target].status = "processing"

OwnsConfiguration(w) ==
    /\ confs[work[w].target].status = "processing"
    /\ confs[work[w].target].token = work[w].token

\* complete replaces the questions of a row that still waits for this token.
StoreConfiguration(w) ==
    LET c == work[w].target IN
    /\ work[w].step = "configuring" /\ ~ConfLocked(c)
    /\ OwnsConfiguration(w) /\ confs[c].job = "processing"
    /\ confs' = [confs EXCEPT ![c].status = "ready", ![c].job = "succeeded",
                              ![c].questions = work[w].token]
    /\ work' = [work EXCEPT ![w] = Idle]
    /\ UNCHANGED <<docs, files, uploads, deletes, ans, asks, chunks, plans>>

\* A job whose configuration was invalidated cannot end: the domain-state trigger
\* refuses the pair.
GenerationFails(w) ==
    LET c == work[w].target IN
    /\ work[w].step = "configuring" /\ confs[c].job = "processing"
    /\ confs[c].status = "processing" /\ confs[c].token = work[w].token /\ ~ConfLocked(c)
    /\ \/ confs' = [confs EXCEPT ![c].job = "queued"]
       \/ confs' = [confs EXCEPT ![c].job = "failed", ![c].status = "failed"]
    /\ work' = [work EXCEPT ![w] = Idle]
    /\ UNCHANGED <<docs, files, uploads, deletes, ans, asks, chunks, plans>>

GenerationExpires(c) ==
    /\ confs[c].job = "processing" /\ confs[c].status = "processing" /\ ~ConfLocked(c)
    /\ confs' = [confs EXCEPT ![c].job = "failed", ![c].status = "failed"]
    /\ UNCHANGED <<docs, files, uploads, deletes, ans, asks, chunks, plans, work>>

\* create_practice_room
CreatePracticeRoom(c) ==
    /\ confs[c].status = "ready" /\ ~ConfLocked(c)
    /\ confs' = [confs EXCEPT ![c].status = "in_progress"]
    /\ UNCHANGED <<docs, files, uploads, deletes, ans, asks, chunks, plans, work>>

\* The interview's room is completed.
CompleteRoom(c) ==
    /\ confs[c].status = "in_progress"
    /\ confs' = [confs EXCEPT ![c].status = "completed"]
    /\ UNCHANGED <<docs, files, uploads, deletes, ans, asks, chunks, plans, work>>

UserStep ==
    \/ \E d \in Document :
          \/ \E old \in Document \cup {Nothing} : PutFile(d, old)
          \/ CreateRow(d) \/ ReplacedMeanwhile(d) \/ UploadFails(d)
          \/ DeleteLocks(d) \/ DeleteRows(d) \/ DeleteObject(d) \/ DeleteCommit(d)
          \/ DeleteRollsBack(d)
    \/ \E a \in Analysis : CreateAnalysis(a) \/ \E d \in Document : AskAnalysis(a, d)
    \/ \E c \in Configuration :
          \/ \E S \in SUBSET Analysis : PlanConfiguration(c, S)
          \/ CreateConfiguration(c) \/ RegenerateConfiguration(c)
          \/ CreatePracticeRoom(c) \/ CompleteRoom(c)

WorkerStep ==
    \/ \E w \in Worker :
          \/ \E a \in Analysis : ClaimAnalysis(w, a)
          \/ \E c \in Configuration : ClaimConfiguration(w, c)
          \/ StoreAnalysis(w) \/ CommitAnalysis(w) \/ AttemptFails(w)
          \/ StoreConfiguration(w) \/ GenerationFails(w) \/ DropWork(w)
    \/ \E a \in Analysis : AnalysisExpires(a)
    \/ \E c \in Configuration : GenerationExpires(c)

Next == UserStep \/ WorkerStep

Spec == Init /\ [][Next]_vars

\* Consumers poll, the reaper ends what is past its deadline, and a request that has
\* begun goes on.
FairSpec ==
    /\ Spec
    /\ \A d \in Document : WF_vars(DeleteCommit(d) \/ DeleteRollsBack(d))
    /\ \A a \in Analysis :
          /\ SF_vars(\E w \in Worker : ClaimAnalysis(w, a))
          /\ WF_vars(AnalysisExpires(a))
    /\ \A w \in Worker : WF_vars(CommitAnalysis(w) \/ DropWork(w))

-------------------------------------------------------------------------------
\* Properties

\* Chunks belong to a current document and to an analysis of it that succeeded, although
\* a worker may be writing them while the document is replaced or deleted.
ChunksAreCurrent ==
    \A d \in Document : chunks[d] # Nothing =>
        /\ docs[d] = "current"
        /\ ans[chunks[d]].doc = d /\ ans[chunks[d]].status = "succeeded"

\* The questions of an interview that has begun do not change under it, although
\* requests to regenerate and workers with earlier attempts may be on their way.
QuestionsAreFrozen ==
    [][\A c \in Configuration :
          confs[c].status \in {"in_progress", "completed"} =>
              /\ confs'[c].questions = confs[c].questions
              /\ confs'[c].status \in {"in_progress", "completed"}]_vars

\* The questions of a configuration that is ready are those of its last execution, not
\* those of a worker whose attempt was given up on.
ReadyIsLastGeneration ==
    \A c \in Configuration :
        confs[c].status \in {"ready", "in_progress", "completed"} =>
            confs[c].questions = confs[c].token

\* analyze_document's own claim: a document has one active analysis.
OneActiveAnalysis ==
    \A a, b \in Analysis :
        /\ ans[a].status = "processing" /\ ans[b].status = "processing"
        /\ ans[a].doc = ans[b].doc
        => a = b

\* The interface: replacing a document removes the original from storage.
ReplacedFileIsRemoved == \A d \in Document : docs[d] = "replaced" => d \notin files

\* The interface: a configuration that has not started is invalidated with the document
\* it was made from.
UnstartedIsInvalidated ==
    \A d \in Document, c \in Configuration :
        docs[d] = "deleted" /\ UsesOf(c, d) # {} =>
            confs[c].status \notin {"processing", "ready"}

\* The product document: an analysis that does not finish in time is failed.
AnalysisEnds ==
    \A a \in Analysis : ans[a].status = "processing" ~> ans[a].status # "processing"
=============================================================================
