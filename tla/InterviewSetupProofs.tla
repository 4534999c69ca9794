------------------------- MODULE InterviewSetupProofs -------------------------
(***************************************************************************)
(* Proofs about InterviewSetup, for any sets of documents, analyses,       *)
(* configurations and workers and any number of generations.               *)
(*                                                                         *)
(* Chunks stay current because a job that is processing belongs to a       *)
(* current document: whoever takes a document out of service cancels the   *)
(* jobs of its analyses in the same transaction, and the worker looks at   *)
(* its job last.  An interview that has begun keeps its questions because  *)
(* the rows a deletion has locked are never rows of interviews that have   *)
(* begun, and because the token of a row moves only while the row waits.   *)
(***************************************************************************)
EXTENDS InterviewSetup, TLAPS

Analyses == [doc : Document \cup {Nothing}, job : JobStatus,
             status : {"none", "processing", "succeeded", "failed", "invalidated"}]

Configurations ==
    [uses : SUBSET Analysis, job : JobStatus, token : 0 .. MaxGenerations,
     questions : 0 .. MaxGenerations,
     status : {"none", "processing", "ready", "in_progress", "completed", "failed", "invalidated"}]

Works == [step : {"idle", "analysing", "storing", "configuring"},
          target : Analysis \cup Configuration \cup {Nothing},
          token : 0 .. MaxGenerations, seen : Analysis \cup {Nothing}]

Begun(status) == status \in {"in_progress", "completed"}
Unstarted(status) == status # "none" /\ ~Begun(status)

\* An analysis has a document; while its job is processing that document is current.
\* A request that is about to insert an analysis has not inserted it yet.
AnalysesInv ==
    \A a \in Analysis :
        /\ ans[a].status # "none" => ans[a].doc \in Document
        /\ ans[a].job = "processing" =>
              /\ ans[a].status = "processing"
              /\ ans[a].doc \in Document /\ docs[ans[a].doc] = "current"
        /\ asks[a] # Nothing => ans[a].status = "none"

\* A worker's target is of the kind its step is about.
WorkInv ==
    \A w \in Worker :
        /\ work[w].step \in {"analysing", "storing"} => work[w].target \in Analysis
        /\ work[w].step = "configuring" => work[w].target \in Configuration

\* A configuration that is planned is not inserted, and one that a deletion has
\* locked has not begun.
ConfsInv ==
    \A c \in Configuration :
        /\ plans[c] # {} => confs[c].status = "none"
        /\ \A d \in Document : c \in deletes[d].confs => Unstarted(confs[c].status)

Inv ==
    /\ TypeOK
    /\ AnalysesInv /\ ChunksAreCurrent
    /\ WorkInv
    /\ ConfsInv /\ ReadyIsLastGeneration

-------------------------------------------------------------------------------
\* The types of the three tables of rows, by the names used here.
LEMMA Types ==
    ASSUME Inv
    PROVE  /\ docs \in [Document -> {"none", "current", "replaced", "deleted"}]
           /\ ans \in [Analysis -> Analyses] /\ asks \in [Analysis -> Document \cup {Nothing}]
           /\ chunks \in [Document -> Analysis \cup {Nothing}]
           /\ confs \in [Configuration -> Configurations]
           /\ plans \in [Configuration -> SUBSET Analysis]
           /\ work \in [Worker -> Works]
BY DEF Inv, TypeOK, Analyses, Configurations, Works

\* What a step that leaves the tables of a part alone leaves true.
LEMMA DocumentsUntouched ==
    ASSUME Inv, UNCHANGED <<docs, ans, asks, chunks>>
    PROVE  (AnalysesInv /\ ChunksAreCurrent)'
BY DEF Inv, AnalysesInv, ChunksAreCurrent

LEMMA ConfigurationsUntouched ==
    ASSUME Inv, UNCHANGED <<deletes, confs, plans>>
    PROVE  (ConfsInv /\ ReadyIsLastGeneration)'
BY DEF Inv, ConfsInv, ReadyIsLastGeneration

LEMMA WorkUntouched ==
    ASSUME Inv, UNCHANGED work
    PROVE  WorkInv'
BY DEF Inv, WorkInv

\* A worker that becomes idle.
LEMMA WorkEnds ==
    ASSUME Inv, NEW w \in Worker, work' = [work EXCEPT ![w] = Idle]
    PROVE  work' \in [Worker -> Works] /\ WorkInv'
<1>1. Idle \in Works /\ Idle.step = "idle"
  BY InterviewSetupAssumption DEF Idle, Works
<1>2. work' \in [Worker -> Works]
  BY <1>1, Types
<1>3. WorkInv'
  BY <1>1, Types DEF Inv, WorkInv
<1> QED BY <1>2, <1>3

\* Chunks that stay where they are are current if the rows around them allow it.
LEMMA ChunksStay ==
    ASSUME UNCHANGED chunks,
           \A d \in Document : chunks[d] # Nothing =>
               docs'[d] = "current" /\ ans'[chunks[d]].doc = d /\ ans'[chunks[d]].status = "succeeded"
    PROVE  ChunksAreCurrent'
BY DEF ChunksAreCurrent

\* Job and status of an analysis that is processing change: no chunk belongs to it.
LEMMA AnalysisMoves ==
    ASSUME Inv, NEW a \in Analysis, ans[a].status = "processing",
           NEW s \in {"processing", "succeeded", "failed"}, NEW j \in JobStatus,
           j = "processing" => s = "processing" /\ docs[ans[a].doc] = "current",
           ans' = [ans EXCEPT ![a].job = j, ![a].status = s],
           UNCHANGED <<docs, asks>>
    PROVE  /\ ans' \in [Analysis -> Analyses] /\ AnalysesInv'
           /\ \A d \in Document : chunks[d] # Nothing =>
                  docs'[d] = "current" /\ ans'[chunks[d]].doc = d /\ ans'[chunks[d]].status = "succeeded"
           /\ UNCHANGED chunks => ChunksAreCurrent'
<1>1. /\ ans \in [Analysis -> Analyses] /\ ans[a] \in Analyses
      /\ ans[a].doc \in Document /\ asks[a] = Nothing
  BY Types DEF Inv, AnalysesInv
<1>2. /\ ans'[a] = [ans[a] EXCEPT !.job = j, !.status = s]
      /\ \A b \in Analysis \ {a} : ans'[b] = ans[b]
  BY <1>1
<1>3. /\ ans'[a] \in Analyses
      /\ ans'[a].doc = ans[a].doc /\ ans'[a].job = j /\ ans'[a].status = s
  BY <1>1, <1>2 DEF Analyses
<1>4. ans' \in [Analysis -> Analyses]
  BY <1>1, <1>3
<1>5. AnalysesInv'
  BY <1>1, <1>2, <1>3 DEF Inv, AnalysesInv
<1>6. ASSUME NEW d \in Document, chunks[d] # Nothing
      PROVE  docs'[d] = "current" /\ ans'[chunks[d]].doc = d /\ ans'[chunks[d]].status = "succeeded"
  <2>1. chunks[d] \in Analysis
    BY <1>6, Types
  <2>2. docs[d] = "current" /\ ans[chunks[d]].doc = d /\ ans[chunks[d]].status = "succeeded"
    BY <1>6 DEF Inv, ChunksAreCurrent
  <2> QED BY <1>2, <2>1, <2>2
<1>7. ASSUME UNCHANGED chunks
      PROVE  ChunksAreCurrent'
  BY <1>6, <1>7, ChunksStay
<1> QED BY <1>4, <1>5, <1>6, <1>7

\* The row of one configuration changes.
LEMMA ConfigurationMoves ==
    ASSUME Inv, NEW c \in Configuration, NEW r \in Configurations,
           confs' = [confs EXCEPT ![c] = r], UNCHANGED deletes,
           \/ UNCHANGED plans
           \/ plans' = [plans EXCEPT ![c] = {}],
           plans'[c] = {}, r.status # "none",
           Begun(r.status) => Begun(confs[c].status) \/ ~ConfLocked(c),
           r.status \in {"ready", "in_progress", "completed"} => r.questions = r.token
    PROVE  /\ confs' \in [Configuration -> Configurations]
           /\ plans' \in [Configuration -> SUBSET Analysis]
           /\ (ConfsInv /\ ReadyIsLastGeneration)'
<1>1. confs \in [Configuration -> Configurations] /\ plans \in [Configuration -> SUBSET Analysis]
  BY Types
<1>2. confs'[c] = r /\ \A e \in Configuration \ {c} : confs'[e] = confs[e] /\ plans'[e] = plans[e]
  BY <1>1
<1>3. confs' \in [Configuration -> Configurations] /\ plans' \in [Configuration -> SUBSET Analysis]
  BY <1>1
<1>4. ConfsInv'
  BY <1>2 DEF Inv, ConfsInv, ConfLocked, Unstarted
<1>5. ReadyIsLastGeneration'
  BY <1>2 DEF Inv, ReadyIsLastGeneration
<1> QED BY <1>3, <1>4, <1>5

-------------------------------------------------------------------------------
\* Documents

\* Uploads touch no row.
LEMMA UploadInv ==
    ASSUME Inv, NEW d \in Document,
           \/ \E old \in Document \cup {Nothing} : PutFile(d, old)
           \/ ReplacedMeanwhile(d) \/ UploadFails(d)
    PROVE  Inv'
<1>1. UNCHANGED <<docs, deletes, ans, asks, chunks, confs, plans, work>>
  BY DEF PutFile, ReplacedMeanwhile, UploadFails
<1>2. TypeOK'
  <2>1. CASE \E old \in Document \cup {Nothing} : PutFile(d, old)
    BY <1>1, <2>1 DEF PutFile, Inv, TypeOK
  <2>2. CASE ReplacedMeanwhile(d)
    BY <1>1, <2>2 DEF ReplacedMeanwhile, Inv, TypeOK
  <2>3. CASE UploadFails(d)
    BY <1>1, <2>3 DEF UploadFails, Inv, TypeOK
  <2> QED BY <2>1, <2>2, <2>3
<1> QED BY <1>1, <1>2, DocumentsUntouched, ConfigurationsUntouched, WorkUntouched DEF Inv

\* Cancelling the jobs of a document changes jobs only.
LEMMA CancelledJobs ==
    ASSUME Inv, NEW d \in Document, NEW a \in Analysis
    PROVE  /\ Cancelled(d)[a] \in Analyses
           /\ Cancelled(d)[a].doc = ans[a].doc /\ Cancelled(d)[a].status = ans[a].status
           /\ Cancelled(d)[a].job = "processing" =>
                  ans[a].job = "processing" /\ ans[a].doc # d
BY Types DEF Cancelled, Active, Analyses, JobStatus

\* A replacement takes the old document's chunks away and cancels its jobs.
LEMMA CreateRowInv ==
    ASSUME Inv, NEW d \in Document, CreateRow(d)
    PROVE  Inv'
<1> DEFINE old == uploads[d].old
<1>1. old \in Document \cup {Nothing} /\ Nothing \notin Document
  BY InterviewSetupAssumption DEF Inv, TypeOK
<1>2. ASSUME NEW a \in Analysis
      PROVE  /\ ans'[a] \in Analyses
             /\ ans'[a].doc = ans[a].doc /\ ans'[a].status = ans[a].status
             /\ ans'[a].job = "processing" => ans[a].job = "processing" /\ ans[a].doc # old
  <2>1. CASE old = Nothing
    BY <1>1, <2>1, Types DEF CreateRow, Inv, AnalysesInv
  <2>2. CASE old \in Document
    BY <1>1, <2>2, CancelledJobs DEF CreateRow
  <2> QED BY <1>1, <2>1, <2>2
<1>3. ans' \in [Analysis -> Analyses]
  <2>1. ans' = [a \in Analysis |-> ans'[a]]
    BY Types DEF CreateRow, Cancelled
  <2> QED BY <1>2, <2>1
<1>4. \A e \in Document : docs'[e] = IF e = d THEN "current"
                                     ELSE IF e = old THEN "replaced" ELSE docs[e]
  BY DEF CreateRow
<1>5. \A e \in Document : chunks'[e] = IF e = old THEN Nothing ELSE chunks[e]
  BY DEF CreateRow
<1>6. TypeOK'
  <2>1. docs' \in [Document -> {"none", "current", "replaced", "deleted"}]
    BY Types DEF CreateRow
  <2>2. chunks' \in [Document -> Analysis \cup {Nothing}]
    BY Types DEF CreateRow
  <2>3. uploads' \in [Document -> [step : {"none", "stored", "ended"}, old : Document \cup {Nothing}]]
    BY DEF CreateRow, Inv, TypeOK
  <2> QED BY <1>3, <2>1, <2>2, <2>3 DEF CreateRow, Inv, TypeOK, Analyses
<1>7. AnalysesInv'
  <2> SUFFICES ASSUME NEW a \in Analysis
               PROVE  /\ ans'[a].status # "none" => ans'[a].doc \in Document
                      /\ ans'[a].job = "processing" =>
                            ans'[a].status = "processing" /\ ans'[a].doc \in Document /\ docs'[ans'[a].doc] = "current"
                      /\ asks'[a] # Nothing => ans'[a].status = "none"
    BY DEF AnalysesInv
  <2> HIDE DEF old
  <2> QED BY <1>2, <1>4 DEF Inv, AnalysesInv, CreateRow
<1>8. ChunksAreCurrent'
  <2> SUFFICES ASSUME NEW e \in Document, chunks'[e] # Nothing
               PROVE  /\ docs'[e] = "current"
                      /\ ans'[chunks'[e]].doc = e /\ ans'[chunks'[e]].status = "succeeded"
    BY DEF ChunksAreCurrent
  <2>1. e # old /\ chunks'[e] = chunks[e] /\ chunks[e] \in Analysis
    BY <1>5, Types
  <2>2. docs[e] = "current" /\ ans[chunks[e]].doc = e /\ ans[chunks[e]].status = "succeeded"
    BY <2>1 DEF Inv, ChunksAreCurrent
  <2> QED BY <1>2, <1>4, <2>1, <2>2
<1> QED BY <1>6, <1>7, <1>8, ConfigurationsUntouched, WorkUntouched DEF Inv, CreateRow

\* A deletion locks configurations that have not begun.
LEMMA DeleteOpensInv ==
    ASSUME Inv, NEW d \in Document,
           DeleteLocks(d) \/ DeleteRows(d) \/ DeleteObject(d) \/ DeleteRollsBack(d)
    PROVE  Inv'
<1>1. UNCHANGED <<docs, uploads, ans, asks, chunks, confs, plans, work>>
  BY DEF DeleteLocks, DeleteRows, DeleteObject, DeleteRollsBack
<1> DEFINE Deletes == [step : {"none", "locking", "rows", "gone"}, confs : SUBSET Configuration]
<1>2. deletes \in [Document -> Deletes]
  BY DEF Inv, TypeOK
<1>3. PICK r \in Deletes :
         /\ deletes' = [deletes EXCEPT ![d] = r]
         /\ \A c \in r.confs : c \in deletes[d].confs \/ Unstarted(confs[c].status)
  <2>1. CASE DeleteLocks(d) \/ DeleteObject(d)
    <3>1. PICK st \in {"locking", "gone"} : deletes' = [deletes EXCEPT ![d].step = st]
      BY <2>1 DEF DeleteLocks, DeleteObject
    <3>2. [deletes[d] EXCEPT !.step = st] \in Deletes
      BY <1>2
    <3>3. deletes' = [deletes EXCEPT ![d] = [deletes[d] EXCEPT !.step = st]]
      BY <1>2, <3>1
    <3>4. [deletes[d] EXCEPT !.step = st].confs = deletes[d].confs
      BY <1>2
    <3> QED BY <3>2, <3>3, <3>4
  <2>2. CASE DeleteRows(d)
    <3> DEFINE cs == {c \in Configuration :
                        confs[c].status \in {"processing", "ready"} /\ UsesOf(c, d) # {}}
               r == [step |-> "rows", confs |-> cs]
    <3>1. r \in Deletes /\ r.confs = cs
      OBVIOUS
    <3>2. \A c \in cs : Unstarted(confs[c].status)
      BY DEF Begun, Unstarted
    <3>3. deletes' = [deletes EXCEPT ![d] = r]
      BY <2>2 DEF DeleteRows
    <3> HIDE DEF cs, r
    <3> QED BY <3>1, <3>2, <3>3
  <2>3. CASE DeleteRollsBack(d)
    <3>1. NoDelete \in Deletes /\ NoDelete.confs = {}
      BY DEF NoDelete
    <3> QED BY <2>3, <3>1 DEF DeleteRollsBack
  <2> QED BY <2>1, <2>2, <2>3
<1>4. files' \subseteq Document
  BY DEF DeleteLocks, DeleteRows, DeleteObject, DeleteRollsBack, Inv, TypeOK
<1>5. TypeOK'
  <2>1. deletes' \in [Document -> Deletes]
    BY <1>2, <1>3
  <2> QED BY <1>1, <1>4, <2>1 DEF Inv, TypeOK
<1>6. ConfsInv'
  <2> SUFFICES ASSUME NEW c \in Configuration
               PROVE  /\ plans'[c] # {} => confs'[c].status = "none"
                      /\ \A e \in Document : c \in deletes'[e].confs => Unstarted(confs'[c].status)
    BY DEF ConfsInv
  <2>1. \A e \in Document : deletes'[e] = IF e = d THEN r ELSE deletes[e]
    BY <1>2, <1>3
  <2> QED BY <1>1, <1>3, <2>1 DEF Inv, ConfsInv
<1>7. ReadyIsLastGeneration'
  BY <1>1 DEF Inv, ReadyIsLastGeneration
<1> QED BY <1>1, <1>5, <1>6, <1>7, DocumentsUntouched, WorkUntouched DEF Inv

\* The commit of a deletion: jobs, chunks, analyses and locked configurations at once.
LEMMA DeleteCommitInv ==
    ASSUME Inv, NEW d \in Document, DeleteCommit(d)
    PROVE  Inv'
<1>1. ASSUME NEW a \in Analysis
      PROVE  /\ ans'[a] \in Analyses
             /\ ans'[a].doc = ans[a].doc
             /\ ans'[a].status \in {ans[a].status, "invalidated"}
             /\ ans[a].status = "none" => ans'[a].status = "none"
             /\ ans[a].doc # d => ans'[a].status = ans[a].status
             /\ ans'[a].job = "processing" => ans[a].job = "processing" /\ ans[a].doc # d
  <2>1. ans'[a] = IF a \in AnalysesOf(d) /\ ans[a].status \in {"processing", "succeeded"}
                  THEN [Cancelled(d)[a] EXCEPT !.status = "invalidated"] ELSE Cancelled(d)[a]
    BY DEF DeleteCommit
  <2>2. /\ Cancelled(d)[a] \in Analyses
        /\ Cancelled(d)[a].doc = ans[a].doc /\ Cancelled(d)[a].status = ans[a].status
        /\ Cancelled(d)[a].job = "processing" => ans[a].job = "processing" /\ ans[a].doc # d
    BY CancelledJobs
  <2>3. CASE a \in AnalysesOf(d) /\ ans[a].status \in {"processing", "succeeded"}
    <3>1. ans'[a] = [Cancelled(d)[a] EXCEPT !.status = "invalidated"]
      BY <2>1, <2>3
    <3>2. /\ ans'[a] \in Analyses /\ ans'[a].doc = Cancelled(d)[a].doc
          /\ ans'[a].job = Cancelled(d)[a].job /\ ans'[a].status = "invalidated"
      BY <2>2, <3>1 DEF Analyses
    <3> QED BY <2>2, <2>3, <3>2 DEF AnalysesOf
  <2>4. CASE ~(a \in AnalysesOf(d) /\ ans[a].status \in {"processing", "succeeded"})
    BY <2>1, <2>2, <2>4
  <2> QED BY <2>3, <2>4
<1>2. ans' \in [Analysis -> Analyses]
  <2>1. ans' = [a \in Analysis |-> ans'[a]]
    BY DEF DeleteCommit
  <2> QED BY <1>1, <2>1
<1>3. docs' = [docs EXCEPT ![d] = "deleted"] /\ chunks' = [chunks EXCEPT ![d] = Nothing] /\ UNCHANGED asks
  BY DEF DeleteCommit
<1>4. ASSUME NEW c \in Configuration
      PROVE  /\ confs'[c] \in Configurations
             /\ c \in deletes[d].confs => confs'[c].status = "invalidated"
             /\ c \notin deletes[d].confs => confs'[c] = confs[c]
  <2>1. confs[c] \in Configurations
    BY Types
  <2>2. confs'[c] = IF c \in deletes[d].confs
                    THEN [confs[c] EXCEPT !.status = "invalidated"] ELSE confs[c]
    BY DEF DeleteCommit
  <2>3. CASE c \in deletes[d].confs
    BY <2>1, <2>2, <2>3 DEF Configurations
  <2>4. CASE c \notin deletes[d].confs
    BY <2>1, <2>2, <2>4
  <2> QED BY <2>3, <2>4
<1>5. confs' \in [Configuration -> Configurations]
  <2>1. confs' = [c \in Configuration |-> confs'[c]]
    BY DEF DeleteCommit
  <2> QED BY <1>4, <2>1
<1>6. \A e \in Document : deletes'[e] = IF e = d THEN NoDelete ELSE deletes[e]
  BY DEF DeleteCommit, Inv, TypeOK
<1>7. TypeOK'
  <2>1. deletes' \in [Document -> [step : {"none", "locking", "rows", "gone"},
                                   confs : SUBSET Configuration]]
    BY DEF DeleteCommit, Inv, TypeOK, NoDelete
  <2>2. /\ docs' \in [Document -> {"none", "current", "replaced", "deleted"}]
        /\ chunks' \in [Document -> Analysis \cup {Nothing}]
    BY <1>3, Types
  <2> QED BY <1>2, <1>5, <2>1, <2>2 DEF DeleteCommit, Inv, TypeOK, Analyses, Configurations
<1>8. AnalysesInv'
  <2> SUFFICES ASSUME NEW a \in Analysis
               PROVE  /\ ans'[a].status # "none" => ans'[a].doc \in Document
                      /\ ans'[a].job = "processing" =>
                            ans'[a].status = "processing" /\ ans'[a].doc \in Document /\ docs'[ans'[a].doc] = "current"
                      /\ asks'[a] # Nothing => ans'[a].status = "none"
    BY DEF AnalysesInv
  <2> QED BY <1>1, <1>3, Types DEF Inv, AnalysesInv
<1>9. ChunksAreCurrent'
  <2> SUFFICES ASSUME NEW e \in Document, chunks'[e] # Nothing
               PROVE  /\ docs'[e] = "current"
                      /\ ans'[chunks'[e]].doc = e /\ ans'[chunks'[e]].status = "succeeded"
    BY DEF ChunksAreCurrent
  <2>1. e # d /\ chunks'[e] = chunks[e] /\ chunks[e] \in Analysis
    BY <1>3, Types
  <2>2. docs[e] = "current" /\ ans[chunks[e]].doc = e /\ ans[chunks[e]].status = "succeeded"
    BY <2>1 DEF Inv, ChunksAreCurrent
  <2> QED BY <1>1, <1>3, <2>1, <2>2, Types
<1>10. ConfsInv'
  <2> SUFFICES ASSUME NEW c \in Configuration
               PROVE  /\ plans'[c] # {} => confs'[c].status = "none"
                      /\ \A e \in Document : c \in deletes'[e].confs => Unstarted(confs'[c].status)
    BY DEF ConfsInv
  <2>1. UNCHANGED plans /\ NoDelete.confs = {}
    BY DEF DeleteCommit, NoDelete
  <2>2. /\ plans[c] # {} => confs[c].status = "none"
        /\ \A e \in Document : c \in deletes[e].confs => Unstarted(confs[c].status)
    BY DEF Inv, ConfsInv
  <2> QED BY <1>4, <1>6, <2>1, <2>2 DEF Unstarted, Begun
<1>11. ReadyIsLastGeneration'
  <2> SUFFICES ASSUME NEW c \in Configuration,
                      confs'[c].status \in {"ready", "in_progress", "completed"}
               PROVE  confs'[c].questions = confs'[c].token
    BY DEF ReadyIsLastGeneration
  <2>1. confs'[c] = confs[c]
    BY <1>4
  <2> QED BY <2>1 DEF Inv, ReadyIsLastGeneration
<1> QED BY <1>7, <1>8, <1>9, <1>10, <1>11, WorkUntouched DEF Inv, DeleteCommit

-------------------------------------------------------------------------------
\* Analyses

LEMMA AskAnalysisInv ==
    ASSUME Inv, NEW a \in Analysis, NEW d \in Document, AskAnalysis(a, d)
    PROVE  Inv'
<1>1. UNCHANGED <<docs, files, uploads, deletes, ans, chunks, confs, plans, work>>
  BY DEF AskAnalysis
<1>2. asks' = [asks EXCEPT ![a] = d] /\ ans[a].status = "none"
  BY DEF AskAnalysis, NoAnalysis
<1>3. TypeOK'
  BY <1>1, <1>2 DEF Inv, TypeOK
<1>4. AnalysesInv'
  BY <1>1, <1>2, Types DEF Inv, AnalysesInv
<1>5. ChunksAreCurrent'
  BY <1>1 DEF Inv, ChunksAreCurrent
<1> QED BY <1>1, <1>3, <1>4, <1>5, ConfigurationsUntouched, WorkUntouched DEF Inv

\* An analysis is inserted once, although its document may be out of service by now.
LEMMA CreateAnalysisInv ==
    ASSUME Inv, NEW a \in Analysis, CreateAnalysis(a)
    PROVE  Inv'
<1> DEFINE r == [doc |-> asks[a], status |-> "processing", job |-> "queued"]
<1>1. UNCHANGED <<docs, files, uploads, deletes, chunks, confs, plans, work>>
  BY DEF CreateAnalysis
<1>2. asks[a] \in Document /\ ans[a].status = "none"
  BY Types DEF CreateAnalysis, Inv, AnalysesInv
<1>3. r \in Analyses /\ r.doc = asks[a] /\ r.status = "processing" /\ r.job = "queued"
  BY <1>2 DEF Analyses, JobStatus
<1>4. /\ ans' = [ans EXCEPT ![a] = r] /\ asks' = [asks EXCEPT ![a] = Nothing]
  BY DEF CreateAnalysis
<1> HIDE DEF r
<1>5. TypeOK'
  BY <1>1, <1>3, <1>4 DEF Inv, TypeOK, Analyses
<1>6. AnalysesInv'
  BY <1>1, <1>2, <1>3, <1>4, Types DEF Inv, AnalysesInv
<1>7. ChunksAreCurrent'
  <2> SUFFICES ASSUME NEW e \in Document, chunks'[e] # Nothing
               PROVE  /\ docs'[e] = "current"
                      /\ ans'[chunks'[e]].doc = e /\ ans'[chunks'[e]].status = "succeeded"
    BY DEF ChunksAreCurrent
  <2>1. chunks[e] # Nothing /\ chunks[e] \in Analysis
    BY <1>1, Types
  <2>2. docs[e] = "current" /\ ans[chunks[e]].doc = e /\ ans[chunks[e]].status = "succeeded"
    BY <2>1 DEF Inv, ChunksAreCurrent
  <2> QED BY <1>1, <1>2, <1>4, <2>1, <2>2, Types
<1> QED BY <1>1, <1>5, <1>6, <1>7, ConfigurationsUntouched, WorkUntouched DEF Inv

\* The rest of the state, when an analysis that was processing moves and a worker may
\* become idle.
LEMMA AnalysisMovesInv ==
    ASSUME Inv, NEW a \in Analysis, ans[a].status = "processing",
           NEW s \in {"processing", "succeeded", "failed"}, NEW j \in JobStatus,
           j = "processing" => s = "processing" /\ docs[ans[a].doc] = "current",
           ans' = [ans EXCEPT ![a].job = j, ![a].status = s],
           work' \in [Worker -> Works], WorkInv',
           UNCHANGED <<docs, files, uploads, deletes, asks, chunks, confs, plans>>
    PROVE  Inv'
<1>1. ans' \in [Analysis -> Analyses] /\ AnalysesInv'
  BY AnalysisMoves
<1>2. TypeOK'
  BY <1>1 DEF Inv, TypeOK, Analyses, Works
<1>3. ChunksAreCurrent'
  BY AnalysisMoves
<1> QED BY <1>1, <1>2, <1>3, ConfigurationsUntouched DEF Inv

LEMMA ClaimAnalysisInv ==
    ASSUME Inv, NEW w \in Worker, NEW a \in Analysis, ClaimAnalysis(w, a)
    PROVE  Inv'
<1> DEFINE job == [Idle EXCEPT !.step = "analysing", !.target = a]
<1>1. ans[a].status = "processing" /\ docs[ans[a].doc] = "current"
  BY DEF ClaimAnalysis
<1>2. ans' = [ans EXCEPT ![a].job = "processing", ![a].status = "processing"]
  <2>1. ans[a] \in Analyses
    BY Types
  <2>2. [ans[a] EXCEPT !.job = "processing"] = [ans[a] EXCEPT !.job = "processing", !.status = "processing"]
    BY <1>1, <2>1 DEF Analyses
  <2> QED BY <2>1, <2>2, Types DEF ClaimAnalysis
<1>3. job \in Works /\ job.step = "analysing" /\ job.target = a
  <2>1. Idle \in Works
    BY InterviewSetupAssumption DEF Idle, Works
  <2> QED BY <2>1 DEF Works
<1>4. work' = [work EXCEPT ![w] = job]
  BY DEF ClaimAnalysis
<1> HIDE DEF job
<1>5. work' \in [Worker -> Works] /\ WorkInv'
  BY <1>3, <1>4, Types DEF Inv, WorkInv
<1>6. UNCHANGED <<docs, files, uploads, deletes, asks, chunks, confs, plans>> /\ "processing" \in JobStatus
  BY DEF ClaimAnalysis, JobStatus
<1> QED BY <1>1, <1>2, <1>5, <1>6, AnalysisMovesInv

LEMMA AttemptFailsInv ==
    ASSUME Inv, NEW w \in Worker, AttemptFails(w)
    PROVE  Inv'
<1> DEFINE a == work[w].target
<1>1. a \in Analysis
  BY DEF AttemptFails, Inv, WorkInv
<1>2. ans[a].status = "processing" /\ work' = [work EXCEPT ![w] = Idle]
      /\ UNCHANGED <<docs, files, uploads, deletes, asks, chunks, confs, plans>>
  BY DEF AttemptFails
<1>3. work' \in [Worker -> Works] /\ WorkInv'
  BY <1>2, WorkEnds
<1>4. \/ ans' = [ans EXCEPT ![a].job = "queued", ![a].status = "processing"]
      \/ ans' = [ans EXCEPT ![a].job = "failed", ![a].status = "failed"]
  <2>1. ans[a] \in Analyses
    BY <1>1, Types
  <2>2. [ans[a] EXCEPT !.job = "queued"] = [ans[a] EXCEPT !.job = "queued", !.status = "processing"]
    BY <1>2, <2>1 DEF Analyses
  <2> QED BY <1>1, <2>1, <2>2, Types DEF AttemptFails
<1>5. "queued" \in JobStatus /\ "failed" \in JobStatus
  BY DEF JobStatus
<1> HIDE DEF a
<1> QED BY <1>1, <1>2, <1>3, <1>4, <1>5, AnalysisMovesInv

LEMMA AnalysisExpiresInv ==
    ASSUME Inv, NEW a \in Analysis, AnalysisExpires(a)
    PROVE  Inv'
<1>1. /\ ans[a].status = "processing"
      /\ ans' = [ans EXCEPT ![a].job = "failed", ![a].status = "failed"]
      /\ UNCHANGED <<docs, files, uploads, deletes, asks, chunks, confs, plans, work>>
  BY DEF AnalysisExpires
<1>2. work' \in [Worker -> Works] /\ WorkInv' /\ "failed" \in JobStatus
  BY <1>1, Types, WorkUntouched DEF JobStatus
<1> QED BY <1>1, <1>2, AnalysisMovesInv

\* The chunks a worker has written are not seen before it commits.
LEMMA StoreAnalysisInv ==
    ASSUME Inv, NEW w \in Worker, StoreAnalysis(w)
    PROVE  Inv'
<1> DEFINE a == work[w].target
           before == chunks[ans[a].doc]
           job == [work[w] EXCEPT !.step = "storing", !.seen = before]
<1>1. a \in Analysis /\ work[w] \in Works
  BY Types DEF StoreAnalysis, Inv, WorkInv
<1>2. before \in Analysis \cup {Nothing}
  <2>1. ans[a].doc \in Document
    BY <1>1 DEF StoreAnalysis, Inv, AnalysesInv
  <2> QED BY <2>1, Types
<1>3. work' = [work EXCEPT ![w] = job]
  BY Types DEF StoreAnalysis
<1>4. UNCHANGED <<docs, files, uploads, deletes, ans, asks, chunks, confs, plans>>
  BY DEF StoreAnalysis
<1> HIDE DEF before
<1>5. job \in Works /\ job.step = "storing" /\ job.target = a
  BY <1>1, <1>2 DEF Works
<1> HIDE DEF job, a
<1>6. work' \in [Worker -> Works] /\ WorkInv'
  BY <1>1, <1>3, <1>5, Types DEF Inv, WorkInv
<1>7. TypeOK'
  BY <1>4, <1>6 DEF Inv, TypeOK, Works
<1> QED BY <1>4, <1>6, <1>7, DocumentsUntouched, ConfigurationsUntouched DEF Inv

\* A commit finds its job processing, so the document is current and the analysis is
\* the one that succeeds.
LEMMA CommitAnalysisInv ==
    ASSUME Inv, NEW w \in Worker, CommitAnalysis(w)
    PROVE  Inv'
<1> DEFINE a == work[w].target
           d == ans[a].doc
<1>1. a \in Analysis
  BY DEF CommitAnalysis, Inv, WorkInv
<1>2. /\ ans[a].job = "processing" /\ ans[a].status = "processing"
      /\ d \in Document /\ docs[d] = "current"
  BY <1>1 DEF CommitAnalysis, Commits, Inv, AnalysesInv
<1>3. /\ chunks' = [chunks EXCEPT ![d] = a] /\ work' = [work EXCEPT ![w] = Idle]
      /\ UNCHANGED <<docs, files, uploads, deletes, asks, confs, plans>>
  BY DEF CommitAnalysis
<1>4. ans' = [ans EXCEPT ![a].job = "succeeded", ![a].status = "succeeded"]
  <2>1. ans[a] \in Analyses
    BY <1>1, Types
  <2>2. [ans[a] EXCEPT !.status = "succeeded", !.job = "succeeded"]
          = [ans[a] EXCEPT !.job = "succeeded", !.status = "succeeded"]
    BY <2>1 DEF Analyses
  <2> QED BY <1>1, <2>1, <2>2, Types DEF CommitAnalysis
<1>5. "succeeded" \in JobStatus /\ Nothing \notin Analysis
  BY InterviewSetupAssumption DEF JobStatus
<1>6. /\ ans' \in [Analysis -> Analyses] /\ AnalysesInv'
      /\ \A e \in Document : chunks[e] # Nothing =>
           docs'[e] = "current" /\ ans'[chunks[e]].doc = e /\ ans'[chunks[e]].status = "succeeded"
  <2> HIDE DEF a, d
  <2> QED BY <1>1, <1>2, <1>3, <1>4, <1>5, AnalysisMoves DEF d
<1>7. ans'[a].doc = d /\ ans'[a].status = "succeeded"
  BY <1>1, <1>4, Types DEF Analyses
<1>8. ChunksAreCurrent'
  <2> SUFFICES ASSUME NEW e \in Document, chunks'[e] # Nothing
               PROVE  /\ docs'[e] = "current"
                      /\ ans'[chunks'[e]].doc = e /\ ans'[chunks'[e]].status = "succeeded"
    BY DEF ChunksAreCurrent
  <2> HIDE DEF a, d
  <2>1. CASE e = d
    BY <1>2, <1>3, <1>7, <2>1, Types
  <2>2. CASE e # d
    <3>1. chunks'[e] = chunks[e]
      BY <1>3, <2>2, Types
    <3> QED BY <1>6, <3>1
  <2> QED BY <2>1, <2>2
<1>9. work' \in [Worker -> Works] /\ WorkInv'
  BY <1>3, WorkEnds
<1>10. TypeOK'
  <2>1. chunks' \in [Document -> Analysis \cup {Nothing}]
    BY <1>1, <1>3, Types
  <2> HIDE DEF a, d
  <2> QED BY <1>3, <1>6, <1>9, <2>1 DEF Inv, TypeOK, Analyses, Works
<1> HIDE DEF a, d
<1> QED BY <1>3, <1>6, <1>8, <1>9, <1>10, ConfigurationsUntouched DEF Inv

LEMMA DropWorkInv ==
    ASSUME Inv, NEW w \in Worker, DropWork(w)
    PROVE  Inv'
<1>1. /\ work' = [work EXCEPT ![w] = Idle]
      /\ UNCHANGED <<docs, files, uploads, deletes, ans, asks, chunks, confs, plans>>
  BY DEF DropWork
<1>2. work' \in [Worker -> Works] /\ WorkInv'
  BY <1>1, WorkEnds
<1>3. TypeOK'
  BY <1>1, <1>2 DEF Inv, TypeOK, Works
<1> QED BY <1>1, <1>2, <1>3, DocumentsUntouched, ConfigurationsUntouched DEF Inv

-------------------------------------------------------------------------------
\* Configurations

\* The rest of the state, when one configuration changes.
LEMMA ConfigurationMovesInv ==
    ASSUME Inv, NEW c \in Configuration, NEW r \in Configurations,
           confs' = [confs EXCEPT ![c] = r],
           \/ UNCHANGED plans
           \/ plans' = [plans EXCEPT ![c] = {}],
           plans'[c] = {}, r.status # "none",
           Begun(r.status) => Begun(confs[c].status) \/ ~ConfLocked(c),
           r.status \in {"ready", "in_progress", "completed"} => r.questions = r.token,
           work' \in [Worker -> Works], WorkInv',
           UNCHANGED <<docs, files, uploads, deletes, ans, asks, chunks>>
    PROVE  Inv'
<1>1. /\ confs' \in [Configuration -> Configurations]
      /\ plans' \in [Configuration -> SUBSET Analysis]
      /\ (ConfsInv /\ ReadyIsLastGeneration)'
  BY ConfigurationMoves
<1>2. TypeOK'
  BY <1>1 DEF Inv, TypeOK, Configurations, Works
<1> QED BY <1>1, <1>2, DocumentsUntouched DEF Inv

LEMMA PlanConfigurationInv ==
    ASSUME Inv, NEW c \in Configuration, NEW S \in SUBSET Analysis, PlanConfiguration(c, S)
    PROVE  Inv'
<1>1. /\ plans' = [plans EXCEPT ![c] = S] /\ confs[c].status = "none"
      /\ UNCHANGED <<docs, files, uploads, deletes, ans, asks, chunks, confs, work>>
  BY DEF PlanConfiguration, NoConf
<1>2. TypeOK'
  BY <1>1 DEF Inv, TypeOK
<1>3. ConfsInv'
  BY <1>1, Types DEF Inv, ConfsInv
<1>4. ReadyIsLastGeneration'
  BY <1>1 DEF Inv, ReadyIsLastGeneration
<1> QED BY <1>1, <1>2, <1>3, <1>4, DocumentsUntouched, WorkUntouched DEF Inv

LEMMA CreateConfigurationInv ==
    ASSUME Inv, NEW c \in Configuration, CreateConfiguration(c)
    PROVE  Inv'
<1> DEFINE r == [uses |-> plans[c], status |-> "processing", job |-> "queued",
                 token |-> 1, questions |-> 0]
<1>1. r \in Configurations /\ r.status = "processing"
  <2>1. 0 \in 0 .. MaxGenerations /\ 1 \in 0 .. MaxGenerations
    BY InterviewSetupAssumption
  <2> QED BY <2>1, Types DEF Configurations, JobStatus
<1>2. /\ confs' = [confs EXCEPT ![c] = r] /\ plans' = [plans EXCEPT ![c] = {}]
      /\ UNCHANGED <<docs, files, uploads, deletes, ans, asks, chunks, work>>
  BY DEF CreateConfiguration
<1>3. plans'[c] = {} /\ work' \in [Worker -> Works] /\ WorkInv'
  BY <1>2, Types, WorkUntouched
<1> HIDE DEF r
<1> QED BY <1>1, <1>2, <1>3, ConfigurationMovesInv DEF Begun

\* A step that changes status and job, and perhaps the questions or the token, of a
\* configuration that was inserted, and is therefore not planned.
LEMMA RowChanges ==
    ASSUME Inv, NEW c \in Configuration, NEW j \in JobStatus, confs[c].status # "none",
           NEW s \in {"processing", "ready", "in_progress", "completed", "failed"},
           NEW t \in 0 .. MaxGenerations, NEW n \in 0 .. MaxGenerations,
           confs' = [confs EXCEPT ![c] =
                       [@ EXCEPT !.status = s, !.job = j, !.token = t, !.questions = n]],
           Begun(s) => Begun(confs[c].status) \/ ~ConfLocked(c),
           s \in {"ready", "in_progress", "completed"} => n = t,
           work' \in [Worker -> Works], WorkInv',
           UNCHANGED <<docs, files, uploads, deletes, ans, asks, chunks, plans>>
    PROVE  Inv'
<1> DEFINE r == [confs[c] EXCEPT !.status = s, !.job = j, !.token = t, !.questions = n]
<1>1. r \in Configurations /\ r.status = s /\ r.token = t /\ r.questions = n
  <2>1. confs[c] \in Configurations
    BY Types
  <2> QED BY <2>1 DEF Configurations
<1>2. confs' = [confs EXCEPT ![c] = r]
  BY Types
<1>3. plans'[c] = {}
  BY DEF Inv, ConfsInv
<1> HIDE DEF r
<1> QED BY <1>1, <1>2, <1>3, ConfigurationMovesInv

LEMMA RegenerateConfigurationInv ==
    ASSUME Inv, NEW c \in Configuration, RegenerateConfiguration(c)
    PROVE  Inv'
<1> DEFINE t == confs[c].token + 1
           n == confs[c].questions
<1>1. confs[c] \in Configurations /\ confs[c].status # "none"
  BY Types DEF RegenerateConfiguration, Regenerable
<1>2. t \in 0 .. MaxGenerations /\ n \in 0 .. MaxGenerations /\ "queued" \in JobStatus
  BY <1>1, InterviewSetupAssumption DEF RegenerateConfiguration, Configurations, JobStatus
<1>3. confs' = [confs EXCEPT ![c] = [@ EXCEPT !.status = "processing", !.job = "queued",
                                              !.token = t, !.questions = n]]
  <2>1. [confs[c] EXCEPT !.status = "processing", !.job = "queued", !.token = t]
          = [confs[c] EXCEPT !.status = "processing", !.job = "queued", !.token = t,
                             !.questions = n]
    BY <1>1 DEF Configurations
  <2> QED BY <2>1, Types DEF RegenerateConfiguration
<1>4. UNCHANGED <<docs, files, uploads, deletes, ans, asks, chunks, plans, work>>
  BY DEF RegenerateConfiguration
<1>5. work' \in [Worker -> Works] /\ WorkInv' /\ ~Begun("processing")
  BY <1>4, Types, WorkUntouched DEF Begun
<1> HIDE DEF t, n
<1> QED BY <1>1, <1>2, <1>3, <1>4, <1>5, RowChanges

LEMMA ClaimConfigurationInv ==
    ASSUME Inv, NEW w \in Worker, NEW c \in Configuration, ClaimConfiguration(w, c)
    PROVE  Inv'
<1> DEFINE t == confs[c].token
           n == confs[c].questions
           job == [Idle EXCEPT !.step = "configuring", !.target = c, !.token = t]
<1>1. confs[c] \in Configurations /\ confs[c].status = "processing"
  BY Types DEF ClaimConfiguration
<1>2. t \in 0 .. MaxGenerations /\ n \in 0 .. MaxGenerations /\ "processing" \in JobStatus
  BY <1>1 DEF Configurations, JobStatus
<1>3. confs' = [confs EXCEPT ![c] = [@ EXCEPT !.status = "processing", !.job = "processing",
                                              !.token = t, !.questions = n]]
  <2>1. [confs[c] EXCEPT !.job = "processing"]
          = [confs[c] EXCEPT !.status = "processing", !.job = "processing", !.token = t,
                             !.questions = n]
    BY <1>1 DEF Configurations
  <2> QED BY <2>1, Types DEF ClaimConfiguration
<1>4. UNCHANGED <<docs, files, uploads, deletes, ans, asks, chunks, plans>>
  BY DEF ClaimConfiguration
<1>5. job \in Works /\ job.step = "configuring" /\ job.target = c
  <2>1. Idle \in Works
    BY InterviewSetupAssumption DEF Idle, Works
  <2> QED BY <1>2, <2>1 DEF Works
<1>6. work' = [work EXCEPT ![w] = job]
  BY DEF ClaimConfiguration
<1> HIDE DEF t, n, job
<1>7. work' \in [Worker -> Works] /\ WorkInv' /\ ~Begun("processing")
  BY <1>5, <1>6, Types DEF Inv, WorkInv, Begun
<1> QED BY <1>1, <1>2, <1>3, <1>4, <1>7, RowChanges

\* The worker whose token the row waits for brings the questions of that token.
LEMMA StoreConfigurationInv ==
    ASSUME Inv, NEW w \in Worker, StoreConfiguration(w)
    PROVE  Inv'
<1> DEFINE c == work[w].target
           t == confs[c].token
<1>1. c \in Configuration
  BY DEF StoreConfiguration, Inv, WorkInv
<1>2. confs[c] \in Configurations /\ confs[c].status = "processing" /\ t = work[w].token
  BY <1>1, Types DEF StoreConfiguration, OwnsConfiguration
<1>3. t \in 0 .. MaxGenerations /\ "succeeded" \in JobStatus
  BY <1>2 DEF Configurations, JobStatus
<1>4. confs' = [confs EXCEPT ![c] = [@ EXCEPT !.status = "ready", !.job = "succeeded",
                                              !.token = t, !.questions = t]]
  <2>1. [confs[c] EXCEPT !.status = "ready", !.job = "succeeded", !.questions = t]
          = [confs[c] EXCEPT !.status = "ready", !.job = "succeeded", !.token = t,
                             !.questions = t]
    BY <1>2 DEF Configurations
  <2> QED BY <1>1, <1>2, <2>1, Types DEF StoreConfiguration
<1>5. /\ work' = [work EXCEPT ![w] = Idle]
      /\ UNCHANGED <<docs, files, uploads, deletes, ans, asks, chunks, plans>>
  BY DEF StoreConfiguration
<1>6. work' \in [Worker -> Works] /\ WorkInv' /\ ~Begun("ready")
  BY <1>5, WorkEnds DEF Begun
<1> HIDE DEF c, t
<1> QED BY <1>1, <1>2, <1>3, <1>4, <1>5, <1>6, RowChanges

\* An execution that fails or expires leaves the row waiting or failed.
LEMMA GenerationEndsInv ==
    ASSUME Inv, NEW c \in Configuration, confs[c].status = "processing",
           \/ confs' = [confs EXCEPT ![c].job = "queued"]
           \/ confs' = [confs EXCEPT ![c].job = "failed", ![c].status = "failed"],
           work' \in [Worker -> Works], WorkInv',
           UNCHANGED <<docs, files, uploads, deletes, ans, asks, chunks, plans>>
    PROVE  Inv'
<1> DEFINE t == confs[c].token
           n == confs[c].questions
<1>1. confs[c] \in Configurations
  BY Types
<1>2. t \in 0 .. MaxGenerations /\ n \in 0 .. MaxGenerations
      /\ "queued" \in JobStatus /\ "failed" \in JobStatus
  BY <1>1 DEF Configurations, JobStatus
<1>3. \/ confs' = [confs EXCEPT ![c] = [@ EXCEPT !.status = "processing", !.job = "queued",
                                                 !.token = t, !.questions = n]]
      \/ confs' = [confs EXCEPT ![c] = [@ EXCEPT !.status = "failed", !.job = "failed",
                                                 !.token = t, !.questions = n]]
  <2>1. /\ [confs[c] EXCEPT !.job = "queued"]
             = [confs[c] EXCEPT !.status = "processing", !.job = "queued", !.token = t,
                                !.questions = n]
        /\ [confs[c] EXCEPT !.job = "failed", !.status = "failed"]
             = [confs[c] EXCEPT !.status = "failed", !.job = "failed", !.token = t,
                                !.questions = n]
    BY <1>1 DEF Configurations
  <2> QED BY <2>1, Types
<1>4. ~Begun("processing") /\ ~Begun("failed")
  BY DEF Begun
<1> HIDE DEF t, n
<1>5. CASE confs' = [confs EXCEPT ![c] = [@ EXCEPT !.status = "processing", !.job = "queued",
                                                   !.token = t, !.questions = n]]
  BY <1>2, <1>4, <1>5, RowChanges
<1>6. CASE confs' = [confs EXCEPT ![c] = [@ EXCEPT !.status = "failed", !.job = "failed",
                                                   !.token = t, !.questions = n]]
  BY <1>2, <1>4, <1>6, RowChanges
<1> QED BY <1>3, <1>5, <1>6

LEMMA GenerationFailsInv ==
    ASSUME Inv, NEW w \in Worker, GenerationFails(w)
    PROVE  Inv'
<1> DEFINE c == work[w].target
<1>1. c \in Configuration
  BY DEF GenerationFails, Inv, WorkInv
<1>2. work' \in [Worker -> Works] /\ WorkInv'
  BY WorkEnds DEF GenerationFails
<1> QED BY <1>1, <1>2, GenerationEndsInv DEF GenerationFails

LEMMA GenerationExpiresInv ==
    ASSUME Inv, NEW c \in Configuration, GenerationExpires(c)
    PROVE  Inv'
<1>1. work' \in [Worker -> Works] /\ WorkInv'
  BY Types, WorkUntouched DEF GenerationExpires
<1> QED BY <1>1, GenerationEndsInv DEF GenerationExpires

\* An interview begins with a row that no deletion has locked, and ends.
LEMMA InterviewInv ==
    ASSUME Inv, NEW c \in Configuration, CreatePracticeRoom(c) \/ CompleteRoom(c)
    PROVE  Inv'
<1> DEFINE t == confs[c].token
           n == confs[c].questions
           j == confs[c].job
<1>1. confs[c] \in Configurations /\ confs[c].status \in {"ready", "in_progress"}
  BY Types DEF CreatePracticeRoom, CompleteRoom
<1>2. n = t
  BY <1>1 DEF Inv, ReadyIsLastGeneration
<1>3. t \in 0 .. MaxGenerations /\ n \in 0 .. MaxGenerations /\ j \in JobStatus
  BY <1>1 DEF Configurations
<1>4. PICK s \in {"in_progress", "completed"} :
         /\ confs' = [confs EXCEPT ![c].status = s]
         /\ Begun(confs[c].status) \/ ~ConfLocked(c)
  BY DEF CreatePracticeRoom, CompleteRoom, Begun
<1>5. confs' = [confs EXCEPT ![c] = [@ EXCEPT !.status = s, !.job = j,
                                              !.token = t, !.questions = n]]
  <2>1. [confs[c] EXCEPT !.status = s]
          = [confs[c] EXCEPT !.status = s, !.job = j, !.token = t, !.questions = n]
    BY <1>1 DEF Configurations
  <2> QED BY <1>4, <2>1, Types
<1>6. UNCHANGED <<docs, files, uploads, deletes, ans, asks, chunks, plans, work>>
  BY DEF CreatePracticeRoom, CompleteRoom
<1>7. work' \in [Worker -> Works] /\ WorkInv'
  BY <1>6, Types, WorkUntouched
<1> HIDE DEF t, n, j
<1> QED BY <1>1, <1>2, <1>3, <1>4, <1>5, <1>6, <1>7, RowChanges

-------------------------------------------------------------------------------
LEMMA InitInv == Init => Inv
<1> SUFFICES ASSUME Init PROVE Inv
  OBVIOUS
<1>1. 0 \in 0 .. MaxGenerations
  BY InterviewSetupAssumption
<1>2. TypeOK
  BY <1>1 DEF Init, TypeOK, NoUpload, NoDelete, NoAnalysis, NoConf, Idle, JobStatus
<1>3. AnalysesInv /\ ChunksAreCurrent
  BY DEF Init, AnalysesInv, ChunksAreCurrent, NoAnalysis
<1>4. WorkInv
  BY DEF Init, WorkInv, Idle
<1>5. ConfsInv /\ ReadyIsLastGeneration
  BY DEF Init, ConfsInv, ReadyIsLastGeneration, NoDelete, NoConf
<1> QED BY <1>2, <1>3, <1>4, <1>5 DEF Inv

LEMMA NextInv == Inv /\ [Next]_vars => Inv'
<1> SUFFICES ASSUME Inv, [Next]_vars PROVE Inv'
  OBVIOUS
<1>1. CASE UserStep
  BY <1>1, UploadInv, CreateRowInv, DeleteOpensInv, DeleteCommitInv, AskAnalysisInv,
     CreateAnalysisInv, PlanConfigurationInv, CreateConfigurationInv,
     RegenerateConfigurationInv, InterviewInv DEF UserStep
<1>2. CASE WorkerStep
  BY <1>2, ClaimAnalysisInv, ClaimConfigurationInv, StoreAnalysisInv, CommitAnalysisInv,
     AttemptFailsInv, StoreConfigurationInv, GenerationFailsInv, DropWorkInv,
     AnalysisExpiresInv, GenerationExpiresInv DEF WorkerStep
<1>3. CASE UNCHANGED vars
  <2>1. UNCHANGED <<docs, files, uploads, deletes, ans, asks, chunks, confs, plans, work>>
    BY <1>3 DEF vars
  <2>2. TypeOK'
    BY <2>1 DEF Inv, TypeOK
  <2> QED BY <2>1, <2>2, DocumentsUntouched, ConfigurationsUntouched, WorkUntouched DEF Inv
<1> QED BY <1>1, <1>2, <1>3 DEF Next

LEMMA InvHolds == Spec => []Inv
BY InitInv, NextInv, PTL DEF Spec

-------------------------------------------------------------------------------
\* Every row of the setup has its type in every reachable state.
THEOREM TypeCorrect == Spec => []TypeOK
<1>1. Inv => TypeOK
  BY DEF Inv
<1> QED BY <1>1, InvHolds, PTL

\* Retrieval never finds chunks of a document that was replaced or deleted, nor of an
\* analysis that did not succeed, although DocumentAnalysisAdapter.complete runs beside
\* replace_document and delete_document.
THEOREM ChunksAreCurrentHolds == Spec => []ChunksAreCurrent
<1>1. Inv => ChunksAreCurrent
  BY DEF Inv
<1> QED BY <1>1, InvHolds, PTL

\* The questions of a configuration that is ready or in use are those of the last
\* execution it was given: no late worker of an earlier one has replaced them.
THEOREM ReadyIsLastGenerationHolds == Spec => []ReadyIsLastGeneration
<1>1. Inv => ReadyIsLastGeneration
  BY DEF Inv
<1> QED BY <1>1, InvHolds, PTL

\* A step leaves the questions of an interview that has begun alone: the rows it may
\* write are those of configurations that wait, failed or are ready.
LEMMA FrozenStep ==
    ASSUME Inv, Next, NEW c \in Configuration, Begun(confs[c].status)
    PROVE  confs'[c].questions = confs[c].questions /\ Begun(confs'[c].status)
<1>1. confs \in [Configuration -> Configurations] /\ confs[c] \in Configurations
  BY Types
<1>2. CASE UNCHANGED confs
  BY <1>2
<1>3. ASSUME NEW d \in Document, DeleteCommit(d) PROVE confs'[c] = confs[c]
  <2>1. c \notin deletes[d].confs
    BY DEF Inv, ConfsInv, Unstarted
  <2> QED BY <1>3, <2>1 DEF DeleteCommit
<1>4. ASSUME NEW e \in Configuration, CreateConfiguration(e) PROVE confs'[c] = confs[c]
  <2>1. e # c
    BY <1>4 DEF CreateConfiguration, Inv, ConfsInv, Begun
  <2> QED BY <1>1, <1>4, <2>1 DEF CreateConfiguration
<1>5. ASSUME NEW e \in Configuration,
             RegenerateConfiguration(e) \/ CreatePracticeRoom(e) \/ GenerationExpires(e)
      PROVE  confs'[c] = confs[c]
  <2>1. e # c
    BY <1>5 DEF RegenerateConfiguration, Regenerable, CreatePracticeRoom, GenerationExpires, Begun
  <2> QED BY <1>1, <1>5, <2>1 DEF RegenerateConfiguration, CreatePracticeRoom, GenerationExpires
<1>6. ASSUME NEW e \in Configuration, CompleteRoom(e)
      PROVE  confs'[c].questions = confs[c].questions /\ Begun(confs'[c].status)
  <2>1. CASE e = c
    BY <1>1, <1>6, <2>1 DEF CompleteRoom, Configurations, Begun
  <2>2. CASE e # c
    BY <1>1, <1>6, <2>2 DEF CompleteRoom
  <2> QED BY <2>1, <2>2
<1>7. ASSUME NEW w \in Worker, StoreConfiguration(w) \/ GenerationFails(w)
      PROVE  confs'[c] = confs[c]
  <2>1. work[w].target # c
    BY <1>7 DEF StoreConfiguration, OwnsConfiguration, GenerationFails, Begun
  <2> QED BY <1>1, <1>7, <2>1 DEF StoreConfiguration, GenerationFails
<1>8. ASSUME NEW w \in Worker, NEW e \in Configuration, ClaimConfiguration(w, e)
      PROVE  confs'[c] = confs[c]
  <2>1. e # c
    BY <1>8 DEF ClaimConfiguration, Begun
  <2> QED BY <1>1, <1>8, <2>1 DEF ClaimConfiguration
<1>9. CASE UserStep
  <2>1. ASSUME NEW d \in Document,
               \/ \E old \in Document \cup {Nothing} : PutFile(d, old)
               \/ CreateRow(d) \/ ReplacedMeanwhile(d) \/ UploadFails(d)
               \/ DeleteLocks(d) \/ DeleteRows(d) \/ DeleteObject(d) \/ DeleteRollsBack(d)
        PROVE  UNCHANGED confs
    BY <2>1 DEF PutFile, CreateRow, ReplacedMeanwhile, UploadFails, DeleteLocks, DeleteRows,
                DeleteObject, DeleteRollsBack
  <2>2. ASSUME NEW a \in Analysis, CreateAnalysis(a) \/ \E d \in Document : AskAnalysis(a, d)
        PROVE  UNCHANGED confs
    BY <2>2 DEF CreateAnalysis, AskAnalysis
  <2>3. ASSUME NEW e \in Configuration, \E S \in SUBSET Analysis : PlanConfiguration(e, S)
        PROVE  UNCHANGED confs
    BY <2>3 DEF PlanConfiguration
  <2> QED BY <1>2, <1>3, <1>4, <1>5, <1>6, <1>9, <2>1, <2>2, <2>3 DEF UserStep
<1>10. CASE WorkerStep
  <2>1. ASSUME NEW w \in Worker,
               \/ \E a \in Analysis : ClaimAnalysis(w, a)
               \/ StoreAnalysis(w) \/ CommitAnalysis(w) \/ AttemptFails(w) \/ DropWork(w)
        PROVE  UNCHANGED confs
    BY <2>1 DEF ClaimAnalysis, StoreAnalysis, CommitAnalysis, AttemptFails, DropWork
  <2>2. ASSUME NEW a \in Analysis, AnalysisExpires(a) PROVE UNCHANGED confs
    BY <2>2 DEF AnalysisExpires
  <2> QED BY <1>2, <1>5, <1>7, <1>8, <1>10, <2>1, <2>2 DEF WorkerStep
<1> QED BY <1>9, <1>10 DEF Next

\* The questions of an interview that has begun never change and the interview never
\* falls back, although regenerate_configuration, delete_document and workers with
\* earlier executions run beside it.
THEOREM QuestionsAreFrozenHolds == Spec => QuestionsAreFrozen
<1>1. Inv /\ [Next]_vars =>
        [\A c \in Configuration :
            confs[c].status \in {"in_progress", "completed"} =>
                /\ confs'[c].questions = confs[c].questions
                /\ confs'[c].status \in {"in_progress", "completed"}]_vars
  BY FrozenStep DEF Begun
<1> QED BY <1>1, InvHolds, PTL DEF Spec, QuestionsAreFrozen
=============================================================================
