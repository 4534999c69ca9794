----------------------------- MODULE RoomDeletion -----------------------------
(***************************************************************************)
(* One room and the audio files under its prefix in the bucket             *)
(* message-audio: voice messages (services/media.py upload_voice_message), *)
(* speech made by TTS jobs (TTSAdapter in worker/domain_adapters.py), and  *)
(* the deletion of the room (services/conversation.py delete_room).        *)
(* Database and object store have no common transaction: every call of     *)
(* the store is a step of its own, and any process may stop between two    *)
(* of its steps.                                                           *)
(*                                                                         *)
(* A Path stands for a file and for the message_audio row that names it.   *)
(* The store refuses an upload to a path that exists (the adapter sends no *)
(* overwrite header).  A token stands for one tts_generation job and the   *)
(* processing_token it works for: a new job for the row means a new token. *)
(***************************************************************************)
EXTENDS IdempotencyRecords

CONSTANTS
    VoicePath, TtsPath,   \* files of voice messages and of synthesized speech
    PathOf,               \* the file a voice request uploads
    Mixes,                \* bound: the requests that come together
    Patient,              \* deletions whose clients repeat them until they succeed
    Worker,               \* consumers of interactive_ai
    MaxAttempts,          \* attempts of a job (the queue's contract)
    MaxToken              \* bound: TTS jobs per row

Path == VoicePath \cup TtsPath
Voices == DOMAIN PathOf
Deleters == Request \ Voices

ASSUME RoomDeletionAssumption ==
    /\ VoicePath \cap TtsPath = {}
    /\ Voices \subseteq Request
    /\ \A v \in Voices : PathOf[v] \in VoicePath
    /\ Mixes \subseteq SUBSET Request /\ Patient \subseteq Deleters
    /\ MaxAttempts \in Nat \ {0} /\ MaxToken \in Nat \ {0}

VARIABLES
    sent,      \* the requests that clients send, and repeat
    room,      \* is the room's row there?
    objects,   \* the files in the store
    row,       \* status of the message_audio row
    token,     \* number of the row's latest TTS job
    job,       \* status of that job
    tries,     \* its attempts so far
    at,        \* where a request is
    todo,      \* files a deletion has listed and not deleted yet
    seen,      \* what a deletion was answered last
    work,      \* what a worker is doing: step, path, token
    linked,    \* history: files that some row called ready
    stray      \* history: files uploaded while a deletion was under way, or left
               \* behind by a process that stopped

dbVars == <<sent, room, row, token, job, tries>>
historyVars == <<linked, stray>>
vars == <<record, sent, room, objects, row, token, job, tries, at, todo, seen, work, linked,
          stray>>

Idle == [step |-> "idle", path |-> Nobody, token |-> 0]

TypeOK ==
    /\ RecordsTypeOK
    /\ sent \in Mixes
    /\ room \in {"open", "gone"}
    /\ objects \subseteq Path /\ linked \subseteq Path /\ stray \subseteq Path
    /\ row \in [Path -> {"none", "processing", "ready", "failed"}]
    /\ token \in [TtsPath -> 1 .. MaxToken]
    /\ job \in [TtsPath -> {"queued", "processing", "ended"}]
    /\ tries \in [TtsPath -> 0 .. MaxAttempts]
    /\ at \in [Request -> {"idle", "claimed", "uploaded", "stored", "deleting"}]
    /\ todo \in [Deleters -> SUBSET Path]
    /\ seen \in [Deleters -> {"nothing", "deleted", "missing", "error"}]
    /\ work \in [Worker -> [step : {"idle", "executing", "uploaded"},
                            path : TtsPath \cup {Nobody}, token : 0 .. MaxToken]]

\* Every reply of the persona has been given its audio row and a queued TTS job.
Init ==
    /\ RecordsInit
    /\ sent \in Mixes
    /\ room = "open"
    /\ objects = {} /\ linked = {} /\ stray = {}
    /\ row = [p \in Path |-> IF p \in TtsPath THEN "processing" ELSE "none"]
    /\ token = [p \in TtsPath |-> 1]
    /\ job = [p \in TtsPath |-> "queued"]
    /\ tries = [p \in TtsPath |-> 0]
    /\ at = [q \in Request |-> "idle"]
    /\ todo = [d \in Deleters |-> {}]
    /\ seen = [d \in Deleters |-> "nothing"]
    /\ work = [w \in Worker |-> Idle]

Goes(q, where) == at' = [at EXCEPT ![q] = where]
Deleting == \E d \in Deleters : at[d] = "deleting"

\* A store that overwrites.
FaultyCanUpload(p) == p \in Path

\* An upload to a path that is taken is refused.
CanUpload(p) == p \notin objects

Upload(p) ==
    /\ CanUpload(p)
    /\ objects' = objects \cup {p}
    /\ stray' = IF Deleting THEN stray \cup {p} ELSE stray \ {p}

-------------------------------------------------------------------------------
\* upload_voice_message

\* The claim is inserted and its transaction left open during the upload: another
\* request with the key waits for it.
VoiceClaim(v) ==
    /\ v \in sent /\ at[v] = "idle" /\ Claims(v)
    /\ \A u \in Voices : KeyOf[u] = KeyOf[v] => at[u] \notin {"claimed", "uploaded"}
    /\ Goes(v, "claimed")
    /\ UNCHANGED <<record, dbVars, objects, todo, seen, work, historyVars>>

VoiceUpload(v) ==
    /\ at[v] = "claimed"
    /\ Upload(PathOf[v])
    /\ Goes(v, "uploaded")
    /\ UNCHANGED <<record, dbVars, todo, seen, work, linked>>

\* create_voice_message: message, row and claim are committed.
VoiceStore(v) ==
    /\ at[v] = "uploaded"
    /\ room = "open" /\ row[PathOf[v]] = "none"
    /\ row' = [row EXCEPT ![PathOf[v]] = "ready"]
    /\ linked' = linked \cup {PathOf[v]}
    /\ record' = WithRecord(v, ClaimedRecord(v))
    /\ Goes(v, "stored")
    /\ UNCHANGED <<sent, room, token, job, tries, objects, todo, seen, work, stray>>

\* The room is gone or not active, the queue is full, or the message's unique key
\* rejects it: roll back and delete the file.
VoiceReject(v) ==
    /\ at[v] = "uploaded"
    /\ objects' = objects \ {PathOf[v]}
    /\ Goes(v, "idle")
    /\ UNCHANGED <<record, dbVars, todo, seen, work, historyVars>>

VoiceComplete(v) ==
    /\ at[v] = "stored" /\ HoldsClaim(v)
    /\ record' = WithRecord(v, CompletedRecord(v))
    /\ Goes(v, "idle")
    /\ UNCHANGED <<dbVars, objects, todo, seen, work, historyVars>>

\* The upload is refused, the clean-up fails, the claim is lost, or the process dies.
VoiceStop(v) ==
    /\ at[v] \in {"claimed", "uploaded", "stored"}
    /\ stray' = IF at[v] = "uploaded" THEN stray \cup {PathOf[v]} ELSE stray
    /\ Goes(v, "idle")
    /\ UNCHANGED <<record, dbVars, objects, todo, seen, work, linked>>

-------------------------------------------------------------------------------
\* TTS jobs

TtsClaim(w, p) ==
    /\ work[w].step = "idle"
    /\ job[p] = "queued" /\ row[p] = "processing"
    /\ job' = [job EXCEPT ![p] = "processing"]
    /\ tries' = [tries EXCEPT ![p] = @ + 1]
    /\ work' = [work EXCEPT ![w] = [step |-> "executing", path |-> p,
                                    token |-> token[p]]]
    /\ UNCHANGED <<record, sent, room, row, token, objects, at, todo, seen, historyVars>>

\* complete uploads first ...
TtsUpload(w) ==
    /\ work[w].step = "executing"
    /\ Upload(work[w].path)
    /\ work' = [work EXCEPT ![w].step = "uploaded"]
    /\ UNCHANGED <<record, dbVars, at, todo, seen, linked>>

IsCurrent(w) ==
    /\ row[work[w].path] = "processing"
    /\ token[work[w].path] = work[w].token

\* ... then makes the row ready, if it still waits for this token ...
TtsStore(w) ==
    /\ work[w].step = "uploaded" /\ IsCurrent(w)
    /\ row' = [row EXCEPT ![work[w].path] = "ready"]
    /\ job' = [job EXCEPT ![work[w].path] = "ended"]
    /\ linked' = linked \cup {work[w].path}
    /\ work' = [work EXCEPT ![w] = Idle]
    /\ UNCHANGED <<record, sent, room, token, tries, objects, at, todo, seen, stray>>

\* A complete that gives up on a stale token and keeps the file.
FaultyTtsStale(w) ==
    /\ work[w].step = "uploaded" /\ ~IsCurrent(w)
    /\ work' = [work EXCEPT ![w] = Idle]
    /\ UNCHANGED <<record, dbVars, objects, at, todo, seen, historyVars>>

\* ... and deletes the file again if it does not.
TtsStale(w) ==
    /\ work[w].step = "uploaded" /\ ~IsCurrent(w)
    /\ objects' = objects \ {work[w].path}
    /\ work' = [work EXCEPT ![w] = Idle]
    /\ UNCHANGED <<record, dbVars, at, todo, seen, historyVars>>

\* The provider or the upload fails: the job is queued again or fails for good.
TtsFail(w) ==
    /\ work[w].step = "executing"
    /\ work' = [work EXCEPT ![w] = Idle]
    /\ IF IsCurrent(w)
       THEN LET p == work[w].path IN
            \/ /\ tries[p] < MaxAttempts
               /\ job' = [job EXCEPT ![p] = "queued"]
               /\ UNCHANGED row
            \/ /\ job' = [job EXCEPT ![p] = "ended"]
               /\ row' = [row EXCEPT ![p] = "failed"]
       ELSE UNCHANGED <<job, row>>
    /\ UNCHANGED <<record, sent, room, token, tries, objects, at, todo, seen, historyVars>>

TtsCrash(w) ==
    /\ work[w].step # "idle"
    /\ stray' = IF work[w].step = "uploaded" THEN stray \cup {work[w].path}
                ELSE stray
    /\ work' = [work EXCEPT ![w] = Idle]
    /\ UNCHANGED <<record, dbVars, objects, at, todo, seen, linked>>

\* recover_expired: the deadline of the job has passed, its worker may go on.
Reap(p) ==
    /\ job[p] = "processing"
    /\ job' = [job EXCEPT ![p] = "ended"]
    /\ row' = [row EXCEPT ![p] = "failed"]
    /\ UNCHANGED <<record, sent, room, token, tries, objects, at, todo, seen, work, historyVars>>

\* retry_tts: same row and path, new token, new job.
RetryTts(p) ==
    /\ row[p] = "failed" /\ token[p] < MaxToken
    /\ row' = [row EXCEPT ![p] = "processing"]
    /\ token' = [token EXCEPT ![p] = @ + 1]
    /\ job' = [job EXCEPT ![p] = "queued"]
    /\ tries' = [tries EXCEPT ![p] = 0]
    /\ UNCHANGED <<record, sent, room, objects, at, todo, seen, work, historyVars>>

-------------------------------------------------------------------------------
\* delete_room

Answered(d, a) == seen' = [seen EXCEPT ![d] = a]

DeleteReplay(d) ==
    /\ d \in sent /\ at[d] = "idle" /\ Replays(d)
    /\ Answered(d, "deleted")
    /\ UNCHANGED <<record, dbVars, objects, at, todo, work, historyVars>>

\* 404: the claim is rolled back.
DeleteMissing(d) ==
    /\ d \in sent /\ at[d] = "idle" /\ Claims(d) /\ room = "gone"
    /\ Answered(d, "missing")
    /\ UNCHANGED <<record, dbVars, objects, at, todo, work, historyVars>>

\* Claim and list of files are committed.
DeleteStart(d) ==
    /\ d \in sent /\ at[d] = "idle" /\ Claims(d) /\ room = "open"
    /\ record' = WithRecord(d, ClaimedRecord(d))
    /\ todo' = [todo EXCEPT ![d] = objects]
    /\ Goes(d, "deleting")
    /\ UNCHANGED <<dbVars, objects, seen, work, historyVars>>

\* A missing object counts as deleted.
DeleteObject(d, p) ==
    /\ at[d] = "deleting" /\ p \in todo[d]
    /\ objects' = objects \ {p}
    /\ todo' = [todo EXCEPT ![d] = @ \ {p}]
    /\ UNCHANGED <<record, dbVars, at, seen, work, historyVars>>

\* The store fails: fail_retryable, if the claim is still held.
DeleteFails(d) ==
    /\ at[d] = "deleting" /\ todo[d] # {}
    /\ record' = IF HoldsClaim(d) THEN WithRecord(d, FailedRecord(d)) ELSE record
    /\ todo' = [todo EXCEPT ![d] = {}]
    /\ Goes(d, "idle")
    /\ Answered(d, "error")
    /\ UNCHANGED <<dbVars, objects, work, historyVars>>

\* The last transaction: jobs cancelled, room and rows deleted, record completed.  A
\* job in processing makes the CHECK on its progress_stage reject it.
DeleteFinish(d) ==
    /\ at[d] = "deleting" /\ todo[d] = {}
    /\ room = "open" /\ HoldsClaim(d)
    /\ \A p \in TtsPath : job[p] # "processing"
    /\ room' = "gone"
    /\ row' = [p \in Path |-> "none"]
    /\ job' = [p \in TtsPath |-> "ended"]
    /\ record' = WithRecord(d, CompletedRecord(d))
    /\ Goes(d, "idle")
    /\ Answered(d, "deleted")
    /\ UNCHANGED <<sent, token, tries, objects, todo, work, historyVars>>

\* It is rejected, finds the room or the claim gone, or the process dies: the
\* record stays in progress until its lease runs out.
DeleteStop(d) ==
    /\ at[d] = "deleting"
    /\ todo' = [todo EXCEPT ![d] = {}]
    /\ Goes(d, "idle")
    /\ Answered(d, IF room = "gone" THEN "missing" ELSE "error")
    /\ UNCHANGED <<record, dbVars, objects, work, historyVars>>

Tick ==
    /\ LeasesRun
    /\ UNCHANGED <<dbVars, objects, at, todo, seen, work, historyVars>>

Voice(v) ==
    \/ VoiceClaim(v) \/ VoiceUpload(v) \/ VoiceStore(v) \/ VoiceReject(v)
    \/ VoiceComplete(v) \/ VoiceStop(v)

Consume(w) ==
    \/ \E p \in TtsPath : TtsClaim(w, p)
    \/ TtsUpload(w) \/ TtsStore(w) \/ TtsStale(w) \/ TtsFail(w) \/ TtsCrash(w)

Delete(d) ==
    \/ DeleteReplay(d) \/ DeleteMissing(d) \/ DeleteStart(d)
    \/ \E p \in Path : DeleteObject(d, p)
    \/ DeleteFails(d) \/ DeleteFinish(d) \/ DeleteStop(d)

Next ==
    \/ \E v \in Voices : Voice(v)
    \/ \E w \in Worker : Consume(w)
    \/ \E p \in TtsPath : Reap(p) \/ RetryTts(p)
    \/ \E d \in Deleters : Delete(d)
    \/ Tick

Spec == Init /\ [][Next]_vars

\* The clock runs; a patient client repeats its deletion until it is answered 204 and
\* is not always stopped short; the store does not fail for ever on the same file; the
\* reaper makes progress.
Fairness ==
    /\ WF_vars(Tick)
    /\ \A d \in Patient :
          /\ SF_vars(DeleteStart(d)) /\ SF_vars(DeleteFinish(d))
          /\ \A p \in Path : SF_vars(DeleteObject(d, p))
    /\ \A p \in TtsPath : WF_vars(Reap(p))

FairSpec == Spec /\ Fairness

-------------------------------------------------------------------------------
\* Properties

NobodyHolds(p) ==
    /\ \A v \in Voices : at[v] = "uploaded" => PathOf[v] # p
    /\ \A w \in Worker : work[w].step = "uploaded" => work[w].path # p

DeletionBegan == \E d \in Deleters : at[d] = "deleting" \/ seen[d] # "nothing"

\* A row that says ready has its file, whatever late workers and repeated uploads do
\* to the shared path; only a deletion of the room takes it away.
ReadyHasFile ==
    ~DeletionBegan => \A p \in Path : row[p] = "ready" => p \in objects

\* A file that outlives its room was uploaded while the deletion was under way, or
\* by a process that stopped before it could clean up.
OrphansExplained ==
    room = "gone" => \A p \in objects : NobodyHolds(p) => p \in stray

\* The product document: deleting a room deletes its audio at once and for good.
RoomLeavesNoFile == room = "gone" => objects \cap linked = {}

\* A deletion that is repeated until it succeeds ends, although each attempt may meet
\* a running job, a failing store or the lease of a dead one.
RoomIsDeleted ==
    (\E d \in Patient : at[d] = "deleting") ~> room = "gone"
=============================================================================
