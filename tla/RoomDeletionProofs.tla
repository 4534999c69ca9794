-------------------------- MODULE RoomDeletionProofs --------------------------
(***************************************************************************)
(* Proofs about RoomDeletion, for any sets of requests, files and workers  *)
(* and any number of attempts and TTS jobs.                                *)
(*                                                                         *)
(* Files are safe while nobody deletes the room because the store refuses  *)
(* to overwrite: whoever has uploaded a file and not yet stored its row is *)
(* alone with it, and the row is not ready, so a clean-up never hits a     *)
(* file that a ready row names.  A deletion leaves nothing unexplained     *)
(* because what is in the store while it works is on its list or was       *)
(* uploaded under its eyes, and because rows and jobs of a room that is    *)
(* gone never come back.                                                   *)
(***************************************************************************)
EXTENDS RoomDeletion, TLAPS

Works == [step : {"idle", "executing", "uploaded"},
          path : TtsPath \cup {Nobody}, token : 0 .. MaxToken]

\* Only deletions delete, only uploads upload, and a busy worker has a file to make.
PlacesInv ==
    /\ \A v \in Voices : at[v] # "deleting"
    /\ \A d \in Deleters : at[d] \in {"idle", "deleting"}
    /\ \A w \in Worker : work[w].step # "idle" => work[w].path \in TtsPath

\* A queued job has an attempt left; a room that is gone has no rows and no jobs.
JobsInv ==
    /\ \A p \in TtsPath : job[p] = "queued" => tries[p] < MaxAttempts
    /\ room = "gone" => /\ \A p \in Path : row[p] = "none"
                        /\ \A p \in TtsPath : job[p] = "ended"

\* Requests and workers that have uploaded a file and not yet stored its row.
VoiceHolds(v) == at[v] = "uploaded"
WorkerHolds(w) == work[w].step = "uploaded"

\* A file in its holder's hands is there and no row calls it ready.
InHand(p) == p \in objects /\ row[p] # "ready"

\* Until a deletion begins, files are in the hands of one holder at most.
HoldersInv ==
    /\ \A v \in Voices : VoiceHolds(v) => InHand(PathOf[v])
    /\ \A u, v \in Voices :
          VoiceHolds(u) /\ VoiceHolds(v) /\ PathOf[u] = PathOf[v] => u = v
    /\ \A w \in Worker : WorkerHolds(w) => InHand(work[w].path)
    /\ \A w, x \in Worker :
          WorkerHolds(w) /\ WorkerHolds(x) /\ work[w].path = work[x].path => w = x

FilesInv == DeletionBegan \/ (HoldersInv /\ \A p \in Path : row[p] = "ready" => p \in objects)

\* What a deletion finds in the store is on its list or was uploaded meanwhile.
ListedInv == \A d \in Deleters : at[d] = "deleting" => objects \subseteq todo[d] \cup stray

Inv ==
    /\ TypeOK /\ PlacesInv /\ JobsInv
    /\ FilesInv
    /\ ListedInv /\ OrphansExplained

-------------------------------------------------------------------------------
\* Requests are uploads or deletions, and files are recordings or speech.
LEMMA Kinds ==
    /\ Voices \subseteq Request /\ Deleters \subseteq Request
    /\ \A v \in Voices : v \notin Deleters
    /\ \A v \in Voices : PathOf[v] \in VoicePath /\ PathOf[v] \in Path
    /\ \A p \in TtsPath : p \in Path /\ p \notin VoicePath
BY RoomDeletionAssumption DEF Deleters, Path

LEMMA Types ==
    ASSUME Inv
    PROVE  /\ record \in [Key -> Record] /\ sent \in Mixes
           /\ room \in {"open", "gone"}
           /\ objects \subseteq Path /\ linked \subseteq Path /\ stray \subseteq Path
           /\ row \in [Path -> {"none", "processing", "ready", "failed"}]
           /\ token \in [TtsPath -> 1 .. MaxToken]
           /\ job \in [TtsPath -> {"queued", "processing", "ended"}]
           /\ tries \in [TtsPath -> 0 .. MaxAttempts]
           /\ at \in [Request -> {"idle", "claimed", "uploaded", "stored", "deleting"}]
           /\ todo \in [Deleters -> SUBSET Path]
           /\ seen \in [Deleters -> {"nothing", "deleted", "missing", "error"}]
           /\ work \in [Worker -> Works]
BY DEF Inv, TypeOK, RecordsTypeOK, Works

\* The rows that claim, complete and fail_retryable write are rows.
LEMMA WrittenRecords ==
    ASSUME Inv, NEW q \in Request
    PROVE  /\ WithRecord(q, ClaimedRecord(q)) \in [Key -> Record]
           /\ WithRecord(q, FailedRecord(q)) \in [Key -> Record]
           /\ WithRecord(q, CompletedRecord(q)) \in [Key -> Record]
<1>1. /\ ClaimedRecord(q) \in Record /\ FailedRecord(q) \in Record
      /\ CompletedRecord(q) \in Record
  BY RecordsAssumption
     DEF ClaimedRecord, FailedRecord, CompletedRecord, Record, RecordState
<1> QED BY <1>1, Types, RecordsAssumption DEF WithRecord

\* A deletion that has begun has begun for good.
LEMMA DeletionStays ==
    ASSUME \A d \in Deleters : at'[d] = at[d] /\ seen'[d] = seen[d]
    PROVE  DeletionBegan' <=> DeletionBegan
BY DEF DeletionBegan

\* An upload that moves, moves alone.
LEMMA VoiceMoves ==
    ASSUME Inv, NEW v \in Voices, NEW where \in {"idle", "claimed", "uploaded", "stored"},
           Goes(v, where), UNCHANGED <<seen, work>>
    PROVE  /\ at' \in [Request -> {"idle", "claimed", "uploaded", "stored", "deleting"}]
           /\ PlacesInv'
           /\ \A d \in Deleters : at'[d] = at[d]
           /\ \A u \in Voices : at'[u] = IF u = v THEN where ELSE at[u]
           /\ DeletionBegan' <=> DeletionBegan
<1>1. at' \in [Request -> {"idle", "claimed", "uploaded", "stored", "deleting"}]
  BY Kinds, Types DEF Goes
<1>2. /\ \A d \in Deleters : at'[d] = at[d]
      /\ \A u \in Voices : at'[u] = IF u = v THEN where ELSE at[u]
  BY Kinds, Types DEF Goes
<1>3. PlacesInv'
  BY <1>2 DEF Inv, PlacesInv
<1>4. DeletionBegan' <=> DeletionBegan
  BY <1>2, DeletionStays
<1> QED BY <1>1, <1>2, <1>3, <1>4

\* A step after which nobody holds a file that it did not hold before, no file has
\* gone and no row has become ready.
LEMMA FilesStay ==
    ASSUME Inv, DeletionBegan => DeletionBegan',
           \A v \in Voices : at'[v] = "uploaded" => at[v] = "uploaded",
           \A w \in Worker : work'[w].step = "uploaded" =>
               work[w].step = "uploaded" /\ work'[w].path = work[w].path,
           UNCHANGED objects,
           \A p \in Path : row'[p] = "ready" => row[p] = "ready"
    PROVE  FilesInv'
<1> SUFFICES ASSUME ~DeletionBegan'
             PROVE  (HoldersInv /\ \A p \in Path : row[p] = "ready" => p \in objects)'
  BY DEF FilesInv
<1>1. HoldersInv /\ \A p \in Path : row[p] = "ready" => p \in objects
  BY DEF Inv, FilesInv
<1>2. \A w \in Worker : work[w].step = "uploaded" => work[w].path \in Path
  BY Kinds DEF Inv, PlacesInv
<1>3. \A v \in Voices : VoiceHolds(v)' => InHand(PathOf[v])'
  BY <1>1, Kinds DEF HoldersInv, VoiceHolds, InHand
<1>4. \A w \in Worker : WorkerHolds(w)' => InHand(work[w].path)'
  BY <1>1, <1>2 DEF HoldersInv, WorkerHolds, InHand
<1>5. \A u, v \in Voices : VoiceHolds(u)' /\ VoiceHolds(v)' /\ PathOf[u] = PathOf[v] => u = v
  BY <1>1 DEF HoldersInv, VoiceHolds
<1>6. \A w, x \in Worker :
        WorkerHolds(w)' /\ WorkerHolds(x)' /\ work'[w].path = work'[x].path => w = x
  BY <1>1 DEF HoldersInv, WorkerHolds
<1> QED BY <1>1, <1>3, <1>4, <1>5, <1>6 DEF HoldersInv

\* A step that adds no file, forgets no stray and begins no deletion.
LEMMA ListedStays ==
    ASSUME Inv, objects' \subseteq objects, stray \subseteq stray',
           \A d \in Deleters : at'[d] = "deleting" => at[d] = "deleting" /\ todo'[d] = todo[d]
    PROVE  ListedInv'
BY DEF Inv, ListedInv

\* A step that adds no file and after which every file that is let go is a stray one.
LEMMA OrphansStay ==
    ASSUME Inv, UNCHANGED room, objects' \subseteq objects, stray \subseteq stray',
           \A p \in objects' :
               NobodyHolds(p)' => NobodyHolds(p) \/ p \in stray'
    PROVE  OrphansExplained'
BY DEF Inv, OrphansExplained

\* Nobody takes a file or lets one go.
LEMMA HandsStay ==
    ASSUME \A v \in Voices : at[v] = "uploaded" => at'[v] = "uploaded",
           \A w \in Worker : work[w].step = "uploaded" =>
               work'[w].step = "uploaded" /\ work'[w].path = work[w].path,
           NEW p
    PROVE  NobodyHolds(p)' => NobodyHolds(p)
BY DEF NobodyHolds

\* An upload while a deletion works is a stray one, and one under no deletion is in
\* its uploader's hands.
LEMMA UploadIsListed ==
    ASSUME Inv, NEW p, Upload(p), UNCHANGED todo,
           \A d \in Deleters : at'[d] = at[d]
    PROVE  ListedInv'
<1> SUFFICES ASSUME NEW d \in Deleters, at'[d] = "deleting"
             PROVE  objects' \subseteq todo'[d] \cup stray'
  BY DEF ListedInv
<1>1. Deleting /\ objects \subseteq todo[d] \cup stray
  BY DEF Deleting, Inv, ListedInv
<1>2. objects' = objects \cup {p} /\ stray' = stray \cup {p}
  BY <1>1 DEF Upload
<1> QED BY <1>1, <1>2

LEMMA UploadIsExplained ==
    ASSUME Inv, NEW p \in Path, Upload(p), UNCHANGED room, ~NobodyHolds(p)',
           \A q \in Path : q # p /\ NobodyHolds(q)' => NobodyHolds(q)
    PROVE  OrphansExplained'
<1> SUFFICES ASSUME room = "gone", NEW q \in objects', NobodyHolds(q)'
             PROVE  q \in stray'
  BY DEF OrphansExplained
<1>1. q # p /\ q \in objects /\ q \in Path
  BY Types DEF Upload
<1>2. q \in stray
  BY <1>1 DEF Inv, OrphansExplained
<1> QED BY <1>1, <1>2 DEF Upload

\* The sets of files keep their types.
LEMMA UploadTypes ==
    ASSUME Inv, NEW p \in Path, Upload(p)
    PROVE  objects' \subseteq Path /\ stray' \subseteq Path
BY Types DEF Upload

-------------------------------------------------------------------------------
\* upload_voice_message

LEMMA VoiceClaimInv ==
    ASSUME Inv, NEW v \in Voices, VoiceClaim(v)
    PROVE  Inv'
<1>1. /\ at[v] = "idle" /\ Goes(v, "claimed")
      /\ UNCHANGED <<record, sent, room, row, token, job, tries, objects, todo, seen, work, linked, stray>>
  BY DEF VoiceClaim, dbVars, historyVars
<1>2. /\ at' \in [Request -> {"idle", "claimed", "uploaded", "stored", "deleting"}]
      /\ PlacesInv'
      /\ \A d \in Deleters : at'[d] = at[d]
      /\ \A u \in Voices : at'[u] = IF u = v THEN "claimed" ELSE at[u]
      /\ DeletionBegan' <=> DeletionBegan
  BY <1>1, VoiceMoves
<1>3. TypeOK'
  BY <1>1, <1>2 DEF Inv, TypeOK, RecordsTypeOK
<1>4. JobsInv'
  BY <1>1 DEF Inv, JobsInv
<1>5. FilesInv'
  BY <1>1, <1>2, FilesStay
<1>6. ListedInv'
  BY <1>1, <1>2, ListedStays
<1>7. OrphansExplained'
  BY <1>1, <1>2, HandsStay, OrphansStay
<1> QED BY <1>2, <1>3, <1>4, <1>5, <1>6, <1>7 DEF Inv

\* The store refuses a path that is taken: the uploader is alone with its file.
LEMMA VoiceUploadInv ==
    ASSUME Inv, NEW v \in Voices, VoiceUpload(v)
    PROVE  Inv'
<1> DEFINE p == PathOf[v]
<1>1. /\ at[v] = "claimed" /\ Goes(v, "uploaded") /\ Upload(p) /\ p \in Path /\ p \in VoicePath
      /\ UNCHANGED <<record, sent, room, row, token, job, tries, todo, seen, work, linked>>
  BY Kinds DEF VoiceUpload, dbVars
<1>2. /\ at' \in [Request -> {"idle", "claimed", "uploaded", "stored", "deleting"}]
      /\ PlacesInv'
      /\ \A d \in Deleters : at'[d] = at[d]
      /\ \A u \in Voices : at'[u] = IF u = v THEN "uploaded" ELSE at[u]
      /\ DeletionBegan' <=> DeletionBegan
  BY <1>1, VoiceMoves
<1>3. TypeOK'
  <2>1. objects' \subseteq Path /\ stray' \subseteq Path
    BY <1>1, UploadTypes
  <2> QED BY <1>1, <1>2, <2>1 DEF Inv, TypeOK, RecordsTypeOK
<1>4. JobsInv'
  BY <1>1 DEF Inv, JobsInv
<1>5. FilesInv'
  <2> SUFFICES ASSUME ~DeletionBegan
               PROVE  (HoldersInv /\ \A q \in Path : row[q] = "ready" => q \in objects)'
    BY <1>2 DEF FilesInv
  <2>1. HoldersInv /\ \A q \in Path : row[q] = "ready" => q \in objects
    BY DEF Inv, FilesInv
  <2>2. p \notin objects /\ objects' = objects \cup {p} /\ row' = row /\ work' = work
    BY <1>1 DEF Upload, CanUpload
  <2>3. row[p] # "ready" /\ \A u \in Voices : at[u] = "uploaded" => PathOf[u] # p
    BY <1>1, <2>1, <2>2 DEF HoldersInv, VoiceHolds, InHand
  <2>4. \A u \in Voices : VoiceHolds(u)' => InHand(PathOf[u])'
    BY <1>2, <2>1, <2>2, <2>3 DEF HoldersInv, VoiceHolds, InHand
  <2>5. \A u, x \in Voices : VoiceHolds(u)' /\ VoiceHolds(x)' /\ PathOf[u] = PathOf[x] => u = x
    BY <1>2, <2>1, <2>3 DEF HoldersInv, VoiceHolds
  <2>6. \A w \in Worker : WorkerHolds(w)' => InHand(work[w].path)'
    BY <2>1, <2>2 DEF HoldersInv, WorkerHolds, InHand
  <2>7. \A w, x \in Worker :
          WorkerHolds(w)' /\ WorkerHolds(x)' /\ work'[w].path = work'[x].path => w = x
    BY <2>1, <2>2 DEF HoldersInv, WorkerHolds
  <2> QED BY <2>1, <2>2, <2>4, <2>5, <2>6, <2>7 DEF HoldersInv
<1>6. ListedInv'
  BY <1>1, <1>2, UploadIsListed
<1>7. OrphansExplained'
  <2>1. ~NobodyHolds(p)'
    BY <1>2 DEF NobodyHolds
  <2>2. \A q \in Path : NobodyHolds(q)' => NobodyHolds(q)
    BY <1>1, <1>2, HandsStay
  <2> QED BY <1>1, <2>1, <2>2, UploadIsExplained
<1> QED BY <1>2, <1>3, <1>4, <1>5, <1>6, <1>7 DEF Inv

\* The row becomes ready over a file that is there.
LEMMA VoiceStoreInv ==
    ASSUME Inv, NEW v \in Voices, VoiceStore(v)
    PROVE  Inv'
<1> DEFINE p == PathOf[v]
<1>1. /\ at[v] = "uploaded" /\ Goes(v, "stored") /\ p \in Path /\ p \in VoicePath
      /\ room = "open" /\ row' = [row EXCEPT ![p] = "ready"] /\ linked' = linked \cup {p}
      /\ record' = WithRecord(v, ClaimedRecord(v))
      /\ UNCHANGED <<sent, room, token, job, tries, objects, todo, seen, work, stray>>
  BY Kinds DEF VoiceStore
<1>2. /\ at' \in [Request -> {"idle", "claimed", "uploaded", "stored", "deleting"}]
      /\ PlacesInv'
      /\ \A d \in Deleters : at'[d] = at[d]
      /\ \A u \in Voices : at'[u] = IF u = v THEN "stored" ELSE at[u]
      /\ DeletionBegan' <=> DeletionBegan
  BY <1>1, VoiceMoves
<1>3. TypeOK'
  <2>1. record' \in [Key -> Record] /\ linked' \subseteq Path
        /\ row' \in [Path -> {"none", "processing", "ready", "failed"}]
    BY <1>1, Kinds, Types, WrittenRecords
  <2> QED BY <1>1, <1>2, <2>1 DEF Inv, TypeOK, RecordsTypeOK
<1>4. JobsInv'
  BY <1>1 DEF Inv, JobsInv
<1>5. FilesInv'
  <2> SUFFICES ASSUME ~DeletionBegan
               PROVE  (HoldersInv /\ \A q \in Path : row[q] = "ready" => q \in objects)'
    BY <1>2 DEF FilesInv
  <2>1. HoldersInv /\ \A q \in Path : row[q] = "ready" => q \in objects
    BY DEF Inv, FilesInv
  <2>2. p \in objects /\ objects' = objects /\ work' = work
    BY <1>1, <2>1 DEF HoldersInv, VoiceHolds, InHand
  <2>3. \A q \in Path : row'[q] = IF q = p THEN "ready" ELSE row[q]
    BY <1>1, Types
  <2>4. \A u \in Voices : VoiceHolds(u)' => VoiceHolds(u) /\ PathOf[u] # p
    BY <1>1, <1>2, <2>1 DEF HoldersInv, VoiceHolds
  <2>5. \A u \in Voices : VoiceHolds(u)' => InHand(PathOf[u])'
    BY <2>1, <2>2, <2>3, <2>4, Kinds DEF HoldersInv, InHand
  <2>6. \A u, x \in Voices : VoiceHolds(u)' /\ VoiceHolds(x)' /\ PathOf[u] = PathOf[x] => u = x
    BY <2>1, <2>4 DEF HoldersInv
  <2>7. \A w \in Worker : WorkerHolds(w)' => InHand(work[w].path)'
    <3>1. \A w \in Worker : WorkerHolds(w) => work[w].path \in Path /\ work[w].path # p
      BY <1>1, Kinds DEF Inv, PlacesInv, WorkerHolds
    <3> QED BY <2>1, <2>2, <2>3, <3>1 DEF HoldersInv, WorkerHolds, InHand
  <2>8. \A w, x \in Worker :
          WorkerHolds(w)' /\ WorkerHolds(x)' /\ work'[w].path = work'[x].path => w = x
    BY <2>1, <2>2 DEF HoldersInv, WorkerHolds
  <2> QED BY <2>1, <2>2, <2>3, <2>5, <2>6, <2>7, <2>8 DEF HoldersInv
<1>6. ListedInv'
  BY <1>1, <1>2, ListedStays
<1>7. OrphansExplained'
  BY <1>1 DEF OrphansExplained
<1> QED BY <1>2, <1>3, <1>4, <1>5, <1>6, <1>7 DEF Inv

\* A request that cleans up removes the file that is in its own hands.
LEMMA VoiceRejectInv ==
    ASSUME Inv, NEW v \in Voices, VoiceReject(v)
    PROVE  Inv'
<1> DEFINE p == PathOf[v]
<1>1. /\ at[v] = "uploaded" /\ Goes(v, "idle") /\ p \in Path /\ p \in VoicePath
      /\ objects' = objects \ {p}
      /\ UNCHANGED <<record, sent, room, row, token, job, tries, todo, seen, work, linked, stray>>
  BY Kinds DEF VoiceReject, dbVars, historyVars
<1>2. /\ at' \in [Request -> {"idle", "claimed", "uploaded", "stored", "deleting"}]
      /\ PlacesInv'
      /\ \A d \in Deleters : at'[d] = at[d]
      /\ \A u \in Voices : at'[u] = IF u = v THEN "idle" ELSE at[u]
      /\ DeletionBegan' <=> DeletionBegan
  BY <1>1, VoiceMoves
<1>3. TypeOK'
  BY <1>1, <1>2 DEF Inv, TypeOK, RecordsTypeOK
<1>4. JobsInv'
  BY <1>1 DEF Inv, JobsInv
<1>5. FilesInv'
  <2> SUFFICES ASSUME ~DeletionBegan
               PROVE  (HoldersInv /\ \A q \in Path : row[q] = "ready" => q \in objects)'
    BY <1>2 DEF FilesInv
  <2>1. HoldersInv /\ \A q \in Path : row[q] = "ready" => q \in objects
    BY DEF Inv, FilesInv
  <2>2. row[p] # "ready" /\ row' = row /\ work' = work
    BY <1>1, <2>1 DEF HoldersInv, VoiceHolds, InHand
  <2>3. \A u \in Voices : VoiceHolds(u)' => VoiceHolds(u) /\ PathOf[u] # p
    BY <1>1, <1>2, <2>1 DEF HoldersInv, VoiceHolds
  <2>4. \A u \in Voices : VoiceHolds(u)' => InHand(PathOf[u])'
    BY <1>1, <2>1, <2>2, <2>3 DEF HoldersInv, InHand
  <2>5. \A u, x \in Voices : VoiceHolds(u)' /\ VoiceHolds(x)' /\ PathOf[u] = PathOf[x] => u = x
    BY <2>1, <2>3 DEF HoldersInv
  <2>6. \A w \in Worker : WorkerHolds(w)' => InHand(work[w].path)'
    <3>1. \A w \in Worker : WorkerHolds(w) => work[w].path # p
      BY <1>1, Kinds DEF Inv, PlacesInv, WorkerHolds
    <3> QED BY <1>1, <2>1, <2>2, <3>1 DEF HoldersInv, WorkerHolds, InHand
  <2>7. \A w, x \in Worker :
          WorkerHolds(w)' /\ WorkerHolds(x)' /\ work'[w].path = work'[x].path => w = x
    BY <2>1, <2>2 DEF HoldersInv, WorkerHolds
  <2> QED BY <1>1, <2>1, <2>2, <2>4, <2>5, <2>6, <2>7 DEF HoldersInv
<1>6. ListedInv'
  BY <1>1, <1>2, ListedStays
<1>7. OrphansExplained'
  <2>1. ASSUME NEW q \in objects', NobodyHolds(q)' PROVE NobodyHolds(q)
    BY <1>1, <1>2, <2>1 DEF NobodyHolds
  <2> QED BY <1>1, <2>1, OrphansStay
<1> QED BY <1>2, <1>3, <1>4, <1>5, <1>6, <1>7 DEF Inv

LEMMA VoiceCompleteInv ==
    ASSUME Inv, NEW v \in Voices, VoiceComplete(v)
    PROVE  Inv'
<1>1. /\ at[v] = "stored" /\ Goes(v, "idle") /\ record' = WithRecord(v, CompletedRecord(v))
      /\ UNCHANGED <<sent, room, row, token, job, tries, objects, todo, seen, work, linked, stray>>
  BY DEF VoiceComplete, dbVars, historyVars
<1>2. /\ at' \in [Request -> {"idle", "claimed", "uploaded", "stored", "deleting"}]
      /\ PlacesInv'
      /\ \A d \in Deleters : at'[d] = at[d]
      /\ \A u \in Voices : at'[u] = IF u = v THEN "idle" ELSE at[u]
      /\ DeletionBegan' <=> DeletionBegan
  BY <1>1, VoiceMoves
<1>3. TypeOK'
  <2>1. record' \in [Key -> Record]
    BY <1>1, Kinds, WrittenRecords
  <2> QED BY <1>1, <1>2, <2>1 DEF Inv, TypeOK, RecordsTypeOK
<1>4. JobsInv'
  BY <1>1 DEF Inv, JobsInv
<1>5. FilesInv'
  BY <1>1, <1>2, FilesStay
<1>6. ListedInv'
  BY <1>1, <1>2, ListedStays
<1>7. OrphansExplained'
  BY <1>1, <1>2, HandsStay, OrphansStay
<1> QED BY <1>2, <1>3, <1>4, <1>5, <1>6, <1>7 DEF Inv

\* A request that dies with a file in its hands leaves a stray one.
LEMMA VoiceStopInv ==
    ASSUME Inv, NEW v \in Voices, VoiceStop(v)
    PROVE  Inv'
<1>1. /\ Goes(v, "idle")
      /\ stray' = IF at[v] = "uploaded" THEN stray \cup {PathOf[v]} ELSE stray
      /\ UNCHANGED <<record, sent, room, row, token, job, tries, objects, todo, seen, work, linked>>
  BY DEF VoiceStop, dbVars
<1>2. /\ at' \in [Request -> {"idle", "claimed", "uploaded", "stored", "deleting"}]
      /\ PlacesInv'
      /\ \A d \in Deleters : at'[d] = at[d]
      /\ \A u \in Voices : at'[u] = IF u = v THEN "idle" ELSE at[u]
      /\ DeletionBegan' <=> DeletionBegan
  BY <1>1, VoiceMoves
<1>3. TypeOK'
  BY <1>1, <1>2, Kinds DEF Inv, TypeOK, RecordsTypeOK
<1>4. JobsInv'
  BY <1>1 DEF Inv, JobsInv
<1>5. FilesInv'
  BY <1>1, <1>2, FilesStay
<1>6. ListedInv'
  BY <1>1, <1>2, ListedStays
<1>7. OrphansExplained'
  <2>1. ASSUME NEW q \in objects', NobodyHolds(q)' PROVE NobodyHolds(q) \/ q \in stray'
    BY <1>1, <1>2, <2>1 DEF NobodyHolds
  <2> QED BY <1>1, <2>1, OrphansStay
<1> QED BY <1>2, <1>3, <1>4, <1>5, <1>6, <1>7 DEF Inv

-------------------------------------------------------------------------------
\* TTS jobs

\* A worker that moves, moves alone.
LEMMA WorkerMoves ==
    ASSUME Inv, NEW w \in Worker, NEW r \in Works, r.step # "idle" => r.path \in TtsPath,
           work' = [work EXCEPT ![w] = r], UNCHANGED <<at, seen>>
    PROVE  /\ work' \in [Worker -> Works] /\ PlacesInv'
           /\ \A x \in Worker : work'[x] = IF x = w THEN r ELSE work[x]
           /\ DeletionBegan' <=> DeletionBegan
<1>1. /\ work' \in [Worker -> Works]
      /\ \A x \in Worker : work'[x] = IF x = w THEN r ELSE work[x]
  BY Types
<1>2. PlacesInv'
  BY <1>1 DEF Inv, PlacesInv
<1> QED BY <1>1, <1>2, DeletionStays

\* A worker with nothing to do.
LEMMA IdleIsWork == Idle \in Works /\ Idle.step = "idle"
<1>1. 0 \in 0 .. MaxToken
  BY RoomDeletionAssumption
<1> QED BY <1>1 DEF Idle, Works

LEMMA TtsClaimInv ==
    ASSUME Inv, NEW w \in Worker, NEW p \in TtsPath, TtsClaim(w, p)
    PROVE  Inv'
<1> DEFINE r == [step |-> "executing", path |-> p, token |-> token[p]]
<1>1. /\ work[w].step = "idle" /\ job[p] = "queued" /\ row[p] = "processing"
      /\ job' = [job EXCEPT ![p] = "processing"] /\ tries' = [tries EXCEPT ![p] = @ + 1]
      /\ work' = [work EXCEPT ![w] = r]
      /\ UNCHANGED <<record, sent, room, row, token, objects, at, todo, seen, linked, stray>>
  BY DEF TtsClaim, historyVars
<1>2. r \in Works /\ r.step = "executing" /\ r.path = p
  <2>1. token[p] \in 0 .. MaxToken
    BY Types
  <2> QED BY <2>1 DEF Works
<1> HIDE DEF r
<1>3. /\ work' \in [Worker -> Works] /\ PlacesInv'
      /\ \A x \in Worker : work'[x] = IF x = w THEN r ELSE work[x]
      /\ DeletionBegan' <=> DeletionBegan
  BY <1>1, <1>2, WorkerMoves
<1>4. tries[p] < MaxAttempts /\ room # "gone"
  BY <1>1, Kinds DEF Inv, JobsInv
<1>5. TypeOK'
  <2>1. tries[p] + 1 \in 0 .. MaxAttempts
    BY <1>4, Types, RoomDeletionAssumption
  <2>2. /\ tries' \in [TtsPath -> 0 .. MaxAttempts]
        /\ job' \in [TtsPath -> {"queued", "processing", "ended"}]
    BY <1>1, <2>1, Types
  <2> QED BY <1>1, <1>3, <2>2 DEF Inv, TypeOK, RecordsTypeOK, Works
<1>6. JobsInv'
  BY <1>1, <1>4, Types DEF Inv, JobsInv
<1>7. FilesInv'
  BY <1>1, <1>2, <1>3, FilesStay
<1>8. ListedInv'
  BY <1>1, ListedStays
<1>9. OrphansExplained'
  BY <1>1, <1>2, <1>3, HandsStay, OrphansStay
<1> QED BY <1>3, <1>5, <1>6, <1>7, <1>8, <1>9 DEF Inv

\* The worker that uploads is alone with its file, as a request is.
LEMMA TtsUploadInv ==
    ASSUME Inv, NEW w \in Worker, TtsUpload(w)
    PROVE  Inv'
<1> DEFINE r == [work[w] EXCEPT !.step = "uploaded"]
<1>0. PICK p \in TtsPath : p = work[w].path
  BY DEF TtsUpload, Inv, PlacesInv
<1>1. /\ work[w].step = "executing" /\ Upload(p)
      /\ UNCHANGED <<record, sent, room, row, token, job, tries, at, todo, seen, linked>>
  BY <1>0 DEF TtsUpload, dbVars
<1>2. p \in TtsPath /\ p \in Path /\ p \notin VoicePath
  BY Kinds
<1>3. r \in Works /\ r.step = "uploaded" /\ r.path = p
  BY <1>0, Types DEF Works
<1>4. work' = [work EXCEPT ![w] = r]
  BY Types DEF TtsUpload
<1> HIDE DEF r
<1>5. /\ work' \in [Worker -> Works] /\ PlacesInv'
      /\ \A x \in Worker : work'[x] = IF x = w THEN r ELSE work[x]
      /\ DeletionBegan' <=> DeletionBegan
  BY <1>1, <1>2, <1>3, <1>4, WorkerMoves
<1>6. TypeOK'
  <2>1. objects' \subseteq Path /\ stray' \subseteq Path
    BY <1>1, <1>2, UploadTypes
  <2> QED BY <1>1, <1>5, <2>1 DEF Inv, TypeOK, RecordsTypeOK, Works
<1>7. JobsInv'
  BY <1>1 DEF Inv, JobsInv
<1>8. FilesInv'
  <2> SUFFICES ASSUME ~DeletionBegan
               PROVE  (HoldersInv /\ \A q \in Path : row[q] = "ready" => q \in objects)'
    BY <1>5 DEF FilesInv
  <2>1. HoldersInv /\ \A q \in Path : row[q] = "ready" => q \in objects
    BY DEF Inv, FilesInv
  <2>2. p \notin objects /\ objects' = objects \cup {p} /\ row' = row /\ at' = at
    BY <1>1 DEF Upload, CanUpload
  <2>3. row[p] # "ready" /\ \A x \in Worker : WorkerHolds(x) => work[x].path # p
    BY <1>2, <2>1, <2>2 DEF HoldersInv, InHand
  <2>4. \A v \in Voices : VoiceHolds(v)' => InHand(PathOf[v])'
    BY <2>1, <2>2 DEF HoldersInv, VoiceHolds, InHand
  <2>5. \A u, v \in Voices : VoiceHolds(u)' /\ VoiceHolds(v)' /\ PathOf[u] = PathOf[v] => u = v
    BY <2>1, <2>2 DEF HoldersInv, VoiceHolds
  <2>6. \A x \in Worker : WorkerHolds(x)' => InHand(work[x].path)'
    BY <1>3, <1>5, <2>1, <2>2, <2>3 DEF HoldersInv, WorkerHolds, InHand
  <2>7. \A x, y \in Worker :
          WorkerHolds(x)' /\ WorkerHolds(y)' /\ work'[x].path = work'[y].path => x = y
    BY <1>3, <1>5, <2>1, <2>3 DEF HoldersInv, WorkerHolds
  <2> QED BY <2>1, <2>2, <2>4, <2>5, <2>6, <2>7 DEF HoldersInv
<1>9. ListedInv'
  BY <1>1, UploadIsListed
<1>10. OrphansExplained'
  <2>1. ~NobodyHolds(p)'
    BY <1>3, <1>5 DEF NobodyHolds
  <2>2. \A q \in Path : NobodyHolds(q)' => NobodyHolds(q)
    BY <1>1, <1>3, <1>5, HandsStay
  <2> QED BY <1>1, <1>2, <2>1, <2>2, UploadIsExplained
<1> QED BY <1>5, <1>6, <1>7, <1>8, <1>9, <1>10 DEF Inv

\* The row that waits for the worker's token becomes ready over the worker's file.
LEMMA TtsStoreInv ==
    ASSUME Inv, NEW w \in Worker, TtsStore(w)
    PROVE  Inv'
<1> DEFINE p == work[w].path
<1>1. /\ work[w].step = "uploaded" /\ row[p] = "processing"
      /\ row' = [row EXCEPT ![p] = "ready"] /\ job' = [job EXCEPT ![p] = "ended"]
      /\ linked' = linked \cup {p} /\ work' = [work EXCEPT ![w] = Idle]
      /\ UNCHANGED <<record, sent, room, token, tries, objects, at, todo, seen, stray>>
  BY DEF TtsStore, IsCurrent
<1>2. p \in TtsPath /\ p \in Path /\ p \notin VoicePath
  BY <1>1, Kinds DEF Inv, PlacesInv
<1> HIDE DEF p
<1>3. /\ work' \in [Worker -> Works] /\ PlacesInv'
      /\ \A x \in Worker : work'[x] = IF x = w THEN Idle ELSE work[x]
      /\ DeletionBegan' <=> DeletionBegan
  BY <1>1, IdleIsWork, WorkerMoves
<1>4. room # "gone"
  BY <1>1, <1>2 DEF Inv, JobsInv
<1>5. TypeOK'
  <2>1. /\ row' \in [Path -> {"none", "processing", "ready", "failed"}]
        /\ job' \in [TtsPath -> {"queued", "processing", "ended"}]
        /\ linked' \subseteq Path
    BY <1>1, <1>2, Types
  <2> QED BY <1>1, <1>3, <2>1 DEF Inv, TypeOK, RecordsTypeOK, Works
<1>6. JobsInv'
  BY <1>1, <1>4, Types DEF Inv, JobsInv
<1>7. FilesInv'
  <2> SUFFICES ASSUME ~DeletionBegan
               PROVE  (HoldersInv /\ \A q \in Path : row[q] = "ready" => q \in objects)'
    BY <1>3 DEF FilesInv
  <2>1. HoldersInv /\ \A q \in Path : row[q] = "ready" => q \in objects
    BY DEF Inv, FilesInv
  <2>2. p \in objects /\ objects' = objects /\ at' = at
    BY <1>1, <2>1 DEF HoldersInv, WorkerHolds, InHand, p
  <2>3. \A q \in Path : row'[q] = IF q = p THEN "ready" ELSE row[q]
    BY <1>1, Types
  <2>4. \A x \in Worker : WorkerHolds(x)' =>
           WorkerHolds(x) /\ work'[x] = work[x] /\ work[x].path \in Path /\ work[x].path # p
    <3>1. \A x \in Worker : WorkerHolds(x)' => WorkerHolds(x) /\ work'[x] = work[x] /\ x # w
      BY <1>3, IdleIsWork DEF WorkerHolds
    <3>2. \A x \in Worker : WorkerHolds(x) => work[x].path \in Path
      BY Kinds DEF Inv, PlacesInv, WorkerHolds
    <3>3. \A x \in Worker : WorkerHolds(x) /\ x # w => work[x].path # p
      BY <1>1, <2>1 DEF HoldersInv, WorkerHolds, p
    <3> QED BY <3>1, <3>2, <3>3
  <2>5. \A v \in Voices : VoiceHolds(v)' => InHand(PathOf[v])'
    BY <1>2, <2>1, <2>2, <2>3, Kinds DEF HoldersInv, VoiceHolds, InHand
  <2>6. \A u, v \in Voices : VoiceHolds(u)' /\ VoiceHolds(v)' /\ PathOf[u] = PathOf[v] => u = v
    BY <2>1, <2>2 DEF HoldersInv, VoiceHolds
  <2>7. \A x \in Worker : WorkerHolds(x)' => InHand(work[x].path)'
    BY <2>1, <2>2, <2>3, <2>4 DEF HoldersInv, InHand
  <2>8. \A x, y \in Worker :
          WorkerHolds(x)' /\ WorkerHolds(y)' /\ work'[x].path = work'[y].path => x = y
    BY <2>1, <2>4 DEF HoldersInv
  <2> QED BY <2>1, <2>2, <2>3, <2>5, <2>6, <2>7, <2>8 DEF HoldersInv
<1>8. ListedInv'
  BY <1>1, ListedStays
<1>9. OrphansExplained'
  BY <1>1, <1>4 DEF OrphansExplained
<1> QED BY <1>3, <1>5, <1>6, <1>7, <1>8, <1>9 DEF Inv

\* A worker whose token is stale removes the file that is in its own hands.
LEMMA TtsStaleInv ==
    ASSUME Inv, NEW w \in Worker, TtsStale(w)
    PROVE  Inv'
<1> DEFINE p == work[w].path
<1>1. /\ work[w].step = "uploaded" /\ objects' = objects \ {p} /\ work' = [work EXCEPT ![w] = Idle]
      /\ UNCHANGED <<record, sent, room, row, token, job, tries, at, todo, seen, linked, stray>>
  BY DEF TtsStale, dbVars, historyVars
<1>2. p \in TtsPath /\ p \in Path /\ p \notin VoicePath
  BY <1>1, Kinds DEF Inv, PlacesInv
<1> HIDE DEF p
<1>3. /\ work' \in [Worker -> Works] /\ PlacesInv'
      /\ \A x \in Worker : work'[x] = IF x = w THEN Idle ELSE work[x]
      /\ DeletionBegan' <=> DeletionBegan
  BY <1>1, IdleIsWork, WorkerMoves
<1>4. TypeOK'
  BY <1>1, <1>3 DEF Inv, TypeOK, RecordsTypeOK, Works
<1>5. JobsInv'
  BY <1>1 DEF Inv, JobsInv
<1>6. FilesInv'
  <2> SUFFICES ASSUME ~DeletionBegan
               PROVE  (HoldersInv /\ \A q \in Path : row[q] = "ready" => q \in objects)'
    BY <1>3 DEF FilesInv
  <2>1. HoldersInv /\ \A q \in Path : row[q] = "ready" => q \in objects
    BY DEF Inv, FilesInv
  <2>2. row[p] # "ready" /\ row' = row /\ at' = at
    BY <1>1, <2>1 DEF HoldersInv, WorkerHolds, InHand, p
  <2>3. \A x \in Worker : WorkerHolds(x)' =>
           WorkerHolds(x) /\ work'[x] = work[x] /\ work[x].path # p
    <3>1. \A x \in Worker : WorkerHolds(x)' => WorkerHolds(x) /\ work'[x] = work[x] /\ x # w
      BY <1>3, IdleIsWork DEF WorkerHolds
    <3>2. \A x \in Worker : WorkerHolds(x) /\ x # w => work[x].path # p
      BY <1>1, <2>1 DEF HoldersInv, WorkerHolds, p
    <3> QED BY <3>1, <3>2
  <2>4. \A v \in Voices : VoiceHolds(v)' => InHand(PathOf[v])'
    BY <1>1, <1>2, <2>1, <2>2, Kinds DEF HoldersInv, VoiceHolds, InHand
  <2>5. \A u, v \in Voices : VoiceHolds(u)' /\ VoiceHolds(v)' /\ PathOf[u] = PathOf[v] => u = v
    BY <2>1, <2>2 DEF HoldersInv, VoiceHolds
  <2>6. \A x \in Worker : WorkerHolds(x)' => InHand(work[x].path)'
    BY <1>1, <2>1, <2>2, <2>3 DEF HoldersInv, InHand
  <2>7. \A x, y \in Worker :
          WorkerHolds(x)' /\ WorkerHolds(y)' /\ work'[x].path = work'[y].path => x = y
    BY <2>1, <2>3 DEF HoldersInv
  <2> QED BY <1>1, <2>1, <2>2, <2>4, <2>5, <2>6, <2>7 DEF HoldersInv
<1>7. ListedInv'
  BY <1>1, ListedStays
<1>8. OrphansExplained'
  <2>1. ASSUME NEW q \in objects', NobodyHolds(q)' PROVE NobodyHolds(q)
    <3>1. q # p
      BY <1>1
    <3>2. \A x \in Worker : work[x].step = "uploaded" => work[x].path # q
      BY <1>3, <2>1, <3>1 DEF NobodyHolds, p
    <3> QED BY <1>1, <2>1, <3>2 DEF NobodyHolds
  <2> QED BY <1>1, <2>1, OrphansStay
<1> QED BY <1>3, <1>4, <1>5, <1>6, <1>7, <1>8 DEF Inv

LEMMA TtsFailInv ==
    ASSUME Inv, NEW w \in Worker, TtsFail(w)
    PROVE  Inv'
<1> DEFINE p == work[w].path
<1>1. /\ work[w].step = "executing" /\ work' = [work EXCEPT ![w] = Idle]
      /\ UNCHANGED <<record, sent, room, token, tries, objects, at, todo, seen, linked, stray>>
  BY DEF TtsFail, historyVars
<1>2. p \in TtsPath /\ p \in Path
  BY <1>1, Kinds DEF Inv, PlacesInv
<1>3. \/ UNCHANGED <<job, row>>
      \/ /\ row[p] = "processing" /\ tries[p] < MaxAttempts
         /\ job' = [job EXCEPT ![p] = "queued"] /\ UNCHANGED row
      \/ /\ row[p] = "processing"
         /\ job' = [job EXCEPT ![p] = "ended"] /\ row' = [row EXCEPT ![p] = "failed"]
  BY DEF TtsFail, IsCurrent
<1> HIDE DEF p
<1>4. /\ work' \in [Worker -> Works] /\ PlacesInv'
      /\ \A x \in Worker : work'[x] = IF x = w THEN Idle ELSE work[x]
      /\ DeletionBegan' <=> DeletionBegan
  BY <1>1, IdleIsWork, WorkerMoves
<1>5. /\ job' \in [TtsPath -> {"queued", "processing", "ended"}]
      /\ row' \in [Path -> {"none", "processing", "ready", "failed"}]
      /\ \A q \in Path : row'[q] = "ready" => row[q] = "ready"
      /\ \A q \in TtsPath : job'[q] = "queued" => job[q] = "queued" \/ tries[q] < MaxAttempts
  BY <1>2, <1>3, Types
<1>6. TypeOK'
  BY <1>1, <1>4, <1>5 DEF Inv, TypeOK, RecordsTypeOK, Works
<1>7. JobsInv'
  <2>1. room = "gone" => UNCHANGED <<job, row>>
    BY <1>2, <1>3 DEF Inv, JobsInv
  <2> QED BY <1>1, <1>5, <2>1 DEF Inv, JobsInv
<1>8. FilesInv'
  BY <1>1, <1>4, <1>5, IdleIsWork, FilesStay
<1>9. ListedInv'
  BY <1>1, ListedStays
<1>10. OrphansExplained'
  BY <1>1, <1>4, HandsStay, OrphansStay
<1> QED BY <1>4, <1>6, <1>7, <1>8, <1>9, <1>10 DEF Inv

\* A worker that dies with a file in its hands leaves a stray one.
LEMMA TtsCrashInv ==
    ASSUME Inv, NEW w \in Worker, TtsCrash(w)
    PROVE  Inv'
<1>1. /\ work[w].step # "idle" /\ work' = [work EXCEPT ![w] = Idle]
      /\ stray' = IF work[w].step = "uploaded" THEN stray \cup {work[w].path} ELSE stray
      /\ UNCHANGED <<record, sent, room, row, token, job, tries, objects, at, todo, seen, linked>>
  BY DEF TtsCrash, dbVars
<1>2. work[w].path \in Path
  BY <1>1, Kinds DEF Inv, PlacesInv
<1>3. /\ work' \in [Worker -> Works] /\ PlacesInv'
      /\ \A x \in Worker : work'[x] = IF x = w THEN Idle ELSE work[x]
      /\ DeletionBegan' <=> DeletionBegan
  BY <1>1, IdleIsWork, WorkerMoves
<1>4. TypeOK'
  BY <1>1, <1>2, <1>3 DEF Inv, TypeOK, RecordsTypeOK, Works
<1>5. JobsInv'
  BY <1>1 DEF Inv, JobsInv
<1>6. FilesInv'
  BY <1>1, <1>3, IdleIsWork, FilesStay
<1>7. ListedInv'
  BY <1>1, ListedStays
<1>8. OrphansExplained'
  <2>1. ASSUME NEW q \in objects', NobodyHolds(q)' PROVE NobodyHolds(q) \/ q \in stray'
    <3>1. ASSUME q \notin stray' PROVE \A x \in Worker : work[x].step = "uploaded" => work[x].path # q
      BY <1>1, <1>3, <2>1, <3>1 DEF NobodyHolds
    <3> QED BY <1>1, <2>1, <3>1 DEF NobodyHolds
  <2> QED BY <1>1, <2>1, OrphansStay
<1> QED BY <1>3, <1>4, <1>5, <1>6, <1>7, <1>8 DEF Inv

\* The reaper and the retry change rows and jobs of a room that is there.
LEMMA ReapInv ==
    ASSUME Inv, NEW p \in TtsPath, Reap(p) \/ RetryTts(p)
    PROVE  Inv'
<1>1. UNCHANGED <<record, sent, room, objects, at, todo, seen, work, linked, stray>>
  BY DEF Reap, RetryTts, historyVars
<1>2. PICK r \in {"failed", "processing"}, j \in {"ended", "queued"} :
         row' = [row EXCEPT ![p] = r] /\ job' = [job EXCEPT ![p] = j]
  BY DEF Reap, RetryTts
<1>3. p \in Path /\ room # "gone"
  BY Kinds DEF Inv, JobsInv, Reap, RetryTts
<1>4. /\ tries' \in [TtsPath -> 0 .. MaxAttempts] /\ token' \in [TtsPath -> 1 .. MaxToken]
      /\ \A q \in TtsPath : job'[q] = "queued" => tries'[q] < MaxAttempts
  <2>1. CASE Reap(p)
    BY <2>1, Types DEF Reap, Inv, JobsInv
  <2>2. CASE RetryTts(p)
    <3>1. token[p] + 1 \in 1 .. MaxToken /\ 0 \in 0 .. MaxAttempts /\ 0 < MaxAttempts
      BY <2>2, Types, RoomDeletionAssumption DEF RetryTts
    <3> QED BY <2>2, <3>1, Types DEF RetryTts, Inv, JobsInv
  <2> QED BY <2>1, <2>2
<1>5. /\ job' \in [TtsPath -> {"queued", "processing", "ended"}]
      /\ row' \in [Path -> {"none", "processing", "ready", "failed"}]
      /\ \A q \in Path : row'[q] = "ready" => row[q] = "ready"
  BY <1>2, <1>3, Types
<1>6. TypeOK'
  BY <1>1, <1>4, <1>5 DEF Inv, TypeOK, RecordsTypeOK
<1>7. JobsInv'
  BY <1>1, <1>3, <1>4 DEF JobsInv
<1>8. PlacesInv' /\ (DeletionBegan' <=> DeletionBegan)
  BY <1>1, DeletionStays DEF Inv, PlacesInv
<1>9. FilesInv'
  BY <1>1, <1>5, <1>8, FilesStay
<1>10. ListedInv'
  BY <1>1, ListedStays
<1>11. OrphansExplained'
  BY <1>1, HandsStay, OrphansStay
<1> QED BY <1>6, <1>7, <1>8, <1>9, <1>10, <1>11 DEF Inv

-------------------------------------------------------------------------------
\* delete_room

\* A deletion that moves, moves alone.
LEMMA DeleterMoves ==
    ASSUME Inv, NEW d \in Deleters, NEW where \in {"idle", "deleting"},
           Goes(d, where), UNCHANGED work
    PROVE  /\ at' \in [Request -> {"idle", "claimed", "uploaded", "stored", "deleting"}]
           /\ PlacesInv'
           /\ \A v \in Voices : at'[v] = at[v]
           /\ \A e \in Deleters : at'[e] = IF e = d THEN where ELSE at[e]
<1>1. at' \in [Request -> {"idle", "claimed", "uploaded", "stored", "deleting"}]
  BY Kinds, Types DEF Goes
<1>2. /\ \A v \in Voices : at'[v] = at[v]
      /\ \A e \in Deleters : at'[e] = IF e = d THEN where ELSE at[e]
  BY Kinds, Types DEF Goes
<1>3. PlacesInv'
  BY <1>2 DEF Inv, PlacesInv
<1> QED BY <1>1, <1>2, <1>3

\* An answer is a sign that a deletion has begun.
LEMMA AnswerIsSeen ==
    ASSUME Inv, NEW d \in Deleters, NEW a \in {"deleted", "missing", "error"}, Answered(d, a)
    PROVE  /\ seen' \in [Deleters -> {"nothing", "deleted", "missing", "error"}]
           /\ DeletionBegan'
BY Types DEF Answered, DeletionBegan

LEMMA DeleteAnswersInv ==
    ASSUME Inv, NEW d \in Deleters, DeleteReplay(d) \/ DeleteMissing(d)
    PROVE  Inv'
<1>1. /\ Answered(d, "deleted") \/ Answered(d, "missing")
      /\ UNCHANGED <<record, sent, room, row, token, job, tries, objects, at, todo, work, linked, stray>>
  BY DEF DeleteReplay, DeleteMissing, dbVars, historyVars
<1>2. seen' \in [Deleters -> {"nothing", "deleted", "missing", "error"}] /\ DeletionBegan'
  BY <1>1, AnswerIsSeen
<1>3. TypeOK'
  BY <1>1, <1>2 DEF Inv, TypeOK, RecordsTypeOK
<1>4. PlacesInv' /\ JobsInv'
  BY <1>1 DEF Inv, PlacesInv, JobsInv
<1>5. FilesInv'
  BY <1>2 DEF FilesInv
<1>6. ListedInv' /\ OrphansExplained'
  BY <1>1, ListedStays, HandsStay, OrphansStay
<1> QED BY <1>3, <1>4, <1>5, <1>6 DEF Inv

\* The list of a deletion that starts is the store.
LEMMA DeleteStartInv ==
    ASSUME Inv, NEW d \in Deleters, DeleteStart(d)
    PROVE  Inv'
<1>1. /\ room = "open" /\ record' = WithRecord(d, ClaimedRecord(d))
      /\ todo' = [todo EXCEPT ![d] = objects] /\ Goes(d, "deleting")
      /\ UNCHANGED <<sent, room, row, token, job, tries, objects, seen, work, linked, stray>>
  BY DEF DeleteStart, dbVars, historyVars
<1>2. /\ at' \in [Request -> {"idle", "claimed", "uploaded", "stored", "deleting"}]
      /\ PlacesInv'
      /\ \A v \in Voices : at'[v] = at[v]
      /\ \A e \in Deleters : at'[e] = IF e = d THEN "deleting" ELSE at[e]
  BY <1>1, DeleterMoves
<1>3. record' \in [Key -> Record] /\ todo' \in [Deleters -> SUBSET Path]
      /\ \A e \in Deleters : todo'[e] = IF e = d THEN objects ELSE todo[e]
  BY <1>1, Kinds, Types, WrittenRecords
<1>4. TypeOK'
  BY <1>1, <1>2, <1>3 DEF Inv, TypeOK, RecordsTypeOK
<1>5. JobsInv'
  BY <1>1 DEF Inv, JobsInv
<1>6. FilesInv'
  BY <1>2 DEF FilesInv, DeletionBegan
<1>7. ListedInv'
  BY <1>1, <1>2, <1>3 DEF Inv, ListedInv
<1>8. OrphansExplained'
  BY <1>1 DEF OrphansExplained
<1> QED BY <1>2, <1>4, <1>5, <1>6, <1>7, <1>8 DEF Inv

\* A file that is struck off the list is gone from the store.
LEMMA DeleteObjectInv ==
    ASSUME Inv, NEW d \in Deleters, NEW p \in Path, DeleteObject(d, p)
    PROVE  Inv'
<1>1. /\ at[d] = "deleting" /\ objects' = objects \ {p} /\ todo' = [todo EXCEPT ![d] = @ \ {p}]
      /\ UNCHANGED <<record, sent, room, row, token, job, tries, at, seen, work, linked, stray>>
  BY DEF DeleteObject, dbVars, historyVars
<1>2. todo' \in [Deleters -> SUBSET Path]
      /\ \A e \in Deleters : todo'[e] = IF e = d THEN todo[e] \ {p} ELSE todo[e]
  BY <1>1, Types
<1>3. TypeOK'
  BY <1>1, <1>2 DEF Inv, TypeOK, RecordsTypeOK
<1>4. PlacesInv' /\ JobsInv'
  BY <1>1 DEF Inv, PlacesInv, JobsInv
<1>5. FilesInv'
  BY <1>1 DEF FilesInv, DeletionBegan
<1>6. ListedInv'
  BY <1>1, <1>2 DEF Inv, ListedInv
<1>7. OrphansExplained'
  <2>1. \A q \in objects' : NobodyHolds(q)' => NobodyHolds(q)
    BY <1>1, HandsStay
  <2> QED BY <1>1, <2>1, OrphansStay
<1> QED BY <1>3, <1>4, <1>5, <1>6, <1>7 DEF Inv

\* A deletion that gives up forgets its list.
LEMMA DeleteEndsInv ==
    ASSUME Inv, NEW d \in Deleters, DeleteFails(d) \/ DeleteStop(d)
    PROVE  Inv'
<1>1. /\ record' \in {record, WithRecord(d, FailedRecord(d))}
      /\ todo' = [todo EXCEPT ![d] = {}] /\ Goes(d, "idle")
      /\ Answered(d, "error") \/ Answered(d, "missing")
      /\ UNCHANGED <<sent, room, row, token, job, tries, objects, work, linked, stray>>
  BY DEF DeleteFails, DeleteStop, dbVars, historyVars
<1>2. /\ at' \in [Request -> {"idle", "claimed", "uploaded", "stored", "deleting"}]
      /\ PlacesInv'
      /\ \A v \in Voices : at'[v] = at[v]
      /\ \A e \in Deleters : at'[e] = IF e = d THEN "idle" ELSE at[e]
  BY <1>1, DeleterMoves
<1>3. seen' \in [Deleters -> {"nothing", "deleted", "missing", "error"}] /\ DeletionBegan'
  BY <1>1, AnswerIsSeen
<1>4. record' \in [Key -> Record] /\ todo' \in [Deleters -> SUBSET Path]
      /\ \A e \in Deleters : todo'[e] = IF e = d THEN {} ELSE todo[e]
  BY <1>1, Kinds, Types, WrittenRecords
<1>5. TypeOK'
  BY <1>1, <1>2, <1>3, <1>4 DEF Inv, TypeOK, RecordsTypeOK
<1>6. JobsInv'
  BY <1>1 DEF Inv, JobsInv
<1>7. FilesInv'
  BY <1>3 DEF FilesInv
<1>8. ListedInv'
  BY <1>1, <1>2, <1>4, ListedStays
<1>9. OrphansExplained'
  BY <1>1, <1>2, HandsStay, OrphansStay
<1> QED BY <1>2, <1>5, <1>6, <1>7, <1>8, <1>9 DEF Inv

\* The list is empty when the room goes: what is left was uploaded meanwhile.
LEMMA DeleteFinishInv ==
    ASSUME Inv, NEW d \in Deleters, DeleteFinish(d)
    PROVE  Inv'
<1>1. /\ at[d] = "deleting" /\ todo[d] = {} /\ room' = "gone"
      /\ row' = [p \in Path |-> "none"] /\ job' = [p \in TtsPath |-> "ended"]
      /\ record' = WithRecord(d, CompletedRecord(d)) /\ Goes(d, "idle") /\ Answered(d, "deleted")
      /\ UNCHANGED <<sent, token, tries, objects, todo, work, linked, stray>>
  BY DEF DeleteFinish, historyVars
<1>2. /\ at' \in [Request -> {"idle", "claimed", "uploaded", "stored", "deleting"}]
      /\ PlacesInv'
      /\ \A v \in Voices : at'[v] = at[v]
      /\ \A e \in Deleters : at'[e] = IF e = d THEN "idle" ELSE at[e]
  BY <1>1, DeleterMoves
<1>3. seen' \in [Deleters -> {"nothing", "deleted", "missing", "error"}] /\ DeletionBegan'
  BY <1>1, AnswerIsSeen
<1>4. TypeOK'
  <2>1. record' \in [Key -> Record]
    BY <1>1, Kinds, WrittenRecords
  <2> QED BY <1>1, <1>2, <1>3, <2>1 DEF Inv, TypeOK, RecordsTypeOK
<1>5. JobsInv'
  BY <1>1 DEF JobsInv
<1>6. FilesInv'
  BY <1>3 DEF FilesInv
<1>7. ListedInv'
  BY <1>1, <1>2, ListedStays
<1>8. OrphansExplained'
  <2>1. objects \subseteq stray
    BY <1>1 DEF Inv, ListedInv
  <2> QED BY <1>1, <2>1 DEF OrphansExplained
<1> QED BY <1>2, <1>4, <1>5, <1>6, <1>7, <1>8 DEF Inv

LEMMA TickInv ==
    ASSUME Inv, Tick
    PROVE  Inv'
<1>1. UNCHANGED <<sent, room, row, token, job, tries, objects, at, todo, seen, work, linked, stray>>
  BY DEF Tick, dbVars, historyVars
<1>2. record' \in [Key -> Record]
  <2>1. ASSUME NEW k \in Key
        PROVE  [record[k] EXCEPT !.lease = IF @ > 0 THEN @ - 1 ELSE 0] \in Record
    BY Types, RecordsAssumption DEF Record
  <2> QED BY <2>1 DEF Tick, LeasesRun
<1>3. TypeOK'
  BY <1>1, <1>2 DEF Inv, TypeOK, RecordsTypeOK
<1>4. PlacesInv' /\ JobsInv' /\ (DeletionBegan' <=> DeletionBegan)
  BY <1>1, DeletionStays DEF Inv, PlacesInv, JobsInv
<1>5. FilesInv' /\ ListedInv' /\ OrphansExplained'
  BY <1>1, <1>4, FilesStay, ListedStays, HandsStay, OrphansStay
<1> QED BY <1>3, <1>4, <1>5 DEF Inv

-------------------------------------------------------------------------------
LEMMA InitInv == Init => Inv
<1> SUFFICES ASSUME Init PROVE Inv
  OBVIOUS
<1>1. TypeOK
  <2>1. NoRecord \in Record
    BY RecordsAssumption DEF NoRecord, Record, RecordState
  <2>2. 1 \in 1 .. MaxToken /\ 0 \in 0 .. MaxAttempts
    BY RoomDeletionAssumption
  <2>3. work \in [Worker -> Works]
    BY IdleIsWork DEF Init
  <2> QED BY <2>1, <2>2, <2>3 DEF Init, RecordsInit, TypeOK, RecordsTypeOK, Works
<1>2. PlacesInv
  BY Kinds, IdleIsWork DEF Init, PlacesInv
<1>3. JobsInv
  BY RoomDeletionAssumption DEF Init, JobsInv
<1>4. FilesInv
  <2>1. HoldersInv
    BY Kinds, IdleIsWork DEF Init, HoldersInv, VoiceHolds, WorkerHolds
  <2>2. \A p \in Path : row[p] # "ready"
    BY DEF Init
  <2> QED BY <2>1, <2>2 DEF FilesInv
<1>5. ListedInv /\ OrphansExplained
  BY DEF Init, ListedInv, OrphansExplained
<1> QED BY <1>1, <1>2, <1>3, <1>4, <1>5 DEF Inv

LEMMA NextInv == Inv /\ [Next]_vars => Inv'
<1> SUFFICES ASSUME Inv, [Next]_vars PROVE Inv'
  OBVIOUS
<1>1. ASSUME NEW v \in Voices, Voice(v) PROVE Inv'
  BY <1>1, VoiceClaimInv, VoiceUploadInv, VoiceStoreInv, VoiceRejectInv, VoiceCompleteInv,
     VoiceStopInv DEF Voice
<1>2. ASSUME NEW w \in Worker, Consume(w) PROVE Inv'
  BY <1>2, TtsClaimInv, TtsUploadInv, TtsStoreInv, TtsStaleInv, TtsFailInv, TtsCrashInv
     DEF Consume
<1>3. ASSUME NEW p \in TtsPath, Reap(p) \/ RetryTts(p) PROVE Inv'
  BY <1>3, ReapInv
<1>4. ASSUME NEW d \in Deleters, Delete(d) PROVE Inv'
  BY <1>4, DeleteAnswersInv, DeleteStartInv, DeleteObjectInv, DeleteEndsInv, DeleteFinishInv
     DEF Delete
<1>5. CASE Tick
  BY <1>5, TickInv
<1>6. CASE UNCHANGED vars
  <2>1. UNCHANGED <<record, sent, room, row, token, job, tries, objects, at, todo, seen, work,
                    linked, stray>>
    BY <1>6 DEF vars
  <2>2. TypeOK' /\ PlacesInv' /\ JobsInv' /\ (DeletionBegan' <=> DeletionBegan)
    BY <2>1, DeletionStays DEF Inv, TypeOK, RecordsTypeOK, PlacesInv, JobsInv
  <2>3. FilesInv' /\ ListedInv' /\ OrphansExplained'
    BY <2>1, <2>2, FilesStay, ListedStays, HandsStay, OrphansStay
  <2> QED BY <2>2, <2>3 DEF Inv
<1> QED BY <1>1, <1>2, <1>3, <1>4, <1>5, <1>6 DEF Next

LEMMA InvHolds == Spec => []Inv
BY InitInv, NextInv, PTL DEF Spec

-------------------------------------------------------------------------------
\* Rows, jobs, lists and histories have their types, and the attempts of a TTS job stay
\* within the queue's contract.
THEOREM TypeCorrect == Spec => []TypeOK
<1>1. Inv => TypeOK
  BY DEF Inv
<1> QED BY <1>1, InvHolds, PTL

\* Until someone deletes the room, a message_audio row that says ready has its file,
\* although late workers and repeated uploads clean up after themselves on the same path
\* (TTSAdapter.complete, upload_voice_message).
THEOREM ReadyHasFileHolds == Spec => []ReadyHasFile
<1>1. Inv => ReadyHasFile
  BY DEF Inv, FilesInv, ReadyHasFile
<1> QED BY <1>1, InvHolds, PTL

\* The only files that delete_room leaves behind are those that came while it worked and
\* those of processes that stopped before they could clean up.
THEOREM OrphansExplainedHolds == Spec => []OrphansExplained
<1>1. Inv => OrphansExplained
  BY DEF Inv
<1> QED BY <1>1, InvHolds, PTL
=============================================================================
