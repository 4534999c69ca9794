----------------------- MODULE QuestionGenerationProofs -----------------------
(***************************************************************************)
(* Proofs about QuestionGeneration, for every set of chunks, number of     *)
(* questions, retry limit and deadline: what a list in order holds, that   *)
(* references still mean what they meant, and how often the providers are  *)
(* run.                                                                    *)
(***************************************************************************)
EXTENDS QuestionGeneration, StreamOrder, FiniteSetTheorems, TLAPS

-------------------------------------------------------------------------------
\* The inductive invariant

\* What the owner may be asked about.
EligibleRows ==
    {r \in Rows : /\ r.user = User /\ r.document \in Documents
                  /\ r.version = Versions[r.document] /\ r.similarity >= Threshold}

Places ==
    {"idle", "reading", "discarding", "claimed", "deciding", "retrying", "failing",
     "completing", "escaped"} \cup Executing

WorkerRecord ==
    [pc : Places, early : BOOLEAN, attempt : 0 .. MaxAttempts, repairs : 0 .. 1,
     repairing : BOOLEAN, found : Seq(EligibleRows), levels : Seq(Levels),
     error : ProviderErrors \cup {None}, delay : {None} \cup 0 .. Deadline,
     output : Seq(SUBSET EligibleRows)]

JobRecord ==
    [status : {"queued", "processing"} \cup Terminal, attempts : 0 .. MaxAttempts,
     repairs : 0 .. 1, wait : 0 .. Deadline - 1]

\* TypeOK, with the worker as a record and all evidence eligible.
TypeInv ==
    /\ ttl \in 0 .. Deadline
    /\ job \in JobRecord
    /\ message \in {None} \cup 0 .. Visibility
    /\ conf \in {"processing", "ready", "failed", "invalidated"}
    /\ current \subseteq Documents
    /\ stored \in Seq(SUBSET EligibleRows)
    /\ worker \in WorkerRecord /\ Len(worker.found) <= TopK
    /\ executions \in Nat

\* Steps at which the consumer has no job, or none of its outputs.
Jobless == {"idle", "reading", "discarding"}
Unjudged == Jobless \cup {"claimed", "embedding", "judging"}

\* A consumer w that has a job has the latest attempt of it; its judgement is about the
\* evidence it found; a retry is for an attempt and a time that are left.
Consistent(w, attempts) ==
    /\ w.pc \notin Jobless => w.attempt = attempts
    /\ w.pc \in Unjudged => w.levels = <<>>
    /\ w.levels # <<>> => Len(w.levels) = Len(w.found)
    /\ w.pc \in {"asking", "completing"} => Len(w.levels) = Len(w.found)
    /\ w.pc = "deciding" => w.error \in ProviderErrors
    /\ w.pc = "retrying" => w.attempt < MaxAttempts /\ w.delay \in 0 .. Deadline - 1

\* Executions are paid for by attempts and by the repair that the row counts; a claimed job
\* has not used its attempt yet.
Paid(pc, attempts, repairs) ==
    IF pc = "claimed" THEN executions + 1 <= attempts + repairs
    ELSE executions <= attempts + repairs

BudgetInv ==
    /\ job.status = "queued" => job.attempts < MaxAttempts
    /\ Paid(worker.pc, job.attempts, job.repairs)

\* Row r is evidence found, and judged to be as good as there is, by w.
Cites(w, r) ==
    \E n \in DOMAIN w.found :
       /\ r = w.found[n]
       /\ w.levels[n] # "unsupported"
       /\ "supported" \in Range(w.levels) => w.levels[n] = "supported"

OutputCites(w) ==
    w.pc = "completing" =>
        \A q \in DOMAIN w.output : w.output[q] # {} /\ \A r \in w.output[q] : Cites(w, r)

StoredInv == \A q \in DOMAIN stored : stored[q] # {}

Inv ==
    /\ TypeInv /\ Consistent(worker, job.attempts) /\ BudgetInv
    /\ OutputCites(worker) /\ StoredInv

-------------------------------------------------------------------------------
\* Lists in order

\* A finite set that is ordered totally has a place for each element: those before an
\* element are as many as the places before its own.
LEMMA InOrderLists ==
    ASSUME NEW S, IsFiniteSet(S), NEW before,
           \A x \in S : <<x, x>> \notin before,
           \A x, y \in S : x # y => <<x, y>> \in before \/ <<y, x>> \in before,
           \A x, y, z \in S : <<x, y>> \in before /\ <<y, z>> \in before => <<x, z>> \in before
    PROVE  /\ InOrder(S, before) \in [1 .. Cardinality(S) -> S]
           /\ \A i \in 1 .. Cardinality(S) :
                Cardinality({y \in S : <<y, InOrder(S, before)[i]>> \in before}) = i - 1
  <1> DEFINE n == Cardinality(S)
             Ahead(x) == {y \in S : <<y, x>> \in before}
             place == [x \in S |-> Cardinality(Ahead(x))]
  <1>1. n \in Nat
    BY FS_CardinalityType
  <1>2. ASSUME NEW x \in S PROVE IsFiniteSet(Ahead(x)) /\ Cardinality(Ahead(x)) \in Nat
    BY FS_Subset, FS_CardinalityType
  <1>3. ASSUME NEW x \in S PROVE Cardinality(Ahead(x)) \in 0 .. n - 1
    <2>1. Ahead(x) \in SUBSET S /\ x \notin Ahead(x)
      OBVIOUS
    <2> HIDE DEF Ahead
    <2>2. Cardinality(Ahead(x)) <= n /\ Cardinality(Ahead(x)) # n
      BY <2>1, <1>2, FS_Subset
    <2> QED
      BY <1>1, <1>2, <2>2
  <1>4. ASSUME NEW x \in S, NEW y \in S, <<x, y>> \in before
        PROVE  Cardinality(Ahead(x)) # Cardinality(Ahead(y))
    <2>1. Ahead(x) \in SUBSET Ahead(y) /\ x \in Ahead(y) /\ x \notin Ahead(x)
      BY <1>4
    <2> HIDE DEF Ahead
    <2> QED
      BY <1>2, <2>1, FS_Subset
  <1>5. place \in Injection(S, 0 .. n - 1)
    <2>1. place \in [S -> 0 .. n - 1]
      BY <1>3
    <2>2. ASSUME NEW x \in S, NEW y \in S, place[x] = place[y] PROVE x = y
      <3>1. Cardinality(Ahead(x)) = Cardinality(Ahead(y))
        BY <2>2
      <3> HIDE DEF Ahead, place
      <3> QED
        BY <1>4, <3>1
    <2> HIDE DEF place
    <2> QED
      BY <2>1, <2>2 DEF Injection, IsInjective
  <1>6. IsFiniteSet(0 .. n - 1) /\ Cardinality(0 .. n - 1) = n
    <2> HIDE DEF n
    <2>1. 0 \in Int /\ n - 1 \in Int
      BY <1>1
    <2>2. /\ IsFiniteSet(0 .. n - 1)
          /\ Cardinality(0 .. n - 1) = IF 0 > n - 1 THEN 0 ELSE n - 1 - 0 + 1
      BY <2>1, FS_Interval
    <2> QED
      BY <1>1, <2>2
  <1>7. place \in Surjection(S, 0 .. n - 1)
    <2> HIDE DEF place
    <2> QED
      BY <1>5, <1>6, FS_Injection
  <1>8. ASSUME NEW i \in 1 .. n PROVE \E x \in S : Cardinality(Ahead(x)) = i - 1
    <2>1. i - 1 \in 0 .. n - 1
      BY <1>1
    <2>2. \A k \in 0 .. n - 1 : \E x \in S : place[x] = k
      <3> HIDE DEF place
      <3> QED
        BY <1>7 DEF Surjection
    <2>3. PICK x \in S : place[x] = i - 1
      BY <2>1, <2>2
    <2> QED
      BY <2>3
  <1>9. ASSUME NEW i \in 1 .. n
        PROVE  /\ (CHOOSE x \in S : Cardinality(Ahead(x)) = i - 1) \in S
               /\ Cardinality(Ahead(CHOOSE x \in S : Cardinality(Ahead(x)) = i - 1)) = i - 1
    <2> HIDE DEF Ahead
    <2> QED
      BY <1>8
  <1>10. InOrder(S, before) = [i \in 1 .. n |-> CHOOSE x \in S : Cardinality(Ahead(x)) = i - 1]
    BY DEF InOrder
  <1> HIDE DEF Ahead, n
  <1>11. InOrder(S, before) \in [1 .. n -> S]
    BY <1>9, <1>10
  <1>12. ASSUME NEW i \in 1 .. n PROVE Cardinality(Ahead(InOrder(S, before)[i])) = i - 1
    BY <1>9, <1>10
  <1> QED
    BY <1>11, <1>12 DEF n, Ahead

LEMMA FunctionsAreSequences ==
    ASSUME NEW S, NEW n \in Nat, NEW f \in [1 .. n -> S]
    PROVE  f \in Seq(S) /\ Len(f) = n /\ DOMAIN f = 1 .. n
  OBVIOUS

\* retrieve gives at most TopK chunks, all of them eligible.
LEMMA RetrieveIsEligible ==
    ASSUME NEW rows \in SUBSET Rows
    PROVE  Retrieve(rows) \in Seq(EligibleRows) /\ Len(Retrieve(rows)) <= TopK
  <1> DEFINE eligible == {r \in rows : /\ r.user = User
                                       /\ r.document \in Documents
                                       /\ r.version = Versions[r.document]
                                       /\ r.similarity >= Threshold}
             before == {p \in eligible \X eligible : Better(p[1], p[2])}
             ranked == InOrder(eligible, before)
             most == Min({TopK, Len(ranked)})
  <1>1. eligible \in SUBSET EligibleRows /\ eligible \in SUBSET Rows
    BY DEF EligibleRows
  <1>2. IsFiniteSet(eligible) /\ Cardinality(eligible) \in Nat
    <2> HIDE DEF eligible
    <2> QED
      BY <1>1, QuestionGenerationAssumption, FS_Subset, FS_CardinalityType
  <1>3. \A r \in eligible : r.id \in Nat /\ r.similarity \in Nat
    BY <1>1, QuestionGenerationAssumption
  <1>4. \A r, s \in eligible : r.id = s.id => r = s
    BY <1>1, QuestionGenerationAssumption
  <1> HIDE DEF eligible
  <1>5. \A r, s \in eligible : <<r, s>> \in before <=> Better(r, s)
    OBVIOUS
  <1> HIDE DEF before
  <1>6. ranked \in [1 .. Cardinality(eligible) -> eligible]
    <2>1. \A x \in eligible : <<x, x>> \notin before
      BY <1>3, <1>5 DEF Better
    <2>2. \A x, y \in eligible : x # y => <<x, y>> \in before \/ <<y, x>> \in before
      BY <1>3, <1>4, <1>5 DEF Better
    <2>3. \A x, y, z \in eligible :
             <<x, y>> \in before /\ <<y, z>> \in before => <<x, z>> \in before
      BY <1>3, <1>5 DEF Better
    <2> QED
      BY <1>2, <2>1, <2>2, <2>3, InOrderLists
  <1>7. ranked \in Seq(EligibleRows) /\ Len(ranked) \in Nat
    <2> HIDE DEF ranked
    <2> QED
      BY <1>1, <1>2, <1>6, FunctionsAreSequences
  <1>8. Retrieve(rows) = SubSeq(ranked, 1, most)
    BY DEF Retrieve, eligible, before
  <1> HIDE DEF ranked
  <1>9. most \in 0 .. Len(ranked) /\ most <= TopK
    <2>1. TopK \in Nat
      BY QuestionGenerationAssumption
    <2>2. \E x \in {TopK, Len(ranked)} : \A y \in {TopK, Len(ranked)} : x <= y
      BY <1>7, <2>1
    <2>3. most \in {TopK, Len(ranked)} /\ most <= TopK /\ most <= Len(ranked)
      BY <2>2 DEF Min
    <2> QED
      BY <1>7, <2>1, <2>3
  <1> HIDE DEF most
  <1>10. SubSeq(ranked, 1, most) \in Seq(EligibleRows) /\ Len(SubSeq(ranked, 1, most)) = most
    BY <1>7, <1>9
  <1> QED
    BY <1>8, <1>9, <1>10

\* The numbers of a list of levels, in order.
LEMMA NumberedFacts ==
    ASSUME NEW levels \in Seq(Levels), NEW S
    PROVE  LET wanted == {n \in 1 .. Len(levels) : levels[n] \in S}
           IN /\ Numbered(levels, S) \in Seq(wanted)
              /\ Numbered(levels, S) = <<>> <=> wanted = {}
  <1> DEFINE wanted == {n \in 1 .. Len(levels) : levels[n] \in S}
             before == {p \in wanted \X wanted : p[1] < p[2]}
  <1>1. wanted \in SUBSET (1 .. Len(levels))
    OBVIOUS
  <1>2. Numbered(levels, S) = InOrder(wanted, before)
    BY DEF Numbered
  <1> HIDE DEF wanted
  <1>3. /\ IsFiniteSet(wanted) /\ Cardinality(wanted) \in Nat
        /\ Cardinality(wanted) = 0 <=> wanted = {}
    <2>1. IsFiniteSet(1 .. Len(levels))
      BY FS_Interval
    <2>2. IsFiniteSet(wanted)
      BY <1>1, <2>1, FS_Subset
    <2> QED
      BY <2>2, FS_CardinalityType, FS_EmptySet
  <1>4. \A x \in wanted : x \in Int
    BY <1>1
  <1>5. \A x, y \in wanted : <<x, y>> \in before <=> x < y
    OBVIOUS
  <1> HIDE DEF before
  <1>6. InOrder(wanted, before) \in [1 .. Cardinality(wanted) -> wanted]
    <2>1. \A x \in wanted : <<x, x>> \notin before
      BY <1>4, <1>5
    <2>2. \A x, y \in wanted : x # y => <<x, y>> \in before \/ <<y, x>> \in before
      BY <1>4, <1>5
    <2>3. \A x, y, z \in wanted :
             <<x, y>> \in before /\ <<y, z>> \in before => <<x, z>> \in before
      BY <1>4, <1>5
    <2> QED
      BY <1>3, <2>1, <2>2, <2>3, InOrderLists
  <1>7. /\ Numbered(levels, S) \in Seq(wanted)
        /\ Len(Numbered(levels, S)) = Cardinality(wanted)
    BY <1>2, <1>3, <1>6, FunctionsAreSequences
  <1>8. Numbered(levels, S) = <<>> <=> wanted = {}
    BY <1>3, <1>7
  <1> QED
    BY <1>7, <1>8 DEF wanted

\* filter_relevant_evidence keeps evidence that was found and judged as good as there is.
LEMMA RelevantFacts ==
    ASSUME NEW found \in Seq(EligibleRows), NEW levels \in Seq(Levels),
           Len(levels) = Len(found)
    PROVE  /\ FilterRelevant(found, levels) \in Seq(EligibleRows)
           /\ \A i \in 1 .. Len(FilterRelevant(found, levels)) : \E n \in DOMAIN found :
                /\ FilterRelevant(found, levels)[i] = found[n]
                /\ levels[n] # "unsupported"
                /\ "supported" \in Range(levels) => levels[n] = "supported"
  <1> DEFINE Of(S) == {n \in 1 .. Len(levels) : levels[n] \in S}
             supported == Numbered(levels, {"supported"})
             partial == Numbered(levels, {"partially_supported"})
             numbers == IF supported # <<>> THEN supported ELSE partial
             kept == IF supported # <<>> THEN Of({"supported"}) ELSE Of({"partially_supported"})
  <1>1. numbers \in Seq(kept)
    BY NumberedFacts
  <1>2. "supported" \in Range(levels) => supported # <<>>
    <2>1. SUFFICES ASSUME "supported" \in Range(levels) PROVE supported # <<>>
      OBVIOUS
    <2>2. PICK n \in DOMAIN levels : levels[n] = "supported"
      BY <2>1 DEF Range
    <2>3. n \in Of({"supported"})
      BY <2>2
    <2> QED
      BY <2>3, NumberedFacts
  <1>3. ASSUME NEW n \in kept
        PROVE  /\ n \in DOMAIN found /\ found[n] \in EligibleRows /\ levels[n] # "unsupported"
               /\ "supported" \in Range(levels) => levels[n] = "supported"
    <2>1. n \in 1 .. Len(levels) /\ levels[n] \in {"supported", "partially_supported"}
          /\ (supported # <<>> => levels[n] = "supported")
      OBVIOUS
    <2> HIDE DEF supported, kept
    <2> QED
      BY <1>2, <2>1
  <1>4. FilterRelevant(found, levels) = [i \in 1 .. Len(numbers) |-> found[numbers[i]]]
    BY DEF FilterRelevant, Pick
  <1> HIDE DEF numbers, kept
  <1>5. \A i \in 1 .. Len(numbers) : numbers[i] \in kept
    BY <1>1
  <1>6. Len(numbers) \in Nat
    BY <1>1
  <1>7. FilterRelevant(found, levels) \in [1 .. Len(numbers) -> EligibleRows]
    BY <1>3, <1>4, <1>5
  <1>8. /\ FilterRelevant(found, levels) \in Seq(EligibleRows)
        /\ Len(FilterRelevant(found, levels)) = Len(numbers)
    BY <1>6, <1>7, FunctionsAreSequences
  <1>9. ASSUME NEW i \in 1 .. Len(numbers)
        PROVE  \E n \in DOMAIN found :
                 /\ FilterRelevant(found, levels)[i] = found[n]
                 /\ levels[n] # "unsupported"
                 /\ "supported" \in Range(levels) => levels[n] = "supported"
    BY <1>3, <1>4, <1>5
  <1> QED
    BY <1>8, <1>9

-------------------------------------------------------------------------------
\* Kinds of steps

LEMMA ErrorsAreErrors ==
    /\ InsufficientEvidence \in ProviderErrors /\ RelevanceEmpty \in ProviderErrors
    /\ SchemaInvalid \in ProviderErrors
  BY DEF InsufficientEvidence, RelevanceEmpty, SchemaInvalid, Refused, Unavailable, ProviderErrors

LEMMA EmptySequence ==
    ASSUME NEW S
    PROVE  <<>> \in Seq(S) /\ Len(<<>>) = 0 /\ DOMAIN <<>> = {}
  OBVIOUS

\* A consumer that has forgotten everything.
LEMMA IdleFacts ==
    /\ Idle \in WorkerRecord /\ Idle.pc = "idle" /\ Idle.levels = <<>>
    /\ Len(Idle.found) <= TopK
  <1>1. Idle \in WorkerRecord
    BY QuestionGenerationAssumption, EmptySequence
       DEF Idle, WorkerRecord, Places, ProviderErrors
  <1> QED
    BY <1>1, QuestionGenerationAssumption, EmptySequence DEF Idle

LEMMA IdleIsConsistent ==
    ASSUME NEW n
    PROVE  Consistent(Idle, n) /\ OutputCites(Idle)
  BY IdleFacts DEF Consistent, OutputCites, Jobless, Unjudged

\* run_once ends: the job's counts stay, and a job that waits has attempts left.
LEMMA EndsRun ==
    ASSUME Inv, worker' = Idle, job' \in JobRecord,
           job'.attempts = job.attempts, job'.repairs = job.repairs,
           job'.status = "queued" => job'.attempts < MaxAttempts,
           message' \in {None} \cup 0 .. Visibility,
           conf' \in {"processing", "ready", "failed", "invalidated"},
           stored' \in Seq(SUBSET EligibleRows), StoredInv',
           UNCHANGED <<ttl, current, executions>>
    PROVE  Inv'
  <1>1. TypeInv'
    BY IdleFacts DEF Inv, TypeInv
  <1>2. Consistent(worker, job.attempts)' /\ OutputCites(worker)'
    BY IdleIsConsistent DEF Consistent, OutputCites, Cites
  <1>3. BudgetInv'
    <2>1. /\ executions \in Nat /\ job.attempts \in Nat /\ job.repairs \in Nat
          /\ Paid(worker.pc, job.attempts, job.repairs)
      BY QuestionGenerationAssumption DEF Inv, TypeInv, JobRecord, BudgetInv
    <2>2. executions <= job.attempts + job.repairs
      BY <2>1 DEF Paid
    <2> QED
      BY <2>2, IdleFacts DEF BudgetInv, Paid
  <1> QED
    BY <1>1, <1>2, <1>3 DEF Inv

\* The consumer goes on: only what it holds changes, and it does not claim.
LEMMA WorkerStep ==
    ASSUME Inv, worker' \in WorkerRecord, Len(worker'.found) <= TopK,
           Consistent(worker', job.attempts), OutputCites(worker'),
           worker'.pc # "claimed",
           UNCHANGED <<ttl, job, message, conf, current, stored, executions>>
    PROVE  Inv'
  <1>1. TypeInv'
    BY DEF Inv, TypeInv
  <1>2. Consistent(worker, job.attempts)' /\ OutputCites(worker)' /\ StoredInv'
    BY DEF Inv, Consistent, OutputCites, Cites, StoredInv
  <1>3. BudgetInv'
    <2>1. /\ executions \in Nat /\ job.attempts \in Nat /\ job.repairs \in Nat
          /\ Paid(worker.pc, job.attempts, job.repairs)
          /\ job.status = "queued" => job.attempts < MaxAttempts
      BY QuestionGenerationAssumption DEF Inv, TypeInv, JobRecord, BudgetInv
    <2>2. executions <= job.attempts + job.repairs
      BY <2>1 DEF Paid
    <2> QED
      BY <2>1, <2>2 DEF BudgetInv, Paid
  <1> QED
    BY <1>1, <1>2, <1>3 DEF Inv

\* Beside the consumer: what it holds and the job's counts stay.
LEMMA OutsideStep ==
    ASSUME Inv, worker' = worker, job' \in JobRecord,
           job'.attempts = job.attempts, job'.repairs = job.repairs,
           job'.status = "queued" => job.status = "queued",
           ttl' \in 0 .. Deadline, message' \in {None} \cup 0 .. Visibility,
           conf' \in {"processing", "ready", "failed", "invalidated"},
           current' \subseteq Documents, UNCHANGED <<stored, executions>>
    PROVE  Inv'
  <1>1. TypeInv'
    BY DEF Inv, TypeInv
  <1>2. Consistent(worker, job.attempts)' /\ OutputCites(worker)' /\ StoredInv'
    BY DEF Inv, Consistent, OutputCites, Cites, StoredInv
  <1>3. BudgetInv'
    BY DEF Inv, BudgetInv, Paid
  <1> QED
    BY <1>1, <1>2, <1>3 DEF Inv

-------------------------------------------------------------------------------
\* The steps

LEMMA InitInv ==
    ASSUME Init
    PROVE  Inv
  <1>1. 0 \in 0 .. MaxAttempts /\ 0 \in 0 .. Deadline - 1 /\ 0 \in 0 .. Visibility
        /\ 0 < MaxAttempts
    BY QuestionGenerationAssumption
  <1>2. job \in JobRecord
    BY <1>1 DEF Init, JobRecord
  <1>3. TypeInv
    BY <1>1, <1>2, IdleFacts, EmptySequence, QuestionGenerationAssumption DEF Init, TypeInv
  <1>4. Consistent(worker, job.attempts) /\ OutputCites(worker)
    BY IdleIsConsistent DEF Init
  <1>5. BudgetInv
    BY <1>1, IdleFacts DEF Init, BudgetInv, Paid
  <1>6. StoredInv
    BY EmptySequence DEF Init, StoredInv
  <1> QED
    BY <1>3, <1>4, <1>5, <1>6 DEF Inv

LEMMA BeginInv ==
    ASSUME Inv, Begin
    PROVE  Inv'
  <1>1. worker \in WorkerRecord /\ Len(worker.found) <= TopK
        /\ Consistent(worker, job.attempts) /\ worker.pc = "idle"
    BY DEF Inv, TypeInv, Begin
  <1>2. PICK early \in BOOLEAN : worker' = [worker EXCEPT !.pc = "reading", !.early = early]
    <2>1. (job.wait > 0) \in BOOLEAN
      OBVIOUS
    <2>2. worker' = [worker EXCEPT !.pc = "reading", !.early = (job.wait > 0)]
      BY DEF Begin
    <2> QED
      BY <2>1, <2>2
  <1>3. worker' \in WorkerRecord /\ worker'.pc = "reading" /\ worker'.levels = worker.levels
        /\ worker'.found = worker.found
    BY <1>1, <1>2 DEF WorkerRecord, Places
  <1>4. Consistent(worker', job.attempts) /\ OutputCites(worker')
    BY <1>1, <1>3 DEF Consistent, OutputCites, Jobless, Unjudged
  <1> QED
    BY <1>1, <1>3, <1>4, WorkerStep DEF Begin

LEMMA ReadEmptyInv ==
    ASSUME Inv, ReadEmpty
    PROVE  Inv'
  <1>1. worker' = Idle /\ UNCHANGED <<ttl, job, message, conf, current, stored, executions>>
    BY DEF ReadEmpty
  <1> QED
    BY <1>1, EndsRun DEF Inv, TypeInv, BudgetInv, StoredInv

LEMMA ClaimInv ==
    ASSUME Inv, Claim
    PROVE  Inv'
  <1>1. /\ worker \in WorkerRecord /\ Len(worker.found) <= TopK /\ job \in JobRecord
        /\ Consistent(worker, job.attempts) /\ worker.pc = "reading"
        /\ job.status = "queued" /\ job.attempts < MaxAttempts
        /\ Paid(worker.pc, job.attempts, job.repairs)
    BY DEF Inv, TypeInv, BudgetInv, Claim, Claimable
  <1>2. /\ job.attempts \in Nat /\ job.repairs \in 0 .. 1 /\ job.attempts + 1 \in 0 .. MaxAttempts
    BY <1>1, QuestionGenerationAssumption DEF JobRecord
  <1>3. /\ job' \in JobRecord /\ job'.status = "processing"
        /\ job'.attempts = job.attempts + 1 /\ job'.repairs = job.repairs
    BY <1>1, <1>2 DEF Claim, JobRecord
  <1>4. worker' = [worker EXCEPT !.pc = "claimed", !.attempt = job.attempts + 1,
                                 !.repairs = job.repairs]
    BY DEF Claim
  <1>5. /\ worker' \in WorkerRecord /\ worker'.pc = "claimed"
        /\ worker'.levels = worker.levels /\ worker'.found = worker.found
        /\ worker'.attempt = job.attempts + 1
    BY <1>1, <1>2, <1>4 DEF WorkerRecord, Places
  <1>6. TypeInv'
    BY <1>1, <1>3, <1>5, QuestionGenerationAssumption DEF Inv, TypeInv, Claim
  <1>7. Consistent(worker, job.attempts)' /\ OutputCites(worker)'
    BY <1>1, <1>3, <1>5 DEF Consistent, OutputCites, Cites, Jobless, Unjudged
  <1>8. BudgetInv'
    <2>1. executions \in Nat /\ executions' = executions
      BY DEF Inv, TypeInv, Claim
    <2>2. executions <= job.attempts + job.repairs
      BY <1>1, <1>2, <2>1 DEF Paid
    <2> QED
      BY <1>2, <1>3, <1>5, <2>1, <2>2 DEF BudgetInv, Paid
  <1>9. StoredInv'
    BY DEF Inv, StoredInv, Claim
  <1> QED
    BY <1>6, <1>7, <1>8, <1>9 DEF Inv

LEMMA RejectClaimInv ==
    ASSUME Inv, RejectClaim
    PROVE  Inv'
  <1>1. worker \in WorkerRecord /\ Len(worker.found) <= TopK
        /\ Consistent(worker, job.attempts) /\ worker.pc = "reading"
    BY DEF Inv, TypeInv, RejectClaim
  <1>2. worker' = [worker EXCEPT !.pc = "discarding"]
    BY DEF RejectClaim
  <1>3. worker' \in WorkerRecord /\ worker'.pc = "discarding" /\ worker'.levels = worker.levels
        /\ worker'.found = worker.found
    BY <1>1, <1>2 DEF WorkerRecord, Places
  <1>4. Consistent(worker', job.attempts) /\ OutputCites(worker')
    BY <1>1, <1>3 DEF Consistent, OutputCites, Jobless, Unjudged
  <1> QED
    BY <1>1, <1>3, <1>4, WorkerStep DEF RejectClaim

LEMMA DiscardInv ==
    ASSUME Inv, Discard
    PROVE  Inv'
  <1>1. worker' = Idle /\ message' = None /\ UNCHANGED <<ttl, job, conf, current, stored, executions>>
    BY DEF Discard
  <1> QED
    BY <1>1, EndsRun DEF Inv, TypeInv, BudgetInv, StoredInv

LEMMA ExecuteInv ==
    ASSUME Inv, Execute
    PROVE  Inv'
  <1>1. /\ worker \in WorkerRecord /\ Len(worker.found) <= TopK /\ job \in JobRecord
        /\ Consistent(worker, job.attempts) /\ worker.pc = "claimed"
        /\ Paid(worker.pc, job.attempts, job.repairs)
        /\ executions \in Nat
    BY DEF Inv, TypeInv, BudgetInv, Execute
  <1>2. job.attempts \in Nat /\ job.repairs \in Nat
    BY <1>1, QuestionGenerationAssumption DEF JobRecord
  <1>3. \/ /\ worker' = [worker EXCEPT !.pc = "failing"] /\ executions' = executions
        \/ /\ worker' = [worker EXCEPT !.pc = "embedding"] /\ executions' = executions + 1
    BY DEF Execute
  <1>4. /\ worker' \in WorkerRecord /\ worker'.pc \in {"failing", "embedding"}
        /\ worker'.levels = worker.levels /\ worker'.found = worker.found
        /\ worker'.attempt = worker.attempt
    BY <1>1, <1>3 DEF WorkerRecord, Places, Executing
  <1>5. TypeInv'
    BY <1>1, <1>3, <1>4 DEF Inv, TypeInv, Execute
  <1>6. Consistent(worker, job.attempts)' /\ OutputCites(worker)'
    BY <1>1, <1>4 DEF Consistent, OutputCites, Cites, Jobless, Unjudged, Execute
  <1>7. BudgetInv'
    <2>1. executions' <= job.attempts + job.repairs
      BY <1>1, <1>2, <1>3 DEF Paid
    <2> QED
      BY <1>4, <2>1 DEF Inv, BudgetInv, Paid, Execute
  <1>8. StoredInv'
    BY DEF Inv, StoredInv, Execute
  <1> QED
    BY <1>5, <1>6, <1>7, <1>8 DEF Inv

\* A consumer that executes meets an error, which it goes on to decide about.
LEMMA RaiseInv ==
    ASSUME Inv, NEW error \in ProviderErrors, worker.pc \in Executing, Raise(error)
    PROVE  Inv'
  <1>1. worker \in WorkerRecord /\ Len(worker.found) <= TopK /\ Consistent(worker, job.attempts)
    BY DEF Inv, TypeInv
  <1>2. worker' = [worker EXCEPT !.pc = "deciding", !.error = error]
    BY DEF Raise
  <1>3. /\ worker' \in WorkerRecord /\ worker'.pc = "deciding" /\ worker'.error = error
        /\ worker'.levels = worker.levels /\ worker'.found = worker.found
        /\ worker'.attempt = worker.attempt
    BY <1>1, <1>2 DEF WorkerRecord, Places
  <1>4. Consistent(worker', job.attempts) /\ OutputCites(worker')
    BY <1>1, <1>3 DEF Consistent, OutputCites, Jobless, Unjudged, Executing
  <1> QED
    BY <1>1, <1>3, <1>4, WorkerStep DEF Raise

LEMMA ProviderFailsInv ==
    ASSUME Inv, NEW error \in ProviderErrors, ProviderFails(error)
    PROVE  Inv'
  BY RaiseInv DEF ProviderFails

LEMMA RetrieveEvidenceInv ==
    ASSUME Inv, RetrieveEvidence
    PROVE  Inv'
  <1>1. /\ worker \in WorkerRecord /\ Consistent(worker, job.attempts)
        /\ worker.pc = "embedding"
    BY DEF Inv, TypeInv, RetrieveEvidence
  <1>2. PICK found : found = Retrieve({r \in Rows : r.document \in current})
    OBVIOUS
  <1>3. found \in Seq(EligibleRows) /\ Len(found) <= TopK
    <2>1. {r \in Rows : r.document \in current} \in SUBSET Rows
      OBVIOUS
    <2> QED
      BY <1>2, <2>1, RetrieveIsEligible
  <1>4. CASE found = <<>>
    BY <1>1, <1>2, <1>4, ErrorsAreErrors, RaiseInv DEF RetrieveEvidence, Executing
  <1>5. CASE found # <<>>
    <2>1. worker' = [worker EXCEPT !.pc = "judging", !.found = found]
          /\ UNCHANGED <<ttl, job, message, conf, current, stored, executions>>
      BY <1>2, <1>5 DEF RetrieveEvidence
    <2>2. /\ worker' \in WorkerRecord /\ worker'.pc = "judging"
          /\ worker'.levels = worker.levels /\ worker'.found = found
          /\ worker'.attempt = worker.attempt
      BY <1>1, <1>3, <2>1 DEF WorkerRecord, Places, Executing
    <2>3. Consistent(worker', job.attempts) /\ OutputCites(worker')
      BY <1>1, <2>2 DEF Consistent, OutputCites, Jobless, Unjudged
    <2> QED
      BY <1>3, <2>1, <2>2, <2>3, WorkerStep
  <1> QED
    BY <1>4, <1>5

LEMMA JudgeInv ==
    ASSUME Inv, NEW levels \in Judgements, Judge(levels)
    PROVE  Inv'
  <1>1. /\ worker \in WorkerRecord /\ Consistent(worker, job.attempts)
        /\ worker.pc = "judging" /\ Len(worker.found) <= TopK
    BY DEF Inv, TypeInv, Judge
  <1>2. Len(worker.found) \in Nat
    BY <1>1 DEF WorkerRecord
  <1>3. levels \in Seq(Levels) /\ Len(levels) = Len(worker.found)
    BY <1>2, FunctionsAreSequences DEF Judgements
  <1>4. PICK relevant : relevant = FilterRelevant(worker.found, levels)
    OBVIOUS
  <1>5. CASE relevant = <<>>
    BY <1>1, <1>4, <1>5, ErrorsAreErrors, RaiseInv DEF Judge, Executing
  <1>6. CASE relevant # <<>>
    <2>1. PICK next \in {"asking", "escaped"} :
             /\ worker' = [worker EXCEPT !.levels = levels, !.pc = next]
             /\ UNCHANGED <<ttl, job, message, conf, current, stored, executions>>
      BY <1>4, <1>6 DEF Judge
    <2>2. /\ worker' \in WorkerRecord /\ worker'.pc = next
          /\ worker'.levels = levels /\ worker'.found = worker.found
          /\ worker'.attempt = worker.attempt
      BY <1>1, <1>3, <2>1 DEF WorkerRecord, Places, Executing
    <2>3. Consistent(worker', job.attempts) /\ OutputCites(worker')
      BY <1>1, <1>3, <2>2 DEF Consistent, OutputCites, Jobless, Unjudged
    <2> QED
      BY <1>1, <2>1, <2>2, <2>3, WorkerStep
  <1> QED
    BY <1>5, <1>6

LEMMA AskInv ==
    ASSUME Inv, NEW refs \in References, Ask(refs)
    PROVE  Inv'
  <1>1. /\ worker \in WorkerRecord /\ Consistent(worker, job.attempts)
        /\ worker.pc = "asking" /\ Len(worker.found) <= TopK
    BY DEF Inv, TypeInv, Ask
  <1>2. PICK relevant : relevant = FilterRelevant(worker.found, worker.levels)
    OBVIOUS
  <1>3. /\ relevant \in Seq(EligibleRows)
        /\ \A i \in 1 .. Len(relevant) : Cites(worker, relevant[i])
    <2>1. /\ worker.found \in Seq(EligibleRows) /\ worker.levels \in Seq(Levels)
          /\ Len(worker.levels) = Len(worker.found)
      BY <1>1 DEF WorkerRecord, Consistent
    <2> QED
      BY <1>2, <2>1, RelevantFacts DEF Cites
  <1>4. CASE ~AcceptsQuestions(relevant, refs)
    BY <1>1, <1>2, <1>4, ErrorsAreErrors, RaiseInv DEF Ask, Executing
  <1>5. CASE AcceptsQuestions(relevant, refs)
    <2> DEFINE output == [q \in DOMAIN refs |-> {relevant[n] : n \in refs[q]}]
    <2>1. worker' = [worker EXCEPT !.pc = "completing", !.output = output]
          /\ UNCHANGED <<ttl, job, message, conf, current, stored, executions>>
      BY <1>2, <1>5 DEF Ask, Resolve
    <2>2. DOMAIN refs = 1 .. QuestionCount /\ QuestionCount \in Nat
      BY QuestionGenerationAssumption DEF References
    <2>3. \A q \in DOMAIN refs : refs[q] # {} /\ refs[q] \subseteq 1 .. Len(relevant)
      BY <1>5 DEF AcceptsQuestions
    <2>4. \A q \in DOMAIN refs :
             /\ output[q] # {} /\ output[q] \in SUBSET EligibleRows
             /\ \A r \in output[q] : Cites(worker, r)
      BY <1>3, <2>3
    <2>5. output \in Seq(SUBSET EligibleRows) /\ DOMAIN output = DOMAIN refs
      <3>1. output \in [1 .. QuestionCount -> SUBSET EligibleRows]
        BY <2>2, <2>4
      <3> HIDE DEF output
      <3> QED
        BY <2>2, <3>1, FunctionsAreSequences
    <2> HIDE DEF output
    <2>6. /\ worker' \in WorkerRecord /\ worker'.pc = "completing"
          /\ worker'.levels = worker.levels /\ worker'.found = worker.found
          /\ worker'.attempt = worker.attempt /\ worker'.output = output
      BY <1>1, <2>1, <2>5 DEF WorkerRecord, Places
    <2>7. Consistent(worker', job.attempts)
      BY <1>1, <2>6 DEF Consistent, Jobless, Unjudged
    <2>8. OutputCites(worker')
      BY <2>4, <2>5, <2>6 DEF OutputCites, Cites
    <2> QED
      BY <1>1, <2>1, <2>6, <2>7, <2>8, WorkerStep
  <1> QED
    BY <1>4, <1>5

\* The repair is paid for by the row, which mark_schema_repair changes once.
LEMMA RepairInv ==
    ASSUME Inv, Repair
    PROVE  Inv'
  <1>1. /\ worker \in WorkerRecord /\ Consistent(worker, job.attempts) /\ job \in JobRecord
        /\ worker.pc = "deciding" /\ Len(worker.found) <= TopK
        /\ Paid(worker.pc, job.attempts, job.repairs) /\ executions \in Nat
    BY DEF Inv, TypeInv, BudgetInv, Repair
  <1>2. job.attempts \in Nat /\ job.repairs \in Nat
    BY <1>1, QuestionGenerationAssumption DEF JobRecord
  <1>3. CASE job.status = "processing" /\ job.repairs = 0 /\ Agrees("processing", conf)
    <2>1. /\ job' = [job EXCEPT !.repairs = 1] /\ executions' = executions + 1
          /\ worker' = [worker EXCEPT !.pc = "embedding", !.repairing = TRUE, !.error = None,
                                      !.found = <<>>, !.levels = <<>>]
      BY <1>3 DEF Repair
    <2>2. /\ job' \in JobRecord /\ job'.attempts = job.attempts /\ job'.repairs = 1
          /\ job'.status = "processing"
      BY <1>1, <1>3, <2>1 DEF JobRecord
    <2>3. /\ worker' \in WorkerRecord /\ worker'.pc = "embedding"
          /\ worker'.levels = <<>> /\ worker'.found = <<>>
          /\ worker'.attempt = worker.attempt
      <3>1. <<>> \in Seq(EligibleRows) /\ <<>> \in Seq(Levels)
        BY EmptySequence
      <3> QED
        BY <1>1, <2>1, <3>1 DEF WorkerRecord, Places, Executing
    <2>4. TypeInv'
      BY <1>1, <2>1, <2>2, <2>3, EmptySequence, QuestionGenerationAssumption
         DEF Inv, TypeInv, Repair
    <2>5. Consistent(worker, job.attempts)' /\ OutputCites(worker)'
      BY <1>1, <2>2, <2>3 DEF Consistent, OutputCites, Cites, Jobless, Unjudged
    <2>6. BudgetInv'
      <3>1. executions' <= job.attempts + 1
        BY <1>1, <1>2, <1>3, <2>1 DEF Paid
      <3> QED
        BY <2>2, <2>3, <3>1 DEF BudgetInv, Paid
    <2>7. StoredInv'
      BY DEF Inv, StoredInv, Repair
    <2> QED
      BY <2>4, <2>5, <2>6, <2>7 DEF Inv
  <1>4. CASE ~(job.status = "processing" /\ job.repairs = 0 /\ Agrees("processing", conf))
    <2>1. /\ worker' = [worker EXCEPT !.pc = "escaped"]
          /\ UNCHANGED <<ttl, job, message, conf, current, stored, executions>>
      BY <1>4 DEF Repair
    <2>2. /\ worker' \in WorkerRecord /\ worker'.pc = "escaped"
          /\ worker'.levels = worker.levels /\ worker'.found = worker.found
          /\ worker'.attempt = worker.attempt
      BY <1>1, <2>1 DEF WorkerRecord, Places
    <2>3. Consistent(worker', job.attempts) /\ OutputCites(worker')
      BY <1>1, <2>2 DEF Consistent, OutputCites, Jobless, Unjudged
    <2> QED
      BY <1>1, <2>1, <2>2, <2>3, WorkerStep
  <1> QED
    BY <1>3, <1>4

LEMMA DecideInv ==
    ASSUME Inv, NEW delay \in Delays(worker.error, worker.attempt), Decide(delay)
    PROVE  Inv'
  <1>1. /\ worker \in WorkerRecord /\ Consistent(worker, job.attempts)
        /\ worker.pc = "deciding" /\ Len(worker.found) <= TopK /\ ttl \in 0 .. Deadline
    BY DEF Inv, TypeInv, Decide
  <1>2. UNCHANGED <<ttl, job, message, conf, current, stored, executions>>
    BY DEF Decide
  <1>3. delay \in Int
    <2>1. worker.error \in ProviderErrors
      BY <1>1 DEF Consistent
    <2>2. worker.error.after # None => worker.error.after \in RetryAfters
      BY <2>1 DEF ProviderErrors, Refused, SchemaInvalid, Unavailable
    <2>3. \A n : n \in Backoffs(worker.attempt) => n \in Int
      BY DEF Backoffs
    <2> QED
      BY <2>2, <2>3, QuestionGenerationAssumption DEF Delays
  <1>4. CASE ShouldRetry(worker.error, worker.attempt, delay)
    <2>1. delay \in 0 .. Deadline - 1 /\ worker.attempt < MaxAttempts
      BY <1>1, <1>3, <1>4, QuestionGenerationAssumption DEF ShouldRetry
    <2>2. delay \in 0 .. Deadline
      BY <2>1, QuestionGenerationAssumption
    <2>3. worker' = [worker EXCEPT !.pc = "retrying", !.delay = delay]
      BY <1>4 DEF Decide
    <2>4. /\ worker' \in WorkerRecord /\ worker'.pc = "retrying"
          /\ worker'.levels = worker.levels /\ worker'.found = worker.found
          /\ worker'.attempt = worker.attempt /\ worker'.delay = delay
      BY <1>1, <2>2, <2>3 DEF WorkerRecord, Places
    <2>5. Consistent(worker', job.attempts) /\ OutputCites(worker')
      BY <1>1, <2>1, <2>4 DEF Consistent, OutputCites, Jobless, Unjudged
    <2> QED
      BY <1>1, <1>2, <2>4, <2>5, WorkerStep
  <1>5. CASE ~ShouldRetry(worker.error, worker.attempt, delay)
    <2>1. worker' = [worker EXCEPT !.pc = "failing"]
      BY <1>5 DEF Decide
    <2>2. /\ worker' \in WorkerRecord /\ worker'.pc = "failing"
          /\ worker'.levels = worker.levels /\ worker'.found = worker.found
          /\ worker'.attempt = worker.attempt
      BY <1>1, <2>1 DEF WorkerRecord, Places
    <2>3. Consistent(worker', job.attempts) /\ OutputCites(worker')
      BY <1>1, <2>2 DEF Consistent, OutputCites, Jobless, Unjudged
    <2> QED
      BY <1>1, <1>2, <2>2, <2>3, WorkerStep
  <1> QED
    BY <1>4, <1>5

LEMMA RetryInv ==
    ASSUME Inv, Retry
    PROVE  Inv'
  <1>1. /\ Consistent(worker, job.attempts) /\ job \in JobRecord /\ worker.pc = "retrying"
        /\ message \in {None} \cup 0 .. Visibility
        /\ job.status = "queued" => job.attempts < MaxAttempts
    BY DEF Inv, TypeInv, BudgetInv, Retry
  <1>2. job.attempts < MaxAttempts /\ worker.delay \in 0 .. Deadline - 1
    BY <1>1 DEF Consistent, Jobless
  <1>3. worker.delay \in 0 .. Visibility
    BY <1>2, QuestionGenerationAssumption
  <1>4. /\ job' \in JobRecord /\ job'.attempts = job.attempts /\ job'.repairs = job.repairs
        /\ message' \in {None} \cup 0 .. Visibility
    <2>1. CASE job.status = "processing" /\ Agrees("queued", conf)
      <3>1. job' = [job EXCEPT !.status = "queued", !.wait = worker.delay]
            /\ message' = worker.delay
        BY <2>1 DEF Retry
      <3> QED
        BY <1>1, <1>2, <1>3, <3>1 DEF JobRecord
    <2>2. CASE ~(job.status = "processing" /\ Agrees("queued", conf))
      BY <1>1, <2>2 DEF Retry
    <2> QED
      BY <2>1, <2>2
  <1>5. worker' = Idle /\ UNCHANGED <<ttl, conf, current, stored, executions>>
    BY DEF Retry
  <1> QED
    BY <1>2, <1>4, <1>5, EndsRun DEF Inv, TypeInv, StoredInv

LEMMA FailInv ==
    ASSUME Inv, Fail
    PROVE  Inv'
  <1>1. /\ job \in JobRecord /\ message \in {None} \cup 0 .. Visibility
        /\ conf \in {"processing", "ready", "failed", "invalidated"}
        /\ job.status = "queued" => job.attempts < MaxAttempts
    BY DEF Inv, TypeInv, BudgetInv
  <1>2. /\ job' \in JobRecord /\ job'.attempts = job.attempts /\ job'.repairs = job.repairs
        /\ job'.status = "queued" => job.status = "queued"
        /\ conf' \in {"processing", "ready", "failed", "invalidated"}
        /\ message' \in {None} \cup 0 .. Visibility
    <2>1. CASE job.status = "processing" /\ Agrees("failed", Failed(conf))
      <3>1. job' = [job EXCEPT !.status = "failed"] /\ conf' = Failed(conf) /\ message' = None
        BY <2>1 DEF Fail
      <3> QED
        BY <1>1, <3>1 DEF JobRecord, Terminal, Failed
    <2>2. CASE ~(job.status = "processing" /\ Agrees("failed", Failed(conf)))
      BY <1>1, <2>2 DEF Fail
    <2> QED
      BY <2>1, <2>2
  <1>3. worker' = Idle /\ UNCHANGED <<ttl, current, stored, executions>>
    BY DEF Fail
  <1> QED
    BY <1>1, <1>2, <1>3, EndsRun DEF Inv, TypeInv, StoredInv

LEMMA CompleteInv ==
    ASSUME Inv, Complete
    PROVE  Inv'
  <1>1. /\ job \in JobRecord /\ message \in {None} \cup 0 .. Visibility
        /\ conf \in {"processing", "ready", "failed", "invalidated"}
        /\ job.status = "queued" => job.attempts < MaxAttempts
        /\ worker \in WorkerRecord /\ OutputCites(worker) /\ worker.pc = "completing"
        /\ stored \in Seq(SUBSET EligibleRows) /\ StoredInv
    BY DEF Inv, TypeInv, BudgetInv, Complete
  <1>2. worker.output \in Seq(SUBSET EligibleRows)
        /\ \A q \in DOMAIN worker.output : worker.output[q] # {}
    BY <1>1 DEF WorkerRecord, OutputCites
  <1>3. /\ job' \in JobRecord /\ job'.attempts = job.attempts /\ job'.repairs = job.repairs
        /\ job'.status = "queued" => job.status = "queued"
        /\ conf' \in {"processing", "ready", "failed", "invalidated"}
        /\ message' \in {None} \cup 0 .. Visibility
        /\ stored' \in Seq(SUBSET EligibleRows) /\ StoredInv'
    <2>1. CASE conf = "processing" /\ job.status = "processing"
      <3>1. job' = [job EXCEPT !.status = "succeeded"] /\ conf' = "ready" /\ message' = None
            /\ stored' = worker.output
        BY <2>1 DEF Complete
      <3> QED
        BY <1>1, <1>2, <3>1 DEF JobRecord, Terminal, StoredInv
    <2>2. CASE ~(conf = "processing" /\ job.status = "processing")
      BY <1>1, <2>2 DEF Complete, StoredInv
    <2> QED
      BY <2>1, <2>2
  <1>4. worker' = Idle /\ UNCHANGED <<ttl, current, executions>>
    BY DEF Complete
  <1> QED
    BY <1>1, <1>3, <1>4, EndsRun

LEMMA ForgetInv ==
    ASSUME Inv, Escape \/ Crash
    PROVE  Inv'
  <1>1. worker' = Idle /\ UNCHANGED <<ttl, job, message, conf, current, stored, executions>>
    BY DEF Escape, Crash
  <1> QED
    BY <1>1, EndsRun DEF Inv, TypeInv, BudgetInv, StoredInv

LEMMA RecoverExpiredInv ==
    ASSUME Inv, RecoverExpired
    PROVE  Inv'
  <1>1. job \in JobRecord /\ conf \in {"processing", "ready", "failed", "invalidated"}
    BY DEF Inv, TypeInv
  <1>2. /\ job' \in JobRecord /\ job'.attempts = job.attempts /\ job'.repairs = job.repairs
        /\ job'.status = "failed"
        /\ conf' \in {"processing", "ready", "failed", "invalidated"}
    BY <1>1 DEF RecoverExpired, JobRecord, Terminal, Failed
  <1> QED
    BY <1>2, OutsideStep DEF RecoverExpired, Inv, TypeInv

LEMMA LoseDocumentInv ==
    ASSUME Inv, NEW d \in Documents, LoseDocument(d)
    PROVE  Inv'
  <1>1. /\ current' \subseteq Documents
        /\ conf' \in {"processing", "ready", "failed", "invalidated"}
    BY DEF LoseDocument, Inv, TypeInv
  <1>2. UNCHANGED <<ttl, job, message, stored, worker, executions>>
    BY DEF LoseDocument
  <1> QED
    BY <1>1, <1>2, OutsideStep DEF Inv, TypeInv

LEMMA TickInv ==
    ASSUME Inv, Tick
    PROVE  Inv'
  <1>1. /\ ttl \in 0 .. Deadline /\ message \in {None} \cup 0 .. Visibility
        /\ job \in JobRecord /\ job.wait \in 0 .. Deadline - 1
    BY DEF Inv, TypeInv, JobRecord
  <1>2. Dec(ttl) \in 0 .. Deadline /\ Dec(job.wait) \in 0 .. Deadline - 1
    BY <1>1, QuestionGenerationAssumption DEF Dec
  <1>3. Dec(message) \in {None} \cup 0 .. Visibility
    BY <1>1, QuestionGenerationAssumption DEF Dec
  <1>4. /\ job' \in JobRecord /\ job'.attempts = job.attempts /\ job'.repairs = job.repairs
        /\ job'.status = job.status
    BY <1>1, <1>2 DEF Tick, JobRecord
  <1> QED
    BY <1>2, <1>3, <1>4, OutsideStep DEF Tick, Inv, TypeInv

-------------------------------------------------------------------------------
\* The theorems

LEMMA NextInv ==
    ASSUME Inv, [Next]_vars
    PROVE  Inv'
  <1>1. CASE Begin \/ ReadEmpty \/ Claim \/ RejectClaim \/ Discard \/ Execute
    BY <1>1, BeginInv, ReadEmptyInv, ClaimInv, RejectClaimInv, DiscardInv, ExecuteInv
  <1>2. CASE RetrieveEvidence
    BY <1>2, RetrieveEvidenceInv
  <1>3. ASSUME NEW levels \in Judgements, Judge(levels) PROVE Inv'
    BY <1>3, JudgeInv
  <1>4. ASSUME NEW refs \in References, Ask(refs) PROVE Inv'
    BY <1>4, AskInv
  <1>5. ASSUME NEW e \in ProviderErrors, ProviderFails(e) PROVE Inv'
    BY <1>5, ProviderFailsInv
  <1>6. CASE Repair
    BY <1>6, RepairInv
  <1>7. ASSUME NEW delay \in Delays(worker.error, worker.attempt), Decide(delay) PROVE Inv'
    BY <1>7, DecideInv
  <1>8. CASE Retry \/ Fail \/ Complete
    BY <1>8, RetryInv, FailInv, CompleteInv
  <1>9. CASE Escape \/ Crash
    BY <1>9, ForgetInv
  <1>10. CASE RecoverExpired \/ Tick
    BY <1>10, RecoverExpiredInv, TickInv
  <1>11. ASSUME NEW d \in Documents, LoseDocument(d) PROVE Inv'
    BY <1>11, LoseDocumentInv
  <1>12. CASE UNCHANGED vars
    BY <1>12, OutsideStep DEF vars, Inv, TypeInv
  <1> QED
    BY <1>1, <1>2, <1>3, <1>4, <1>5, <1>6, <1>7, <1>8, <1>9, <1>10, <1>11, <1>12
       DEF Next, Step

LEMMA Invariance == Spec => []Inv
  BY InitInv, NextInv, PTL DEF Spec

\* Every variable keeps its type: delays stay below the deadline, and judgements are about
\* as many chunks as were found.
THEOREM TypeCorrect == Spec => []TypeOK
  <1>1. ASSUME Inv PROVE TypeOK
    <2>1. worker \in WorkerRecord /\ Consistent(worker, job.attempts)
      BY <1>1 DEF Inv, TypeInv
    <2>2. /\ worker.pc \in Places /\ worker.delay \in {None} \cup 0 .. Deadline
          /\ worker.levels # <<>> => Len(worker.levels) = Len(worker.found)
      BY <2>1 DEF WorkerRecord, Consistent
    <2> QED
      BY <1>1, <2>2 DEF Inv, TypeInv, JobRecord, Places, TypeOK
  <1> QED
    BY <1>1, Invariance, PTL

\* The evidence of a question is the owner's, current and near enough, and was judged
\* relevant when the question was asked (_configuration, resolve_question_evidence).
THEOREM QuestionsCiteEvidenceHolds == Spec => []QuestionsCiteEvidence
  <1>1. ASSUME Inv PROVE QuestionsCiteEvidence
    <2>1. ASSUME worker.pc = "completing", NEW q \in DOMAIN worker.output,
                 NEW r \in worker.output[q]
          PROVE  \E n \in DOMAIN worker.found :
                   /\ r = worker.found[n]
                   /\ worker.levels[n] # "unsupported"
                   /\ "supported" \in Range(worker.levels) => worker.levels[n] = "supported"
      BY <1>1, <2>1 DEF Inv, OutputCites, Cites
    <2>2. ASSUME NEW q \in DOMAIN stored
          PROVE  /\ stored[q] # {}
                 /\ \A r \in stored[q] : /\ r.user = User
                                         /\ r.version = Versions[r.document]
                                         /\ r.similarity >= Threshold
      <3>1. stored[q] \in SUBSET EligibleRows /\ stored[q] # {}
        BY <1>1 DEF Inv, TypeInv, StoredInv
      <3> QED
        BY <3>1 DEF EligibleRows
    <2> QED
      BY <2>1, <2>2 DEF QuestionsCiteEvidence
  <1> QED
    BY <1>1, Invariance, PTL

\* Over all attempts, redeliveries, crashes and repairs the executor runs at most once per
\* attempt and once more for a repair (_execute_with_repair, RetryPlanner.decide).
THEOREM CallBudgetHolds == Spec => []CallBudget
  <1>1. ASSUME Inv PROVE CallBudget
    <2>1. /\ job.attempts \in 0 .. MaxAttempts /\ job.repairs \in 0 .. 1 /\ executions \in Nat
          /\ Paid(worker.pc, job.attempts, job.repairs)
      BY <1>1 DEF Inv, TypeInv, JobRecord, BudgetInv
    <2> QED
      BY <2>1, QuestionGenerationAssumption DEF Paid, CallBudget
  <1> QED
    BY <1>1, Invariance, PTL


-------------------------------------------------------------------------------
\* Speech streams

(***************************************************************************)
(* iter_tts_pcm lists chunks in order as well. Tts is TtsStream over       *)
(* MaxAttempts and job of this module and the parameters below; the two    *)
(* specifications are proved about one after the other, never together.    *)
(***************************************************************************)
CONSTANTS Worker, MaxChunks, MaxToken, Polls

VARIABLES status, table, work

Tts == INSTANCE TtsStream

StreamConstants ==
    /\ MaxChunks \in Nat \ {0} /\ MaxAttempts \in Nat \ {0}
    /\ MaxToken \in Nat \ {0} /\ Polls \in Nat \ {0}

ReaderRecord ==
    [at : {"closed", "polling", "fetched"}, token : 0 .. MaxToken,
     seq : -1 .. MaxChunks - 1, rows : Seq(Tts!Chunk), sent : Seq(Tts!Chunk),
     polls : 0 .. Polls, missed : SUBSET Tts!Chunk,
     why : {"none", "gone", "done", "timeout"}]

StreamTypes == Tts!TypeOK /\ reader \in ReaderRecord

\* An attempt is left for a job in the queue.
AttemptLeft == job = "queued" => attempt < MaxAttempts

\* The primary key of tts_stream_chunks; no chunk is of a generation to come.
TableInv ==
    /\ \A c, d \in table : c.token = d.token /\ c.seq = d.seq => c = d
    /\ \A c \in table : c.token <= token

InTable(n) == \E d \in table : d.token = token /\ d.seq = n

\* What the job has made so far, as long as it was claimed no more than once: chunks of its
\* first attempt, with none left out.
FirstAttemptInv ==
    attempt <= 1 =>
        \A c \in table : c.token = token =>
            c.attempt = 1 /\ attempt = 1 /\ \A n \in 0 .. c.seq : InTable(n)

\* A worker w that began with the current token.
Recent(w) == work[w].busy /\ work[w].token = token

\* A worker has an attempt of its own; the only one of a first attempt has appended all
\* there is, also after it was given up.
StreamWorkersInv ==
    \A w \in Worker :
        /\ work[w].busy => work[w].token \in 1 .. token /\ work[w].attempt >= 1
        /\ Recent(w) => work[w].attempt <= attempt
        /\ \A v \in Worker \ {w} :
              Recent(w) /\ Recent(v) => work[v].attempt # work[w].attempt
        /\ Recent(w) /\ attempt <= 1 /\ status # "gone" =>
              /\ \A n \in 0 .. work[w].next - 1 : InTable(n)
              /\ \A c \in table : c.token = token => c.seq < work[w].next

\* s goes on with the first attempt at the chunk number from.
GoesOn(s, from) ==
    \A i \in DOMAIN s :
        s[i].token = token /\ s[i].attempt = 1 /\ s[i].seq = from + i - 1

\* What the client has received is the beginning of the first attempt, and what the reader
\* has fetched goes on from there.
ReaderInv ==
    /\ reader.token <= token
    /\ reader.token = token /\ attempt <= 1 =>
          /\ GoesOn(reader.sent, 0)
          /\ reader.seq = Len(reader.sent) - 1
          /\ reader.at = "fetched" => GoesOn(reader.rows, Len(reader.sent))

StreamInv ==
    /\ StreamTypes /\ AttemptLeft /\ TableInv /\ FirstAttemptInv
    /\ StreamWorkersInv /\ ReaderInv

-------------------------------------------------------------------------------
\* Lists of chunks

BySeq(S) == {p \in S \X S : p[1].seq < p[2].seq}

\* Chunks that differ in their numbers have a list in order: so many come before each as
\* have smaller numbers.
LEMMA ChunkList ==
    ASSUME StreamConstants, NEW S \in SUBSET Tts!Chunk,
           \A c, d \in S : c.seq = d.seq => c = d
    PROVE  /\ IsFiniteSet(S)
           /\ InOrder(S, BySeq(S)) \in Seq(S)
           /\ \A i \in 1 .. Len(InOrder(S, BySeq(S))) :
                Cardinality({y \in S : y.seq < InOrder(S, BySeq(S))[i].seq}) = i - 1
  <1>1. IsFiniteSet(S)
    <2> DEFINE number == [c \in S |-> c.seq]
    <2>1. \A c \in S : c.seq \in 0 .. MaxChunks - 1
      BY DEF Tts!Chunk
    <2>2. number \in Injection(S, 0 .. MaxChunks - 1)
      BY <2>1 DEF Injection, IsInjective
    <2>3. IsFiniteSet(0 .. MaxChunks - 1)
      BY FS_Interval DEF StreamConstants
    <2> HIDE DEF number
    <2> QED
      BY <2>2, <2>3, FS_Injection
  <1>2. \A c \in S : c.seq \in Int
    BY DEF Tts!Chunk, StreamConstants
  <1>3. \A x, y \in S : <<x, y>> \in BySeq(S) <=> x.seq < y.seq
    BY DEF BySeq
  <1> DEFINE L == InOrder(S, BySeq(S))
  <1>4. /\ L \in [1 .. Cardinality(S) -> S]
        /\ \A i \in 1 .. Cardinality(S) :
             Cardinality({y \in S : <<y, L[i]>> \in BySeq(S)}) = i - 1
    <2>1. \A x \in S : <<x, x>> \notin BySeq(S)
      BY <1>2, <1>3
    <2>2. \A x, y \in S : x # y => <<x, y>> \in BySeq(S) \/ <<y, x>> \in BySeq(S)
      BY <1>2, <1>3
    <2>3. \A x, y, z \in S :
            <<x, y>> \in BySeq(S) /\ <<y, z>> \in BySeq(S) => <<x, z>> \in BySeq(S)
      BY <1>2, <1>3
    <2> HIDE DEF L
    <2> QED
      BY <1>1, <2>1, <2>2, <2>3, InOrderLists DEF L
  <1> HIDE DEF L
  <1>5. L \in Seq(S) /\ Len(L) = Cardinality(S) /\ DOMAIN L = 1 .. Cardinality(S)
    BY <1>1, <1>4, FS_CardinalityType, FunctionsAreSequences
  <1>6. ASSUME NEW i \in 1 .. Len(L)
        PROVE  Cardinality({y \in S : y.seq < L[i].seq}) = i - 1
    <2>1. L[i] \in S
      BY <1>4, <1>5
    <2>2. {y \in S : y.seq < L[i].seq} = {y \in S : <<y, L[i]>> \in BySeq(S)}
      BY <1>3, <2>1
    <2> QED
      BY <1>4, <1>5, <2>2
  <1> QED
    BY <1>1, <1>5, <1>6 DEF L

\* If no number is missing from the first on, the place of a chunk in the list is its number.
LEMMA ChunkListGoesOn ==
    ASSUME StreamConstants, NEW S \in SUBSET Tts!Chunk,
           \A c, d \in S : c.seq = d.seq => c = d,
           NEW from \in Nat,
           \A c \in S : c.seq >= from,
           \A c \in S : \A n \in from .. c.seq : \E d \in S : d.seq = n
    PROVE  \A i \in 1 .. Len(InOrder(S, BySeq(S))) :
             InOrder(S, BySeq(S))[i].seq = from + i - 1
  <1> SUFFICES ASSUME NEW i \in 1 .. Len(InOrder(S, BySeq(S)))
               PROVE  InOrder(S, BySeq(S))[i].seq = from + i - 1
    OBVIOUS
  <1>1. PICK x \in S : x = InOrder(S, BySeq(S))[i]
    BY ChunkList
  <1> DEFINE before == {y \in S : y.seq < x.seq}
             number == [y \in before |-> y.seq]
  <1>2. IsFiniteSet(before) /\ Cardinality(before) = i - 1
    BY <1>1, ChunkList, FS_Subset
  <1>3. \A y \in S : y.seq \in Int
    BY DEF Tts!Chunk, StreamConstants
  <1>4. number \in Bijection(before, from .. x.seq - 1)
    <2>1. number \in Injection(before, from .. x.seq - 1)
      BY <1>3 DEF Injection, IsInjective
    <2>2. \A n \in from .. x.seq - 1 : \E y \in before : number[y] = n
      BY <1>3
    <2> QED
      BY <2>1, <2>2 DEF Bijection, Surjection, Injection
  <1>5. Cardinality(from .. x.seq - 1) = Cardinality(before)
    <2> HIDE DEF before, number
    <2> QED
      BY <1>2, <1>4, FS_Bijection DEF ExistsBijection
  <1>6. Cardinality(from .. x.seq - 1) = x.seq - from
    <2>1. x.seq - 1 \in Int /\ from \in Int /\ x.seq >= from
      BY <1>3
    <2>2. Cardinality(from .. x.seq - 1)
            = IF from > x.seq - 1 THEN 0 ELSE x.seq - 1 - from + 1
      BY <2>1, FS_Interval
    <2> QED
      BY <1>3, <2>1, <2>2
  <1> QED
    BY <1>1, <1>2, <1>3, <1>5, <1>6

\* The library's operators are the same under both names.
LEMMA SameOperators ==
  /\ \A S, before : Tts!InOrder(S, before) = InOrder(S, before)
  /\ \A s : Tts!Last(s) = Last(s)
  <1>1. \A S, before : Tts!InOrder(S, before) = InOrder(S, before)
    BY DEF Tts!InOrder, InOrder, Tts!Cardinality, Cardinality
  <1>2. \A s : Tts!Last(s) = Last(s)
    BY DEF Tts!Last, Last
  <1> QED
    BY <1>1, <1>2

\* What a poll finds are chunks of the reader's token; in a first attempt they go on where
\* the reader is.
LEMMA NewRowsFacts ==
    ASSUME StreamConstants, StreamInv
    PROVE  /\ Tts!NewRows \in Seq(Tts!Chunk)
           /\ reader.token = token /\ attempt <= 1 => GoesOn(Tts!NewRows, reader.seq + 1)
  <1> DEFINE S == {c \in table : c.token = reader.token /\ c.seq > reader.seq}
  <1>1. S \in SUBSET Tts!Chunk /\ \A c, d \in S : c.seq = d.seq => c = d
    BY DEF StreamInv, StreamTypes, Tts!TypeOK, TableInv
  <1>2. Tts!NewRows = InOrder(S, BySeq(S))
    BY SameOperators DEF Tts!NewRows, BySeq
  <1>3. reader.seq \in Int /\ reader.seq >= -1
    BY DEF StreamInv, StreamTypes, ReaderRecord, StreamConstants
  <1>4. \A c \in S : c.seq \in Nat
    BY <1>1 DEF Tts!Chunk, StreamConstants
  <1>5. Tts!NewRows \in Seq(S)
    <2> HIDE DEF S
    <2> QED
      BY <1>1, <1>2, ChunkList
  <1>6. Tts!NewRows \in Seq(Tts!Chunk)
    <2> HIDE DEF S
    <2> QED
      BY <1>1, <1>5
  <1>7. ASSUME reader.token = token, attempt <= 1
        PROVE  GoesOn(Tts!NewRows, reader.seq + 1)
    <2>1. ASSUME NEW c \in S PROVE c.seq >= reader.seq + 1 /\ c.token = token /\ c.attempt = 1
      BY <1>3, <1>4, <1>7 DEF StreamInv, FirstAttemptInv
    <2>2. ASSUME NEW c \in S, NEW n \in reader.seq + 1 .. c.seq
          PROVE  \E d \in S : d.seq = n
      <3>1. n \in 0 .. c.seq
        BY <1>3, <1>4
      <3>2. InTable(n)
        BY <1>7, <3>1 DEF StreamInv, FirstAttemptInv
      <3> QED
        BY <1>3, <1>7, <3>2 DEF InTable
    <2> HIDE DEF S
    <2>3. \A i \in 1 .. Len(Tts!NewRows) : Tts!NewRows[i].seq = reader.seq + 1 + i - 1
      <3>1. PICK from \in Nat : from = reader.seq + 1
        BY <1>3
      <3>2. /\ \A c \in S : c.seq >= from
            /\ \A c \in S : \A n \in from .. c.seq : \E d \in S : d.seq = n
        BY <2>1, <2>2, <3>1
      <3>3. \A i \in 1 .. Len(InOrder(S, BySeq(S))) :
              InOrder(S, BySeq(S))[i].seq = from + i - 1
        BY <1>1, <3>2, ChunkListGoesOn
      <3> QED
        BY <1>2, <3>1, <3>3
    <2>4. \A i \in DOMAIN Tts!NewRows : i \in 1 .. Len(Tts!NewRows) /\ Tts!NewRows[i] \in S
      BY <1>5
    <2> QED
      BY <2>1, <2>3, <2>4 DEF GoesOn
  <1> QED
    BY <1>6, <1>7

\* What a reader holds when it has yielded its rows.
LEMMA YieldedFacts ==
    ASSUME StreamConstants, StreamInv, reader.at = "fetched"
    PROVE  /\ Tts!Yielded \in ReaderRecord
           /\ Tts!Yielded.at = "polling" /\ Tts!Yielded.token = reader.token
           /\ reader.token = token /\ attempt <= 1 =>
                 /\ GoesOn(Tts!Yielded.sent, 0)
                 /\ Tts!Yielded.seq = Len(Tts!Yielded.sent) - 1
  <1> DEFINE rows == reader.rows
             sent == reader.sent
             new == Tts!Yielded
             seq == IF rows = <<>> THEN reader.seq ELSE Last(rows).seq
  <1>1. /\ reader \in ReaderRecord /\ rows \in Seq(Tts!Chunk) /\ sent \in Seq(Tts!Chunk)
        /\ reader.seq \in -1 .. MaxChunks - 1
    BY DEF StreamInv, StreamTypes, ReaderRecord
  <1>2. /\ new = [reader EXCEPT !.at = "polling", !.rows = <<>>, !.sent = sent \o rows,
                                !.seq = seq]
        /\ new.sent = sent \o rows /\ new.seq = seq
        /\ new.at = "polling" /\ new.token = reader.token
    <2>1. new = [reader EXCEPT !.at = "polling", !.rows = <<>>, !.sent = sent \o rows,
                               !.seq = seq]
      BY SameOperators DEF Tts!Yielded
    <2> HIDE DEF rows, sent, new, seq
    <2> QED
      BY <1>1, <2>1 DEF ReaderRecord
  <1>3. rows # <<>> => Len(rows) \in 1 .. Len(rows) /\ Last(rows) = rows[Len(rows)]
    BY <1>1 DEF Last
  <1>4. seq \in -1 .. MaxChunks - 1
    <2>1. rows # <<>> => Last(rows) \in Tts!Chunk
      BY <1>1, <1>3
    <2>2. \A c \in Tts!Chunk : c.seq \in -1 .. MaxChunks - 1
      BY DEF Tts!Chunk, StreamConstants
    <2> QED
      BY <1>1, <2>1, <2>2
  <1>5. sent \o rows \in Seq(Tts!Chunk) /\ <<>> \in Seq(Tts!Chunk)
    BY <1>1
  <1>6. new \in ReaderRecord
    <2> HIDE DEF seq, rows, sent, new
    <2> QED
      BY <1>1, <1>2, <1>4, <1>5 DEF ReaderRecord
  <1>7. ASSUME reader.token = token, attempt <= 1
        PROVE  GoesOn(sent \o rows, 0) /\ seq = Len(sent \o rows) - 1
    <2>1. GoesOn(sent, 0) /\ reader.seq = Len(sent) - 1 /\ GoesOn(rows, Len(sent))
      BY <1>7 DEF StreamInv, ReaderInv
    <2>2. /\ Len(sent \o rows) = Len(sent) + Len(rows) /\ Len(sent) \in Nat /\ Len(rows) \in Nat
          /\ DOMAIN sent = 1 .. Len(sent) /\ DOMAIN rows = 1 .. Len(rows)
          /\ DOMAIN (sent \o rows) = 1 .. Len(sent) + Len(rows)
      BY <1>1
    <2>3. ASSUME NEW i \in 1 .. Len(sent) + Len(rows)
          PROVE  LET c == (sent \o rows)[i]
                 IN  c.token = token /\ c.attempt = 1 /\ c.seq = i - 1
      <3>1. CASE i <= Len(sent)
        BY <1>1, <2>1, <2>2, <3>1 DEF GoesOn
      <3>2. CASE i > Len(sent)
        <4> HIDE DEF sent, rows
        <4>1. (sent \o rows)[i] = rows[i - Len(sent)] /\ i - Len(sent) \in 1 .. Len(rows)
          BY <1>1, <2>2, <3>2
        <4>2. rows[i - Len(sent)].seq = Len(sent) + (i - Len(sent)) - 1
          BY <2>1, <2>2, <4>1 DEF GoesOn
        <4> QED
          BY <2>1, <2>2, <4>1, <4>2 DEF GoesOn
      <3> QED
        BY <2>2, <3>1, <3>2
    <2>4. GoesOn(sent \o rows, 0)
      <3> HIDE DEF sent, rows
      <3> QED
        BY <2>2, <2>3 DEF GoesOn
    <2>5. seq = Len(sent \o rows) - 1
      <3>1. CASE rows = <<>>
        BY <1>1, <2>1, <3>1
      <3>2. CASE rows # <<>>
        <4>1. rows[Len(rows)].seq = Len(sent) + Len(rows) - 1
          BY <1>3, <2>1, <2>2, <3>2 DEF GoesOn
        <4> HIDE DEF sent, rows
        <4> QED
          BY <1>3, <2>2, <3>2, <4>1
      <3> QED
        BY <3>1, <3>2
    <2> QED
      BY <2>4, <2>5
  <1> QED
    BY <1>2, <1>6, <1>7

-------------------------------------------------------------------------------
\* The steps of a stream

\* The reader is not touched by a step that keeps the token and does not undo attempts.
LEMMA ReaderKept ==
    ASSUME StreamInv, UNCHANGED <<reader, token>>, attempt' <= 1 => attempt <= 1
    PROVE  ReaderInv' /\ (reader \in ReaderRecord)'
BY DEF StreamInv, StreamTypes, ReaderInv, GoesOn, ReaderRecord

\* What the steps of a reader leave alone.
LEMMA ReaderSteps ==
    ASSUME StreamInv, UNCHANGED <<status, token, job, attempt, table, work>>,
           (reader \in ReaderRecord)', ReaderInv'
    PROVE  StreamInv'
<1>1. Tts!TypeOK'
  BY DEF StreamInv, StreamTypes, Tts!TypeOK, ReaderRecord
<1> QED
  BY <1>1 DEF StreamInv, StreamTypes, AttemptLeft, TableInv, FirstAttemptInv, InTable,
     StreamWorkersInv, Recent

\* A claim throws the chunks away and begins a new attempt.
LEMMA ClaimStream ==
    ASSUME StreamConstants, StreamInv, NEW w \in Worker, Tts!Claim(w)
    PROVE  StreamInv'
<1> USE DEF StreamInv, StreamTypes
<1>1. /\ attempt \in 0 .. MaxAttempts /\ attempt < MaxAttempts /\ attempt' = attempt + 1
      /\ MaxAttempts \in Nat /\ MaxChunks \in Nat /\ MaxToken \in Nat
      /\ table' = {} /\ job' = "processing" /\ UNCHANGED <<status, token, reader>>
      /\ token \in 1 .. MaxToken
  BY DEF Tts!Claim, AttemptLeft, StreamConstants, Tts!TypeOK
<1>2. /\ work' = [work EXCEPT ![w] = [busy |-> TRUE, token |-> token,
                                      attempt |-> attempt + 1, next |-> 0]]
      /\ work \in [Worker -> [busy : BOOLEAN, token : 0 .. MaxToken,
                              attempt : 0 .. MaxAttempts, next : 0 .. MaxChunks]]
  BY DEF Tts!Claim, Tts!TypeOK
<1>3. ReaderInv' /\ (reader \in ReaderRecord)'
  BY <1>1, ReaderKept
<1>4. work' \in [Worker -> [busy : BOOLEAN, token : 0 .. MaxToken,
                            attempt : 0 .. MaxAttempts, next : 0 .. MaxChunks]]
  BY <1>1, <1>2
<1>5. Tts!TypeOK'
  BY <1>1, <1>4 DEF Tts!TypeOK
<1>6. AttemptLeft' /\ TableInv' /\ FirstAttemptInv'
  BY <1>1 DEF AttemptLeft, TableInv, FirstAttemptInv
<1>7. StreamWorkersInv'
  <2>1. \A v \in Worker \ {w} : work'[v] = work[v]
    BY <1>2
  <2>2. work'[w] = [busy |-> TRUE, token |-> token, attempt |-> attempt + 1, next |-> 0]
    BY <1>2
  <2>3. \A v \in Worker : Recent(v) => work[v].attempt \in Int /\ work[v].attempt <= attempt
    BY <1>2 DEF StreamWorkersInv
  <2>4. \A v \in Worker : Recent(v) => work[v].attempt >= 1
    BY DEF StreamWorkersInv, Recent
  <2>5. \A v \in Worker : Recent(v)' <=> v = w \/ Recent(v)
    BY <1>1, <2>1, <2>2 DEF Recent
  <2>6. \A v \in Worker \ {w} : Recent(v)' => attempt' > 1
    BY <1>1, <2>3, <2>4, <2>5
  <2>7. \A v \in Worker \ {w} : work'[v].busy => work'[v].token \in 1 .. token' /\ work'[v].attempt >= 1
    BY <1>1, <2>1 DEF StreamWorkersInv
  <2> QED
    BY <1>1, <2>1, <2>2, <2>3, <2>5, <2>6, <2>7 DEF StreamWorkersInv
<1> QED
  BY <1>3, <1>5, <1>6, <1>7

\* A worker that ends leaves its chunks; a retry or an end of the job changes no chunk.
LEMMA WorkerEnds ==
    ASSUME StreamConstants, StreamInv, NEW w \in Worker,
           Tts!Complete(w) \/ Tts!Retry(w) \/ Tts!Fail(w) \/ Tts!Crash(w)
    PROVE  StreamInv'
<1> USE DEF StreamInv, StreamTypes
<1>1. /\ UNCHANGED <<token, attempt, table, reader>>
      /\ work' = [work EXCEPT ![w] = Tts!Idle]
      /\ status' \in {status, "ready", "failed"} /\ (status' = "gone" <=> status = "gone")
      /\ job' \in {"queued", "processing", "ended"}
      /\ job' = "queued" => job = "queued" \/ attempt < MaxAttempts
  BY DEF Tts!Complete, Tts!Retry, Tts!Fail, Tts!Crash, Tts!IsCurrent, Tts!TypeOK
<1>2. ReaderInv' /\ (reader \in ReaderRecord)'
  BY <1>1, ReaderKept
<1>3. /\ work \in [Worker -> [busy : BOOLEAN, token : 0 .. MaxToken,
                              attempt : 0 .. MaxAttempts, next : 0 .. MaxChunks]]
      /\ Tts!Idle \in [busy : BOOLEAN, token : 0 .. MaxToken,
                       attempt : 0 .. MaxAttempts, next : 0 .. MaxChunks]
      /\ ~Tts!Idle.busy
  BY DEF Tts!TypeOK, Tts!Idle, StreamConstants
<1>4. Tts!TypeOK'
  BY <1>1, <1>3 DEF Tts!TypeOK
<1>5. AttemptLeft' /\ TableInv' /\ FirstAttemptInv'
  BY <1>1 DEF AttemptLeft, TableInv, FirstAttemptInv, InTable
<1>6. StreamWorkersInv'
  <2>1. \A v \in Worker : work'[v] = IF v = w THEN Tts!Idle ELSE work[v]
    BY <1>1, <1>3
  <2>2. \A v \in Worker : Recent(v)' => v # w /\ Recent(v) /\ work'[v] = work[v]
    BY <1>1, <1>3, <2>1 DEF Recent
  <2>3. \A n : InTable(n)' <=> InTable(n)
    BY <1>1 DEF InTable
  <2> QED
    BY <1>1, <1>3, <2>1, <2>2, <2>3 DEF StreamWorkersInv
<1> QED
  BY <1>2, <1>4, <1>5, <1>6

\* A chunk is appended with the next number of its worker, unless there is one already.
LEMMA AppendStream ==
    ASSUME StreamConstants, StreamInv, NEW w \in Worker, Tts!Append1(w)
    PROVE  StreamInv'
<1> USE DEF StreamInv, StreamTypes
<1> DEFINE c == [token |-> work[w].token, attempt |-> work[w].attempt, seq |-> work[w].next]
<1>1. /\ work[w].busy /\ work[w].next < MaxChunks /\ status # "gone"
      /\ table' = IF \E d \in table : d.token = c.token /\ d.seq = c.seq
                  THEN table ELSE table \cup {c}
      /\ work' = [work EXCEPT ![w].next = work[w].next + 1]
      /\ UNCHANGED <<status, token, job, attempt, reader>>
  BY DEF Tts!Append1
<1>2. /\ work \in [Worker -> [busy : BOOLEAN, token : 0 .. MaxToken,
                              attempt : 0 .. MaxAttempts, next : 0 .. MaxChunks]]
      /\ MaxAttempts \in Nat /\ MaxChunks \in Nat /\ MaxToken \in Nat
      /\ token \in 1 .. MaxToken /\ attempt \in 0 .. MaxAttempts
      /\ table \subseteq Tts!Chunk
  BY DEF Tts!TypeOK, StreamConstants
<1>3. work[w].token \in 1 .. token /\ work[w].attempt \in 1 .. MaxAttempts
      /\ work[w].next \in 0 .. MaxChunks - 1
  BY <1>1, <1>2 DEF StreamWorkersInv
<1>4. c \in Tts!Chunk
  BY <1>2, <1>3 DEF Tts!Chunk
<1>5. /\ \A v \in Worker \ {w} : work'[v] = work[v]
      /\ work'[w] = [work[w] EXCEPT !.next = work[w].next + 1]
      /\ work'[w].busy = work[w].busy /\ work'[w].token = work[w].token
      /\ work'[w].attempt = work[w].attempt /\ work'[w].next = work[w].next + 1
      /\ work' \in [Worker -> [busy : BOOLEAN, token : 0 .. MaxToken,
                               attempt : 0 .. MaxAttempts, next : 0 .. MaxChunks]]
  <2>1. work[w].next + 1 \in 0 .. MaxChunks
    BY <1>2, <1>3
  <2> HIDE DEF c
  <2> QED
    BY <1>1, <1>2, <2>1
<1>6. /\ c.token = work[w].token /\ c.attempt = work[w].attempt /\ c.seq = work[w].next
  OBVIOUS
<1> HIDE DEF c
<1>7. /\ \A d \in table' : d \in table \/ d = c
      /\ table \subseteq table'
      /\ \E d \in table' : d.token = c.token /\ d.seq = c.seq
      /\ c \in table' \ table => \A d \in table : ~(d.token = c.token /\ d.seq = c.seq)
  BY <1>1
<1>8. Tts!TypeOK' /\ AttemptLeft'
  BY <1>1, <1>2, <1>4, <1>5, <1>7 DEF Tts!TypeOK, AttemptLeft
<1>9. ReaderInv' /\ (reader \in ReaderRecord)'
  BY <1>1, ReaderKept
<1>10. TableInv'
  BY <1>1, <1>2, <1>3, <1>6, <1>7 DEF TableInv
<1>11. \A v \in Worker : Recent(v)' <=> Recent(v)
  BY <1>1, <1>5 DEF Recent
<1>12. \A n : InTable(n) => InTable(n)'
  BY <1>1, <1>7 DEF InTable
<1>13. Recent(w) <=> c.token = token
  BY <1>1, <1>6 DEF Recent
<1>14. Recent(w) /\ attempt <= 1 => c.attempt = 1 /\ attempt = 1
  BY <1>2, <1>3, <1>6 DEF StreamWorkersInv
<1>15. Recent(w) => \E d \in table' : d.token = token' /\ d.seq = work[w].next
  BY <1>1, <1>6, <1>7, <1>13
<1>16. Recent(w) /\ attempt <= 1 => \A n \in 0 .. work[w].next : InTable(n)'
  <2> SUFFICES ASSUME Recent(w), attempt <= 1, NEW n \in 0 .. work[w].next
               PROVE  InTable(n)'
    OBVIOUS
  <2>1. CASE n = work[w].next
    BY <1>15, <2>1 DEF InTable
  <2>2. CASE n # work[w].next
    <3>1. n \in 0 .. work[w].next - 1
      BY <1>3, <2>2
    <3> QED
      BY <1>1, <1>12, <3>1 DEF StreamWorkersInv
  <2> QED
    BY <2>1, <2>2
<1>17. FirstAttemptInv'
  <2> SUFFICES ASSUME attempt <= 1, NEW d \in table', d.token = token
               PROVE  d.attempt = 1 /\ attempt = 1 /\ \A n \in 0 .. d.seq : InTable(n)'
    BY <1>1 DEF FirstAttemptInv
  <2>1. CASE d \in table
    BY <1>12, <2>1 DEF FirstAttemptInv
  <2>2. CASE d = c
    BY <1>6, <1>13, <1>14, <1>16, <2>2
  <2> QED
    BY <1>7, <2>1, <2>2
<1>18. StreamWorkersInv'
  <2> SUFFICES ASSUME NEW v \in Worker
               PROVE  /\ work'[v].busy => work'[v].token \in 1 .. token /\ work'[v].attempt >= 1
                      /\ Recent(v) => work'[v].attempt <= attempt
                      /\ \A u \in Worker \ {v} :
                            Recent(v) /\ Recent(u) => work'[u].attempt # work'[v].attempt
                      /\ Recent(v) /\ attempt <= 1 =>
                            /\ \A n \in 0 .. work'[v].next - 1 : InTable(n)'
                            /\ \A d \in table' : d.token = token => d.seq < work'[v].next
    BY <1>1, <1>11 DEF StreamWorkersInv
  <2>1. \A u \in Worker : /\ work'[u].busy = work[u].busy /\ work'[u].token = work[u].token
                          /\ work'[u].attempt = work[u].attempt
    BY <1>5
  <2>2. /\ work'[v].busy => work'[v].token \in 1 .. token /\ work'[v].attempt >= 1
        /\ Recent(v) => work'[v].attempt <= attempt
        /\ \A u \in Worker \ {v} :
              Recent(v) /\ Recent(u) => work'[u].attempt # work'[v].attempt
    BY <2>1 DEF StreamWorkersInv
  <2>3. ASSUME Recent(v), attempt <= 1
        PROVE  /\ \A n \in 0 .. work'[v].next - 1 : InTable(n)'
               /\ \A d \in table' : d.token = token => d.seq < work'[v].next
    <3>1. CASE v = w
      <4>1. work'[v].next = work[w].next + 1 /\ work[w].next \in Int
        BY <1>3, <1>5, <3>1
      <4>2. \A n \in 0 .. work'[v].next - 1 : InTable(n)'
        BY <1>16, <2>3, <3>1, <4>1
      <4>3. \A d \in table : d.token = token => d.seq < work[w].next /\ d.seq \in Int
        BY <1>1, <1>2, <2>3, <3>1 DEF StreamWorkersInv, Tts!Chunk
      <4> QED
        BY <1>6, <1>7, <4>1, <4>2, <4>3
    <3>2. CASE v # w
      <4>1. ~Recent(w)
        <5>1. Recent(w) => work[v].attempt # work[w].attempt
          BY <2>3, <3>2 DEF StreamWorkersInv
        <5>2. work[v].attempt \in Int /\ 1 <= work[v].attempt /\ work[v].attempt <= attempt
          BY <1>2, <2>3 DEF StreamWorkersInv, Recent
        <5>3. Recent(w) => work[w].attempt = 1
          BY <1>6, <1>14, <2>3
        <5> QED
          BY <1>2, <2>3, <5>1, <5>2, <5>3
      <4>2. /\ \A n \in 0 .. work[v].next - 1 : InTable(n)
            /\ \A d \in table : d.token = token => d.seq < work[v].next
        BY <1>1, <2>3 DEF StreamWorkersInv
      <4> QED
        BY <1>5, <1>7, <1>12, <1>13, <3>2, <4>1, <4>2
    <3> QED
      BY <3>1, <3>2
  <2> QED
    BY <2>2, <2>3
<1> QED
  BY <1>8, <1>9, <1>10, <1>17, <1>18

\* The reaper, a new generation, and the deletion of the row.
LEMMA RowSteps ==
    ASSUME StreamConstants, StreamInv, Tts!Reap \/ Tts!RetryTts \/ Tts!DeleteRow
    PROVE  StreamInv'
<1> USE DEF StreamInv, StreamTypes
<1>1. CASE Tts!Reap
  <2>1. /\ UNCHANGED <<token, attempt, table, work, reader>> /\ job' = "ended"
        /\ status' = "failed" /\ status # "gone"
    BY <1>1 DEF Tts!Reap
  <2>2. ReaderInv' /\ (reader \in ReaderRecord)'
    BY <2>1, ReaderKept
  <2> QED
    BY <2>1, <2>2 DEF Tts!TypeOK, AttemptLeft, TableInv, FirstAttemptInv, InTable,
       StreamWorkersInv, Recent
<1>2. CASE Tts!RetryTts
  <2>1. /\ token \in 1 .. MaxToken /\ token < MaxToken /\ token' = token + 1 /\ attempt' = 0
        /\ status' = "processing" /\ job' = "queued" /\ UNCHANGED <<table, work, reader>>
        /\ MaxToken \in Nat /\ MaxAttempts \in Nat \ {0}
    BY <1>2 DEF Tts!RetryTts, Tts!TypeOK, StreamConstants
  <2>2. Tts!TypeOK' /\ AttemptLeft'
    BY <2>1 DEF Tts!TypeOK, AttemptLeft
  <2>3. (reader \in ReaderRecord)' /\ ReaderInv'
    BY <2>1 DEF ReaderInv, ReaderRecord
  <2>4. \A d \in table : d.token \in Int /\ d.token <= token
    BY DEF TableInv, Tts!TypeOK, Tts!Chunk
  <2>5. TableInv' /\ FirstAttemptInv'
    BY <2>1, <2>4 DEF TableInv, FirstAttemptInv
  <2>6. \A v \in Worker : work[v].busy => work[v].token \in 1 .. token
    BY DEF StreamWorkersInv
  <2>7. \A v \in Worker : ~Recent(v)'
    BY <2>1, <2>6 DEF Recent
  <2>8. StreamWorkersInv'
    BY <2>1, <2>6, <2>7 DEF StreamWorkersInv
  <2> QED
    BY <2>2, <2>3, <2>5, <2>8
<1>3. CASE Tts!DeleteRow
  <2>1. /\ UNCHANGED <<token, attempt, work, reader>> /\ job' = "ended"
        /\ status' = "gone" /\ table' = {}
    BY <1>3 DEF Tts!DeleteRow
  <2>2. ReaderInv' /\ (reader \in ReaderRecord)'
    BY <2>1, ReaderKept
  <2> QED
    BY <2>1, <2>2 DEF Tts!TypeOK, AttemptLeft, TableInv, FirstAttemptInv,
       StreamWorkersInv, Recent
<1> QED
  BY <1>1, <1>2, <1>3

\* A reader that opens, fetches rows, or times out.
LEMMA ReaderPolls ==
    ASSUME StreamConstants, StreamInv, Tts!Open \/ Tts!FetchRows \/ Tts!TimeOut
    PROVE  StreamInv'
<1>1. /\ UNCHANGED <<status, token, job, attempt, table, work>>
      /\ reader \in ReaderRecord /\ token \in 1 .. MaxToken
      /\ MaxToken \in Nat /\ MaxChunks \in Nat \ {0} /\ Polls \in Nat
  BY DEF Tts!Open, Tts!FetchRows, Tts!TimeOut, StreamInv, StreamTypes, StreamConstants,
     Tts!TypeOK
<1>2. CASE Tts!Open
  <2>1. <<>> \in Seq(Tts!Chunk) /\ DOMAIN <<>> = {} /\ Len(<<>>) = 0
    OBVIOUS
  <2>2. reader' = [at |-> "polling", token |-> token, seq |-> -1, rows |-> <<>>, sent |-> <<>>,
                   polls |-> Polls, missed |-> {}, why |-> "none"]
    BY <1>2 DEF Tts!Open, Tts!Closed
  <2>3. (reader \in ReaderRecord)'
    BY <1>1, <2>1, <2>2 DEF ReaderRecord
  <2>4. ReaderInv'
    BY <1>1, <2>1, <2>2 DEF ReaderInv, GoesOn
  <2> QED
    BY <1>1, <2>3, <2>4, ReaderSteps
<1>3. CASE Tts!FetchRows
  <2>1. /\ reader.at = "polling" /\ reader.polls > 0
        /\ reader' = [reader EXCEPT !.at = "fetched", !.rows = Tts!NewRows,
                                    !.polls = reader.polls - 1]
    BY <1>3 DEF Tts!FetchRows
  <2>2. Tts!NewRows \in Seq(Tts!Chunk)
    BY NewRowsFacts
  <2>3. (reader \in ReaderRecord)'
    <3>1. reader.polls - 1 \in 0 .. Polls
      BY <1>1, <2>1 DEF ReaderRecord
    <3> QED
      BY <1>1, <2>1, <2>2, <3>1 DEF ReaderRecord
  <2>4. /\ reader'.token = reader.token /\ reader'.sent = reader.sent
        /\ reader'.seq = reader.seq /\ reader'.rows = Tts!NewRows
    BY <1>1, <2>1 DEF ReaderRecord
  <2>5. ASSUME reader.token = token, attempt <= 1
        PROVE  /\ GoesOn(reader.sent, 0) /\ reader.seq = Len(reader.sent) - 1
               /\ GoesOn(Tts!NewRows, Len(reader.sent))
    <3>1. GoesOn(reader.sent, 0) /\ reader.seq = Len(reader.sent) - 1
      BY <2>5 DEF StreamInv, ReaderInv
    <3>2. reader.seq + 1 = Len(reader.sent)
      BY <1>1, <3>1 DEF ReaderRecord
    <3> QED
      BY <2>5, <3>1, <3>2, NewRowsFacts
  <2>6. reader.token <= token
    BY DEF StreamInv, ReaderInv
  <2>7. ReaderInv'
    BY <1>1, <2>4, <2>5, <2>6 DEF ReaderInv, GoesOn
  <2> QED
    BY <1>1, <2>3, <2>7, ReaderSteps
<1>4. CASE Tts!TimeOut
  <2>1. reader' = [reader EXCEPT !.at = "closed", !.why = "timeout"]
    BY <1>4 DEF Tts!TimeOut
  <2>2. (reader \in ReaderRecord)'
    BY <1>1, <2>1 DEF ReaderRecord
  <2>3. /\ reader'.token = reader.token /\ reader'.sent = reader.sent
        /\ reader'.seq = reader.seq /\ reader'.at = "closed"
    BY <1>1, <2>1 DEF ReaderRecord
  <2>4. ReaderInv'
    BY <1>1, <2>3 DEF StreamInv, ReaderInv, GoesOn
  <2> QED
    BY <1>1, <2>2, <2>4, ReaderSteps
<1> QED
  BY <1>2, <1>3, <1>4

\* A reader that looks at the row's state yields what it fetched, and then goes on, begins
\* the new generation, or closes.
LEMMA ReaderLooks ==
    ASSUME StreamConstants, StreamInv, Tts!FetchState
    PROVE  StreamInv'
<1> DEFINE y == Tts!Yielded
<1>1. /\ UNCHANGED <<status, token, job, attempt, table, work>>
      /\ reader.at = "fetched" /\ token \in 1 .. MaxToken
      /\ MaxToken \in Nat /\ MaxChunks \in Nat \ {0}
      /\ reader' \in {Tts!Ends("gone"), Tts!Restart, Tts!Ends("done"), y}
  BY DEF Tts!FetchState, StreamInv, StreamTypes, StreamConstants, Tts!TypeOK
<1>2. /\ y \in ReaderRecord /\ y.at = "polling" /\ y.token = reader.token
      /\ reader.token = token /\ attempt <= 1 =>
            GoesOn(y.sent, 0) /\ y.seq = Len(y.sent) - 1
  BY <1>1, YieldedFacts
<1>3. reader.token <= token
  BY DEF StreamInv, ReaderInv
<1>4. CASE reader' = Tts!Restart
  <2>1. <<>> \in Seq(Tts!Chunk) /\ DOMAIN <<>> = {} /\ Len(<<>>) = 0
    OBVIOUS
  <2>2. reader' = [y EXCEPT !.token = token, !.seq = -1, !.sent = <<>>]
    BY <1>4 DEF Tts!Restart
  <2> HIDE DEF y
  <2>3. (reader \in ReaderRecord)'
    <3>1. token \in 0 .. MaxToken /\ -1 \in -1 .. MaxChunks - 1
      BY <1>1
    <3> QED
      BY <1>2, <2>1, <2>2, <3>1 DEF ReaderRecord
  <2>4. /\ reader'.token = token /\ reader'.sent = <<>> /\ reader'.seq = -1
        /\ reader'.at = "polling"
    BY <1>2, <2>2 DEF ReaderRecord
  <2>5. ReaderInv'
    BY <1>1, <2>1, <2>4 DEF ReaderInv, GoesOn
  <2> QED
    BY <1>1, <2>3, <2>5, ReaderSteps
<1>5. CASE reader' \in {Tts!Ends("gone"), Tts!Ends("done"), y}
  <2>1. PICK at \in {"polling", "closed"}, why \in {"none", "gone", "done", "timeout"},
             missed \in SUBSET Tts!Chunk :
          reader' = [y EXCEPT !.at = at, !.why = why, !.missed = missed]
    <3>1. Tts!Unsent \in SUBSET Tts!Chunk
      BY DEF Tts!Unsent, StreamInv, StreamTypes, Tts!TypeOK
    <3>2. CASE reader' = y
      <4> HIDE DEF y
      <4>1. y = [y EXCEPT !.at = y.at, !.why = y.why, !.missed = y.missed]
        BY <1>2 DEF ReaderRecord
      <4>2. y.why \in {"none", "gone", "done", "timeout"} /\ y.missed \in SUBSET Tts!Chunk
        BY <1>2 DEF ReaderRecord
      <4> QED
        BY <1>2, <3>2, <4>1, <4>2
    <3>3. CASE reader' \in {Tts!Ends("gone"), Tts!Ends("done")}
      BY <3>1, <3>3 DEF Tts!Ends
    <3> QED
      BY <1>5, <3>2, <3>3
  <2> HIDE DEF y
  <2>2. (reader \in ReaderRecord)'
    BY <1>1, <1>2, <2>1 DEF ReaderRecord
  <2>3. /\ reader'.token = reader.token /\ reader'.sent = y.sent
        /\ reader'.seq = y.seq /\ reader'.at # "fetched"
    BY <1>2, <2>1 DEF ReaderRecord
  <2>4. ReaderInv'
    BY <1>1, <1>2, <1>3, <2>3 DEF ReaderInv, GoesOn
  <2> QED
    BY <1>1, <2>2, <2>4, ReaderSteps
<1> QED
  BY <1>1, <1>4, <1>5

-------------------------------------------------------------------------------
LEMMA StreamInit ==
    ASSUME StreamConstants, Tts!Init
    PROVE  StreamInv
<1>1. <<>> \in Seq(Tts!Chunk) /\ DOMAIN <<>> = {} /\ Len(<<>>) = 0
  OBVIOUS
<1>2. reader = [at |-> "closed", token |-> 0, seq |-> -1, rows |-> <<>>, sent |-> <<>>,
                polls |-> 0, missed |-> {}, why |-> "none"]
  BY DEF Tts!Init, Tts!Closed
<1>3. reader \in ReaderRecord
  BY <1>1, <1>2 DEF ReaderRecord, StreamConstants
<1>4. \A w \in Worker : work[w] = Tts!Idle /\ ~work[w].busy
  BY DEF Tts!Init, Tts!Idle
<1>5. Tts!TypeOK
  BY <1>1, <1>2 DEF Tts!Init, Tts!TypeOK, Tts!Idle, StreamConstants
<1>6. AttemptLeft /\ TableInv /\ FirstAttemptInv
  BY DEF Tts!Init, StreamConstants, AttemptLeft, TableInv, FirstAttemptInv
<1>7. StreamWorkersInv
  BY <1>4 DEF StreamWorkersInv, Recent
<1>8. ReaderInv
  BY <1>1, <1>2 DEF Tts!Init, ReaderInv, GoesOn
<1> QED
  BY <1>3, <1>5, <1>6, <1>7, <1>8 DEF StreamInv, StreamTypes

LEMMA StreamNext ==
    ASSUME StreamConstants, StreamInv, [Tts!Next]_(Tts!vars)
    PROVE  StreamInv'
<1>1. CASE UNCHANGED Tts!vars
  BY <1>1 DEF Tts!vars, StreamInv, StreamTypes, Tts!TypeOK, ReaderRecord, AttemptLeft,
     TableInv, FirstAttemptInv, InTable, StreamWorkersInv, Recent, ReaderInv, GoesOn
<1>2. CASE Tts!Next
  BY <1>2, ClaimStream, AppendStream, WorkerEnds, RowSteps, ReaderPolls, ReaderLooks
     DEF Tts!Next
<1> QED
  BY <1>1, <1>2

LEMMA StreamInvHolds ==
    ASSUME StreamConstants
    PROVE  Tts!Spec => []StreamInv
<1>1. Tts!Init => StreamInv
  BY StreamInit
<1>2. StreamInv /\ [Tts!Next]_(Tts!vars) => StreamInv'
  BY StreamNext
<1> QED
  BY <1>1, <1>2, PTL DEF Tts!Spec

\* Every chunk, worker and reader of a stream has its type in every reachable state.
THEOREM StreamTypeCorrect ==
    ASSUME StreamConstants
    PROVE  Tts!Spec => []Tts!TypeOK
<1>1. StreamInv => Tts!TypeOK
  BY DEF StreamInv, StreamTypes
<1> QED
  BY <1>1, StreamInvHolds, PTL

\* What a client received of a generation that was not retried is the beginning of one
\* attempt, in order and with nothing left out, while any number of workers that were given
\* up go on appending (iter_tts_pcm, PostgresTTSStreamStore.append).
THEOREM GenerationInOrderHolds ==
    ASSUME StreamConstants
    PROVE  Tts!Spec => []GenerationInOrder
<1>1. StreamInv => GenerationInOrder
  <2> SUFFICES ASSUME StreamInv, reader.token = token, attempt <= 1,
                      NEW i \in DOMAIN reader.sent
               PROVE  /\ reader.sent[i].token = reader.token
                      /\ IsPrefixOfAttempt(reader.sent)
    BY DEF GenerationInOrder
  <2>1. GoesOn(reader.sent, 0) /\ reader.sent \in Seq(Tts!Chunk)
    BY DEF StreamInv, StreamTypes, ReaderRecord, ReaderInv
  <2>2. 1 \in DOMAIN reader.sent /\ DOMAIN reader.sent = 1 .. Len(reader.sent)
    BY <2>1
  <2>3. \A n \in DOMAIN reader.sent :
          /\ reader.sent[n].token = token /\ reader.sent[n].attempt = 1
          /\ reader.sent[n].seq = n - 1
    BY <2>1, <2>2 DEF GoesOn
  <2> QED
    BY <2>2, <2>3 DEF IsPrefixOfAttempt
<1> QED
  BY <1>1, StreamInvHolds, PTL
=============================================================================
