-------------------------- MODULE SessionResultProofs --------------------------
(***************************************************************************)
(* Proofs about SessionResult, for every number of turns, categories,      *)
(* points and requests.  What a sum is must be proved first: MapThenSumSet *)
(* is a recursive function, and what it computes is shown by looking at    *)
(* the smallest set it would get wrong.                                    *)
(***************************************************************************)
EXTENDS SessionResult, FiniteSetTheorems, WellFoundedInduction, TLAPS

-------------------------------------------------------------------------------
\* Sums over finite sets

First(t) == CHOOSE x \in t : TRUE

\* g maps each subset of S to the sum of its values v, one element at a time.
IsSum(g, v, S) ==
    g = [t \in SUBSET S |-> IF t = {} THEN 0 ELSE v[First(t)] + g[t \ {First(t)}]]

SumOver(v, S) == (CHOOSE g : IsSum(g, v, S))[S]

\* A set of numbers that is not empty has a least element.
LEMMA LeastElement ==
    ASSUME NEW S \in SUBSET Nat, S # {}
    PROVE  \E x \in S : \A y \in S : x <= y
  <1> DEFINE R == {ss \in Nat \X Nat : ss[1] < ss[2]}
  <1>1. IsWellFoundedOn(R, Nat)
    BY NatLessThanWellFounded DEF OpToRel
  <1>2. \A x, y \in Nat : <<y, x>> \in R <=> y < x
    OBVIOUS
  <1> HIDE DEF R
  <1>3. PICK x \in S : \A y \in S : ~(<<y, x>> \in R)
    BY <1>1, WFMin
  <1>4. ASSUME NEW y \in S PROVE x <= y
    <2>1. x \in Nat /\ y \in Nat
      OBVIOUS
    <2>2. ~(y < x)
      BY <1>2, <1>3, <2>1
    <2> QED
      BY <2>1, <2>2
  <1> QED
    BY <1>4

LEMMA SubsetsAreFinite ==
    ASSUME NEW S, IsFiniteSet(S), NEW t \in SUBSET S
    PROVE  IsFiniteSet(t) /\ Cardinality(t) \in Nat
  BY FS_Subset, FS_CardinalityType

\* What is left of a set without its first element.
LEMMA FirstRemoved ==
    ASSUME NEW S, IsFiniteSet(S), NEW t \in SUBSET S, t # {}
    PROVE  /\ First(t) \in t /\ t \ {First(t)} \in SUBSET S
           /\ Cardinality(t \ {First(t)}) = Cardinality(t) - 1
           /\ Cardinality(t) \in Nat \ {0}
  <1>1. First(t) \in t
    BY DEF First
  <1>2. IsFiniteSet(t) /\ Cardinality(t) \in Nat
    BY SubsetsAreFinite
  <1>3. Cardinality(t \ {First(t)}) = Cardinality(t) - 1
    BY <1>1, <1>2, FS_RemoveElement
  <1>4. Cardinality(t) # 0
    BY <1>2, FS_EmptySet
  <1> QED
    BY <1>1, <1>2, <1>3, <1>4

\* There is such a function.  Of the sizes of sets, let n be the least for which none
\* exists: the one for n - 1 is extended by one step of its own definition.
LEMMA SumExists ==
    ASSUME NEW S, IsFiniteSet(S), NEW v
    PROVE  \E g : IsSum(g, v, S)
  <1> DEFINE Up(n) == {t \in SUBSET S : Cardinality(t) <= n}
             Step(g, t) == IF t = {} THEN 0 ELSE v[First(t)] + g[t \ {First(t)}]
             Sums(g, n) == g = [t \in Up(n) |-> Step(g, t)]
             bad == {n \in Nat : ~\E g : Sums(g, n)}
  <1>1. \A t \in SUBSET S : Cardinality(t) \in Nat
    BY SubsetsAreFinite
  <1>2. bad = {}
    <2>1. SUFFICES ASSUME bad # {} PROVE FALSE
      OBVIOUS
    <2>2. PICK n \in bad : \A k \in bad : n <= k
      <3>1. bad \in SUBSET Nat
        OBVIOUS
      <3> HIDE DEF bad
      <3> QED
        BY <2>1, <3>1, LeastElement
    <2>3. n \in Nat /\ ~\E g : Sums(g, n)
      BY <2>2
    <2>4. CASE n = 0
      <3>1. \A t \in Up(0) : t = {}
        <4>1. SUFFICES ASSUME NEW t \in SUBSET S, Cardinality(t) <= 0 PROVE t = {}
          OBVIOUS
        <4>2. IsFiniteSet(t) /\ Cardinality(t) \in Nat
          BY SubsetsAreFinite
        <4> QED
          BY <4>1, <4>2, FS_EmptySet
      <3> DEFINE g == [t \in Up(0) |-> 0]
      <3>2. g = [t \in Up(0) |-> Step(g, t)]
        BY <3>1
      <3> QED
        BY <2>3, <2>4, <3>2
    <2>5. CASE n # 0
      <3>1. n - 1 \in Nat /\ n - 1 \notin bad
        <4> HIDE DEF bad
        <4> QED
          BY <2>2, <2>3, <2>5
      <3>2. PICK h : Sums(h, n - 1)
        <4> HIDE DEF Sums
        <4> QED
          BY <3>1
      <3> DEFINE g == [t \in Up(n) |-> Step(h, t)]
      <3>3. \A t \in Up(n - 1) : t \in Up(n) /\ g[t] = h[t]
        <4>1. \A t \in Up(n - 1) : t \in Up(n)
          BY <1>1, <2>3, <3>1
        <4> HIDE DEF Step, Up
        <4>2. \A t \in Up(n - 1) : h[t] = Step(h, t)
          BY <3>2
        <4> QED
          BY <4>1, <4>2
      <3>4. \A t \in Up(n) : t # {} => t \ {First(t)} \in Up(n - 1)
        BY <1>1, <2>3, FirstRemoved
      <3> HIDE DEF Up
      <3>5. \A t \in Up(n) : Step(h, t) = Step(g, t)
        <4> HIDE DEF g
        <4> QED
          BY <3>3, <3>4
      <3>6. g = [t \in Up(n) |-> Step(g, t)]
        <4> HIDE DEF Step
        <4> QED
          BY <3>5
      <3> QED
        BY <2>3, <3>6
    <2> QED
      BY <2>4, <2>5
  <1>3. Cardinality(S) \in Nat /\ Up(Cardinality(S)) = SUBSET S
    BY <1>1, FS_Subset
  <1>4. \E g : Sums(g, Cardinality(S))
    BY <1>2, <1>3
  <1> QED
    BY <1>3, <1>4 DEF IsSum

\* A fact about the subsets of a finite set that passes from a set without its first
\* element to the set holds of all: bad is the set of those it is wrong about.
LEMMA NoneIsBad ==
    ASSUME NEW S, IsFiniteSet(S), NEW bad \in SUBSET (SUBSET S),
           {} \notin bad,
           \A t \in SUBSET S : t # {} /\ t \ {First(t)} \notin bad => t \notin bad
    PROVE  bad = {}
  <1> DEFINE sizes == {Cardinality(t) : t \in bad}
  <1>1. SUFFICES ASSUME bad # {} PROVE FALSE
    OBVIOUS
  <1>2. \A t \in SUBSET S : Cardinality(t) \in Nat
    BY SubsetsAreFinite
  <1>3. sizes \in SUBSET Nat /\ sizes # {}
    BY <1>1, <1>2
  <1>4. PICK n \in sizes : \A k \in sizes : n <= k
    <2> HIDE DEF sizes
    <2> QED
      BY <1>3, LeastElement
  <1>5. PICK t \in bad : n = Cardinality(t)
    OBVIOUS
  <1>6. t \in SUBSET S /\ t # {}
    OBVIOUS
  <1>7. Cardinality(t \ {First(t)}) = Cardinality(t) - 1 /\ Cardinality(t) \in Nat
    BY <1>6, FirstRemoved
  <1>8. t \ {First(t)} \notin bad
    <2>1. SUFFICES ASSUME t \ {First(t)} \in bad PROVE FALSE
      OBVIOUS
    <2>2. Cardinality(t \ {First(t)}) \in sizes
      BY <2>1
    <2> HIDE DEF sizes
    <2> QED
      BY <1>4, <1>5, <1>7, <2>2
  <1> QED
    BY <1>6, <1>8

\* Sums of the same values are the same.
LEMMA SumsAgree ==
    ASSUME NEW S, IsFiniteSet(S), NEW v, NEW w, \A x \in S : v[x] = w[x],
           NEW g, NEW h, IsSum(g, v, S), IsSum(h, w, S)
    PROVE  g[S] = h[S]
  <1> DEFINE bad == {t \in SUBSET S : g[t] # h[t]}
  <1>1. \A t \in SUBSET S :
           /\ g[t] = IF t = {} THEN 0 ELSE v[First(t)] + g[t \ {First(t)}]
           /\ h[t] = IF t = {} THEN 0 ELSE w[First(t)] + h[t \ {First(t)}]
    BY DEF IsSum
  <1>2. bad \in SUBSET (SUBSET S) /\ {} \notin bad
    BY <1>1
  <1>3. ASSUME NEW t \in SUBSET S, t # {}, t \ {First(t)} \notin bad PROVE t \notin bad
    <2>1. First(t) \in S /\ t \ {First(t)} \in SUBSET S
      BY <1>3, FirstRemoved
    <2>2. g[t \ {First(t)}] = h[t \ {First(t)}]
      BY <1>3, <2>1
    <2> QED
      BY <1>1, <1>3, <2>1, <2>2
  <1>4. S \in SUBSET S
    OBVIOUS
  <1>5. bad = {}
    <2> HIDE DEF bad
    <2> QED
      BY <1>2, <1>3, NoneIsBad
  <1> QED
    BY <1>4, <1>5

\* A sum of natural numbers is one.
LEMMA SumsAreNatural ==
    ASSUME NEW S, IsFiniteSet(S), NEW v, \A x \in S : v[x] \in Nat,
           NEW g, IsSum(g, v, S)
    PROVE  g[S] \in Nat
  <1> DEFINE bad == {t \in SUBSET S : g[t] \notin Nat}
  <1>1. \A t \in SUBSET S : g[t] = IF t = {} THEN 0 ELSE v[First(t)] + g[t \ {First(t)}]
    BY DEF IsSum
  <1>2. bad \in SUBSET (SUBSET S) /\ {} \notin bad
    BY <1>1
  <1>3. ASSUME NEW t \in SUBSET S, t # {}, t \ {First(t)} \notin bad PROVE t \notin bad
    <2>1. First(t) \in S /\ t \ {First(t)} \in SUBSET S
      BY <1>3, FirstRemoved
    <2>2. g[t \ {First(t)}] \in Nat
      BY <1>3, <2>1
    <2> QED
      BY <1>1, <1>3, <2>1, <2>2
  <1>4. S \in SUBSET S
    OBVIOUS
  <1>5. bad = {}
    <2> HIDE DEF bad
    <2> QED
      BY <1>2, <1>3, NoneIsBad
  <1> QED
    BY <1>4, <1>5

LEMMA SumOverEquation ==
    ASSUME NEW S, IsFiniteSet(S), NEW v
    PROVE  IsSum(CHOOSE g : IsSum(g, v, S), v, S)
  BY SumExists

LEMMA SumOverFacts ==
    ASSUME NEW S, IsFiniteSet(S), NEW v, \A x \in S : v[x] \in Nat
    PROVE  /\ SumOver(v, S) \in Nat
           /\ S = {} => SumOver(v, S) = 0
           /\ \A w : (\A x \in S : v[x] = w[x]) => SumOver(v, S) = SumOver(w, S)
  <1>1. PICK g : IsSum(g, v, S) /\ SumOver(v, S) = g[S]
    BY SumOverEquation DEF SumOver
  <1>2. g[S] \in Nat
    BY <1>1, SumsAreNatural
  <1>3. S = {} => g[S] = 0
    <2>1. \A t \in SUBSET S : g[t] = IF t = {} THEN 0 ELSE v[First(t)] + g[t \ {First(t)}]
      BY <1>1 DEF IsSum
    <2> QED
      BY <2>1
  <1>4. ASSUME NEW w, \A x \in S : v[x] = w[x] PROVE g[S] = SumOver(w, S)
    <2>1. PICK h : IsSum(h, w, S) /\ SumOver(w, S) = h[S]
      BY SumOverEquation DEF SumOver
    <2> QED
      BY <1>1, <1>4, <2>1, SumsAgree
  <1> QED
    BY <1>1, <1>2, <1>3, <1>4

\* The sums of the model are such sums.
LEMMA TotalIsSum ==
    ASSUME NEW scores
    PROVE  Total(scores) = SumOver(scores, DOMAIN scores)
  BY DEF Total, MapThenSumSet, MapThenFoldSet, SumOver, IsSum, First

\* The total of scores is a natural number.
LEMMA TotalIsNatural ==
    ASSUME NEW scores \in Partial(Category)
    PROVE  Total(scores) \in Nat
  <1>1. IsFiniteSet(DOMAIN scores) /\ \A c \in DOMAIN scores : scores[c] \in Nat
    <2>1. PICK D \in SUBSET Category : scores \in [D -> Points]
      BY DEF Partial
    <2>2. IsFiniteSet(D)
      BY SessionResultAssumption, FS_Subset
    <2> QED
      BY <2>1, <2>2, SessionResultAssumption
  <1> QED
    BY <1>1, TotalIsSum, SumOverFacts

\* The sum that Average and ScoreIsExplained speak of, for the feedback fb.
OverallSum(fb, turns) == MapThenSumSet(LAMBDA t : fb[t].overall, turns)

LEMMA OverallIsSum ==
    ASSUME NEW fb, NEW S, IsFiniteSet(S), NEW v, \A x \in S : v[x] = fb[x].overall
    PROVE  OverallSum(fb, S) = SumOver(v, S)
  <1> DEFINE Is(g) == g = [t \in SUBSET S |->
                 IF t = {} THEN 0 ELSE fb[First(t)].overall + g[t \ {First(t)}]]
  <1>1. OverallSum(fb, S) = (CHOOSE g : Is(g))[S]
    BY DEF OverallSum, MapThenSumSet, MapThenFoldSet, First
  <1>2. ASSUME NEW g PROVE Is(g) <=> IsSum(g, v, S)
    <2>1. \A t \in SUBSET S : t # {} => v[First(t)] = fb[First(t)].overall
      BY FirstRemoved
    <2> QED
      BY <2>1 DEF IsSum
  <1>3. \E g : Is(g)
    BY <1>2, SumExists
  <1>4. PICK g : Is(g) /\ OverallSum(fb, S) = g[S]
    <2> HIDE DEF Is
    <2> QED
      BY <1>1, <1>3
  <1>5. PICK h : IsSum(h, v, S) /\ SumOver(v, S) = h[S]
    BY SumOverEquation DEF SumOver
  <1>6. IsSum(g, v, S)
    BY <1>2, <1>4
  <1>7. g[S] = h[S]
    BY <1>5, <1>6, SumsAgree
  <1> QED
    BY <1>4, <1>5, <1>7

\* The sum depends on the feedback of these turns only, and is a natural number.
LEMMA OverallSumFacts ==
    ASSUME NEW fb, NEW S, IsFiniteSet(S), \A x \in S : fb[x].overall \in Nat
    PROVE  /\ OverallSum(fb, S) \in Nat
           /\ S = {} => OverallSum(fb, S) = 0
           /\ \A gb : (\A x \in S : gb[x].overall = fb[x].overall)
                         => OverallSum(gb, S) = OverallSum(fb, S)
  <1> DEFINE v == [x \in S |-> fb[x].overall]
  <1>1. \A x \in S : v[x] = fb[x].overall /\ v[x] \in Nat
    OBVIOUS
  <1> HIDE DEF v
  <1>2. OverallSum(fb, S) = SumOver(v, S)
    BY <1>1, OverallIsSum
  <1>3. ASSUME NEW gb, \A x \in S : gb[x].overall = fb[x].overall
        PROVE  OverallSum(gb, S) = OverallSum(fb, S)
    <2>1. OverallSum(gb, S) = SumOver(v, S)
      BY <1>1, <1>3, OverallIsSum
    <2> QED
      BY <1>2, <2>1
  <1> QED
    BY <1>1, <1>2, <1>3, SumOverFacts

-------------------------------------------------------------------------------
\* Rounding

\* Rounded is within half of n of the sum, whichever way a half goes.
LEMMA RoundedIsNear ==
    ASSUME NEW sum \in Nat, NEW n \in Nat \ {0}
    PROVE  /\ Rounded(sum, n) \in Nat
           /\ 2 * (Rounded(sum, n) * n - sum) <= n
           /\ 2 * (sum - Rounded(sum, n) * n) <= n
  <1> DEFINE low == sum \div n
             rest == sum % n
  <1>1. low \in Nat /\ rest \in 0 .. n - 1 /\ sum = low * n + rest
    OBVIOUS
  <1>2. \/ Rounded(sum, n) = low /\ ~(2 * rest > n)
        \/ Rounded(sum, n) = low + 1 /\ 2 * rest >= n
    BY <1>1 DEF Rounded
  <1> HIDE DEF low, rest
  <1>3. low * n \in Nat /\ (low + 1) * n = low * n + n
    BY <1>1
  <1> QED
    BY <1>1, <1>2, <1>3

-------------------------------------------------------------------------------
\* The inductive invariant

Overalls == Nat \cup {NoScore}

FeedbackRow ==
    [status : {"none", "processing", "ready", "partial", "failed"}, token : 0 .. MaxToken,
     scores : Partial(Category), overall : Overalls]

ResultRow ==
    [status : {"none", "processing", "succeeded", "partial", "failed"}, id : 0 .. MaxJobs,
     scores : Partial(Category), overall : Overalls, missing : SUBSET Category,
     scope : SUBSET Turn]

\* TypeOK, with rows as records.
TypeInv ==
    /\ room \in [interview : BOOLEAN, turns : SUBSET Turn, completed : BOOLEAN,
                 cutoff : SUBSET Turn]
    /\ feedback \in [Turn -> FeedbackRow]
    /\ attempt \in [Turn -> 0 .. MaxToken]
    /\ result \in ResultRow
    /\ job \in [no : 0 .. MaxJobs, status : {"none", "queued", "processing", "ended"}]
    /\ claim \in [job : 0 .. MaxJobs, scope : SUBSET Turn, overall : Overalls]
    /\ claim.job # 0 => claim.overall \in Nat
    /\ retrier \in [Retrier -> [step : {"new", "selected", "done"}, id : 0 .. MaxJobs,
                       status : {"none", "processing", "succeeded", "partial", "failed"}]]
    /\ deleter \in [Deleter -> [step : {"new", "checked", "done"}, id : 0 .. MaxJobs]]

\* Only a confirmed turn has feedback, so that none is written over.
TurnsInv == \A t \in Turn : feedback[t].status # "none" => t \in room.turns

\* The overall score is the mean of these turns, to within half a point, and each of
\* them has its feedback.
Explained(scope, overall) ==
    /\ scope \subseteq Ready
    /\ 2 * (overall * Cardinality(scope) - OverallSum(feedback, scope)) <= Cardinality(scope)
    /\ 2 * (OverallSum(feedback, scope) - overall * Cardinality(scope)) <= Cardinality(scope)

\* What the worker has read is still explained when it is written.
ClaimInv == ~Interview /\ claim.job # 0 => Explained(claim.scope, claim.overall)

\* A row has a name, and only a completed room has a row or a retry.
ResultInv ==
    /\ result.status = "none" <=> result.id = 0
    /\ result.status # "none" => room.completed
    /\ \A q \in Retrier : retrier[q].step = "selected" => room.completed

Inv ==
    /\ TypeInv /\ TurnsInv /\ ClaimInv /\ ResultInv
    /\ TotalsAddUp /\ ScoreIsExplained /\ InterviewAddsUp

-------------------------------------------------------------------------------
\* What a step leaves alone

\* The parts of TotalsAddUp for one row.
RowAddsUp(row) ==
    /\ row.overall # NoScore <=> row.status = "ready"
    /\ row.status = "ready" => Complete(row.scores) /\ row.overall = Total(row.scores)
    /\ row.status = "partial" => ~Complete(row.scores)

\* Feedback that is ready is not touched any more.
KeepsReady == \A t \in Turn : feedback[t].status = "ready" => feedback'[t] = feedback[t]

LEMMA ReadyRows ==
    ASSUME Inv, NEW scope \in SUBSET Ready
    PROVE  /\ IsFiniteSet(scope) /\ Cardinality(scope) \in Nat
           /\ \A t \in scope : t \in Turn /\ feedback[t].overall \in Nat
  <1>1. scope \in SUBSET Turn
    BY DEF Ready
  <1>2. IsFiniteSet(scope) /\ Cardinality(scope) \in Nat
    BY <1>1, SessionResultAssumption, SubsetsAreFinite
  <1>3. ASSUME NEW t \in scope PROVE feedback[t].overall \in Nat
    <2>1. t \in Turn /\ feedback[t].status = "ready"
      BY DEF Ready
    <2>2. feedback[t].overall # NoScore
      BY <2>1 DEF Inv, TotalsAddUp
    <2> QED
      BY <2>1, <2>2 DEF Inv, TypeInv, FeedbackRow, Overalls
  <1> QED
    BY <1>1, <1>2, <1>3

LEMMA ExplainedStays ==
    ASSUME Inv, KeepsReady, NEW scope, NEW overall, Explained(scope, overall)
    PROVE  Explained(scope, overall)'
  <1>1. scope \in SUBSET Ready
    BY DEF Explained
  <1>2. \A t \in scope : t \in Turn /\ feedback[t].status = "ready" /\ feedback'[t] = feedback[t]
    BY <1>1 DEF Ready, KeepsReady
  <1>3. scope \subseteq Ready'
    BY <1>2 DEF Ready
  <1>4. OverallSum(feedback', scope) = OverallSum(feedback, scope)
    BY <1>1, <1>2, ReadyRows, OverallSumFacts
  <1> QED
    BY <1>3, <1>4 DEF Explained

LEMMA ScoreSpelt ==
    ScoreIsExplained <=>
        (~Interview /\ result.status = "succeeded" => Explained(result.scope, result.overall))
  BY DEF ScoreIsExplained, Explained, OverallSum, MapThenSumSet, MapThenFoldSet

LEMMA ScoreSpelt2 ==
    ScoreIsExplained' <=>
        (~Interview' /\ result'.status = "succeeded" => Explained(result.scope, result.overall)')
  BY DEF ScoreIsExplained, Explained, OverallSum, MapThenSumSet, MapThenFoldSet

\* Claims and scores stay explained while ready feedback stays.
LEMMA ScoresStay ==
    ASSUME Inv, KeepsReady, room'.interview = room.interview,
           claim' = claim \/ claim'.job = 0,
           result'.status = "succeeded" => result' = result
    PROVE  ClaimInv' /\ ScoreIsExplained'
  <1>1. ClaimInv'
    <2>1. SUFFICES ASSUME ~Interview, claim' = claim, claim.job # 0
                   PROVE  Explained(claim.scope, claim.overall)'
      BY DEF ClaimInv, Interview
    <2>2. PICK s, o : s = claim.scope /\ o = claim.overall
      OBVIOUS
    <2>3. Explained(s, o)
      BY <2>1, <2>2 DEF Inv, ClaimInv
    <2>4. Explained(s, o)'
      BY <2>3, ExplainedStays
    <2> QED
      BY <2>1, <2>2, <2>4 DEF Explained
  <1>2. ScoreIsExplained'
    <2>1. SUFFICES ASSUME ~Interview, result' = result, result.status = "succeeded"
                   PROVE  Explained(result.scope, result.overall)'
      BY ScoreSpelt2 DEF Interview
    <2>2. PICK s, o : s = result.scope /\ o = result.overall
      OBVIOUS
    <2>3. Explained(s, o)
      BY <2>1, <2>2, ScoreSpelt DEF Inv
    <2>4. Explained(s, o)'
      BY <2>3, ExplainedStays
    <2> QED
      BY <2>1, <2>2, <2>4 DEF Explained
  <1> QED
    BY <1>1, <1>2

\* A row that starts again or is gone says nothing of an interview yet.
LEMMA InterviewStays ==
    ASSUME Inv, room'.interview = room.interview,
           result' = result \/ result'.status \in {"none", "processing"}
    PROVE  InterviewAddsUp'
  BY DEF Inv, InterviewAddsUp, Interview

-------------------------------------------------------------------------------
\* The first states

LEMMA EmptyScores == <<>> \in Partial(Category)
  <1>1. <<>> \in [{} -> Points]
    OBVIOUS
  <1> QED
    BY <1>1 DEF Partial

LEMMA EmptyRows == NoFeedback \in FeedbackRow /\ NoResult \in ResultRow
  BY EmptyScores, SessionResultAssumption
     DEF NoFeedback, FeedbackRow, NoResult, ResultRow, Overalls

LEMMA InitInv ==
    ASSUME Init
    PROVE  Inv
  <1>1. TypeInv
    <2>1. NoFeedback \in FeedbackRow /\ NoResult \in ResultRow
      BY EmptyRows
    <2>2. feedback \in [Turn -> FeedbackRow] /\ result \in ResultRow
      BY <2>1 DEF Init
    <2>3. NoClaim \in [job : 0 .. MaxJobs, scope : SUBSET Turn, overall : Overalls]
      BY SessionResultAssumption DEF NoClaim, Overalls
    <2>4. NewRetry \in [step : {"new", "selected", "done"}, id : 0 .. MaxJobs,
                        status : {"none", "processing", "succeeded", "partial", "failed"}]
      BY SessionResultAssumption DEF NewRetry
    <2>5. NewDelete \in [step : {"new", "checked", "done"}, id : 0 .. MaxJobs]
      BY SessionResultAssumption DEF NewDelete
    <2>6. claim.job = 0
      BY DEF Init, NoClaim
    <2> QED
      BY <2>2, <2>3, <2>4, <2>5, <2>6, SessionResultAssumption DEF Init, TypeInv
  <1>2. TurnsInv /\ ClaimInv /\ ResultInv
    BY DEF Init, TurnsInv, ClaimInv, ResultInv, NoFeedback, NoClaim, NoResult, NewRetry
  <1>3. TotalsAddUp /\ InterviewAddsUp
    BY DEF Init, TotalsAddUp, InterviewAddsUp, NoFeedback, NoResult
  <1>4. ScoreIsExplained
    BY DEF Init, ScoreIsExplained, NoResult
  <1> QED
    BY <1>1, <1>2, <1>3, <1>4 DEF Inv

-------------------------------------------------------------------------------
\* The conversation and the feedback

\* A step that writes the row of one turn, whose feedback was not ready, keeps what is
\* said of feedback and of the scores made from it.
LEMMA RowStep ==
    ASSUME Inv, NEW t \in Turn, NEW row \in FeedbackRow, RowAddsUp(row),
           feedback[t].status # "ready", feedback' = [feedback EXCEPT ![t] = row],
           room'.interview = room.interview, UNCHANGED <<result, claim>>
    PROVE  /\ feedback' \in [Turn -> FeedbackRow]
           /\ ClaimInv' /\ TotalsAddUp' /\ ScoreIsExplained' /\ InterviewAddsUp'
  <1>1. feedback \in [Turn -> FeedbackRow]
    BY DEF Inv, TypeInv
  <1>2. feedback'[t] = row /\ \A u \in Turn : u # t => feedback'[u] = feedback[u]
    BY <1>1
  <1>3. KeepsReady
    BY <1>2 DEF KeepsReady
  <1>4. TotalsAddUp'
    <2>1. TotalsAddUp' <=> \A u \in Turn : RowAddsUp(feedback[u])'
      BY DEF TotalsAddUp, RowAddsUp, Total, Complete, MapThenSumSet, MapThenFoldSet
    <2>2. ASSUME NEW u \in Turn PROVE RowAddsUp(feedback[u])'
      <3>1. CASE u = t
        BY <1>2, <3>1 DEF RowAddsUp
      <3>2. CASE u # t
        <4>1. feedback'[u] = feedback[u]
          BY <1>2, <3>2
        <4> QED
          BY <4>1 DEF Inv, TotalsAddUp, RowAddsUp
      <3> QED
        BY <3>1, <3>2
    <2> QED
      BY <2>1, <2>2
  <1>5. ClaimInv' /\ ScoreIsExplained'
    BY <1>3, ScoresStay
  <1>6. InterviewAddsUp'
    BY InterviewStays
  <1> QED
    BY <1>1, <1>4, <1>5, <1>6

\* ... and if nothing else changes but the attempt, the whole invariant.
LEMMA FeedbackStep ==
    ASSUME Inv, NEW t \in Turn, NEW row \in FeedbackRow, RowAddsUp(row),
           feedback[t].status \notin {"ready", "none"},
           feedback' = [feedback EXCEPT ![t] = row],
           attempt' \in [Turn -> 0 .. MaxToken],
           UNCHANGED <<room, result, job, claim, retrier, deleter>>
    PROVE  Inv'
  <1>1. /\ feedback' \in [Turn -> FeedbackRow]
        /\ ClaimInv' /\ TotalsAddUp' /\ ScoreIsExplained' /\ InterviewAddsUp'
    BY RowStep
  <1>2. TypeInv'
    BY <1>1 DEF Inv, TypeInv
  <1>3. TurnsInv'
    BY DEF Inv, TypeInv, TurnsInv
  <1>4. ResultInv'
    BY DEF Inv, ResultInv
  <1> QED
    BY <1>1, <1>2, <1>3, <1>4 DEF Inv

\* Nothing that is said of feedback, of results or of rooms changes.
LEMMA QuietStep ==
    ASSUME Inv, TypeInv', UNCHANGED <<room, feedback, result>>,
           claim' = claim \/ claim'.job = 0, retrier' = retrier
    PROVE  Inv'
  <1>1. KeepsReady
    BY DEF KeepsReady
  <1>2. ClaimInv' /\ ScoreIsExplained'
    BY <1>1, ScoresStay
  <1>3. InterviewAddsUp'
    BY InterviewStays
  <1>4. TotalsAddUp'
    BY DEF Inv, TotalsAddUp
  <1>5. TurnsInv' /\ ResultInv'
    BY DEF Inv, TurnsInv, ResultInv
  <1> QED
    BY <1>2, <1>3, <1>4, <1>5 DEF Inv

LEMMA ConfirmTurnInv ==
    ASSUME Inv, NEW t \in Turn, ConfirmTurn(t)
    PROVE  Inv'
  <1>1. feedback \in [Turn -> FeedbackRow] /\ feedback[t].status = "none"
    BY DEF Inv, TypeInv, TurnsInv, ConfirmTurn
  <1>2. /\ room' \in [interview : BOOLEAN, turns : SUBSET Turn, completed : BOOLEAN,
                      cutoff : SUBSET Turn]
        /\ room'.interview = room.interview /\ room'.completed = room.completed
        /\ room'.turns = room.turns \cup {t}
    BY DEF Inv, TypeInv, ConfirmTurn
  <1>3. /\ feedback' \in [Turn -> FeedbackRow]
        /\ ClaimInv' /\ TotalsAddUp' /\ ScoreIsExplained' /\ InterviewAddsUp'
    <2>1. CASE Interview
      <3>1. feedback' = feedback /\ result' = result /\ claim' = claim
        BY <2>1 DEF ConfirmTurn
      <3>2. KeepsReady
        BY <3>1 DEF KeepsReady
      <3>3. ClaimInv' /\ ScoreIsExplained' /\ InterviewAddsUp'
        BY <1>2, <3>1, <3>2, ScoresStay, InterviewStays
      <3>4. TotalsAddUp'
        BY <3>1 DEF Inv, TotalsAddUp
      <3> QED
        BY <1>1, <3>1, <3>3, <3>4
    <2>2. CASE ~Interview
      <3> DEFINE row == [NoFeedback EXCEPT !.status = "processing", !.token = 1]
      <3>1. row \in FeedbackRow
        <4>1. NoFeedback \in FeedbackRow /\ 1 \in 0 .. MaxToken
          BY EmptyRows, SessionResultAssumption
        <4> QED
          BY <4>1 DEF FeedbackRow
      <3>2. RowAddsUp(row)
        BY DEF RowAddsUp, NoFeedback
      <3>3. feedback' = [feedback EXCEPT ![t] = row] /\ UNCHANGED <<result, claim>>
        BY <2>2 DEF ConfirmTurn
      <3> HIDE DEF row
      <3> QED
        BY <1>1, <1>2, <3>1, <3>2, <3>3, RowStep
    <2> QED
      BY <2>1, <2>2
  <1>4. TypeInv'
    BY <1>2, <1>3 DEF Inv, TypeInv, ConfirmTurn
  <1>5. TurnsInv'
    BY <1>1, <1>2 DEF Inv, TurnsInv, ConfirmTurn
  <1>6. ResultInv'
    BY <1>2 DEF Inv, ResultInv, ConfirmTurn
  <1> QED
    BY <1>3, <1>4, <1>5, <1>6 DEF Inv

LEMMA ClaimFeedbackInv ==
    ASSUME Inv, NEW t \in Turn, ClaimFeedback(t)
    PROVE  Inv'
  <1>1. feedback[t].token \in 0 .. MaxToken
    BY DEF Inv, TypeInv, FeedbackRow
  <1>2. TypeInv'
    BY <1>1 DEF Inv, TypeInv, ClaimFeedback
  <1> QED
    BY <1>2, QuietStep DEF ClaimFeedback

LEMMA ScoredRow ==
    ASSUME NEW row \in FeedbackRow, NEW scores \in Partial(Category)
    PROVE  Scored(row, scores) \in FeedbackRow /\ RowAddsUp(Scored(row, scores))
  <1>1. Total(scores) \in Nat
    BY TotalIsNatural
  <1> DEFINE total == Total(scores)
  <1>2. /\ Scored(row, scores) \in FeedbackRow
        /\ Scored(row, scores).scores = scores
        /\ Complete(scores) => /\ Scored(row, scores).status = "ready"
                               /\ Scored(row, scores).overall = total
        /\ ~Complete(scores) => /\ Scored(row, scores).status = "partial"
                                /\ Scored(row, scores).overall = NoScore
    <2> HIDE DEF total
    <2>1. total \in Nat
      BY <1>1 DEF total
    <2>2. Scored(row, scores) =
            [row EXCEPT !.scores = scores,
                !.status = IF Complete(scores) THEN "ready" ELSE "partial",
                !.overall = IF Complete(scores) THEN total ELSE NoScore]
      BY DEF Scored, total
    <2> QED
      BY <2>1, <2>2 DEF FeedbackRow, Overalls
  <1>3. total # NoScore
    BY <1>1 DEF NoScore
  <1> HIDE DEF total
  <1>4. Total(scores) = total
    BY DEF total
  <1> QED
    BY <1>2, <1>3, <1>4 DEF RowAddsUp

LEMMA CompleteFeedbackInv ==
    ASSUME Inv, NEW t \in Turn, CompleteFeedback(t)
    PROVE  Inv'
  <1>1. feedback \in [Turn -> FeedbackRow] /\ attempt' \in [Turn -> 0 .. MaxToken]
    BY SessionResultAssumption DEF Inv, TypeInv, CompleteFeedback
  <1>2. PICK scores \in Partial(Category) :
           feedback' = IF feedback[t].status = "processing" /\ attempt[t] = feedback[t].token
                       THEN [feedback EXCEPT ![t] = Scored(@, scores)]
                       ELSE feedback
    BY DEF CompleteFeedback
  <1>3. CASE feedback[t].status = "processing" /\ attempt[t] = feedback[t].token
    <2>1. PICK row : row = Scored(feedback[t], scores)
      OBVIOUS
    <2>2. feedback' = [feedback EXCEPT ![t] = row]
      BY <1>2, <1>3, <2>1
    <2>3. row \in FeedbackRow /\ RowAddsUp(row)
      BY <1>1, <2>1, ScoredRow
    <2> QED
      BY <1>1, <1>3, <2>2, <2>3, FeedbackStep DEF CompleteFeedback
  <1>4. CASE ~(feedback[t].status = "processing" /\ attempt[t] = feedback[t].token)
    <2>1. feedback' = feedback
      BY <1>2, <1>4
    <2>2. TypeInv'
      BY <1>1, <2>1 DEF Inv, TypeInv, CompleteFeedback
    <2> QED
      BY <2>1, <2>2, QuietStep DEF CompleteFeedback
  <1> QED
    BY <1>3, <1>4

\* A row that is being made, or that failed, has no total.
LEMMA UnfinishedAddsUp ==
    ASSUME NEW row \in FeedbackRow, row.status \in {"processing", "failed"},
           row.overall = NoScore
    PROVE  RowAddsUp(row)
  BY DEF RowAddsUp

LEMMA NotReadyHasNoTotal ==
    ASSUME Inv, NEW t \in Turn, feedback[t].status # "ready"
    PROVE  feedback[t] \in FeedbackRow /\ feedback[t].overall = NoScore
  BY DEF Inv, TypeInv, TotalsAddUp

LEMMA FailFeedbackInv ==
    ASSUME Inv, NEW t \in Turn, FailFeedback(t)
    PROVE  Inv'
  <1> DEFINE row == [feedback[t] EXCEPT !.status = "failed"]
  <1>1. feedback[t] \in FeedbackRow /\ feedback[t].overall = NoScore
    BY NotReadyHasNoTotal DEF FailFeedback
  <1>2. row \in FeedbackRow /\ row.status = "failed" /\ row.overall = NoScore
    BY <1>1 DEF FeedbackRow
  <1>3. feedback' = [feedback EXCEPT ![t] = row]
    BY DEF FailFeedback
  <1> HIDE DEF row
  <1>4. RowAddsUp(row)
    BY <1>2, UnfinishedAddsUp
  <1>5. attempt' \in [Turn -> 0 .. MaxToken]
    BY DEF FailFeedback, Inv, TypeInv
  <1> QED
    BY <1>2, <1>3, <1>4, <1>5, FeedbackStep DEF FailFeedback

LEMMA RequeueFeedbackInv ==
    ASSUME Inv, NEW t \in Turn, RequeueFeedback(t)
    PROVE  Inv'
  <1> DEFINE row == [feedback[t] EXCEPT !.token = @ + 1]
  <1>1. /\ feedback[t] \in FeedbackRow /\ feedback[t].overall = NoScore
        /\ feedback[t].status = "processing" /\ feedback[t].token < MaxToken
    BY NotReadyHasNoTotal DEF RequeueFeedback
  <1>2. feedback[t].token + 1 \in 0 .. MaxToken
    BY <1>1, SessionResultAssumption DEF FeedbackRow
  <1>3. row \in FeedbackRow /\ row.status = "processing" /\ row.overall = NoScore
    BY <1>1, <1>2 DEF FeedbackRow
  <1>4. feedback' = [feedback EXCEPT ![t] = row]
    BY DEF RequeueFeedback
  <1> HIDE DEF row
  <1>5. RowAddsUp(row)
    BY <1>3, UnfinishedAddsUp
  <1>6. attempt' \in [Turn -> 0 .. MaxToken]
    BY DEF RequeueFeedback, Inv, TypeInv
  <1> QED
    BY <1>1, <1>3, <1>4, <1>5, <1>6, FeedbackStep DEF RequeueFeedback

LEMMA RetryFeedbackInv ==
    ASSUME Inv, NEW t \in Turn, RetryFeedback(t)
    PROVE  Inv'
  <1> DEFINE row == [feedback[t] EXCEPT !.status = "processing", !.token = @ + 1]
  <1>1. feedback[t].status \in {"failed", "partial"}
    BY DEF RetryFeedback, Retryable
  <1>2. /\ feedback[t] \in FeedbackRow /\ feedback[t].overall = NoScore
        /\ feedback[t].token < MaxToken
    BY <1>1, NotReadyHasNoTotal DEF RetryFeedback
  <1>3. feedback[t].token + 1 \in 0 .. MaxToken
    BY <1>2, SessionResultAssumption DEF FeedbackRow
  <1>4. row \in FeedbackRow /\ row.status = "processing" /\ row.overall = NoScore
    BY <1>2, <1>3 DEF FeedbackRow
  <1>5. feedback' = [feedback EXCEPT ![t] = row]
    <2>1. feedback \in [Turn -> FeedbackRow]
      BY DEF Inv, TypeInv
    <2>2. feedback' = [feedback EXCEPT ![t].status = "processing", ![t].token = @ + 1]
      BY DEF RetryFeedback
    <2> QED
      BY <1>2, <2>1, <2>2 DEF FeedbackRow
  <1> HIDE DEF row
  <1>6. RowAddsUp(row)
    BY <1>4, UnfinishedAddsUp
  <1>7. attempt' \in [Turn -> 0 .. MaxToken]
    BY DEF RetryFeedback, Inv, TypeInv
  <1> QED
    BY <1>1, <1>4, <1>5, <1>6, <1>7, FeedbackStep DEF RetryFeedback

-------------------------------------------------------------------------------
\* The result

\* The new job's row: its columns stay, but for the status and the name.
LEMMA StartJobRow ==
    ASSUME Inv, NEW row \in ResultRow, StartJob(row)
    PROVE  /\ result' \in ResultRow /\ result'.status = "processing" /\ result'.id # 0
           /\ job' \in [no : 0 .. MaxJobs, status : {"none", "queued", "processing", "ended"}]
  <1>1. job.no \in 0 .. MaxJobs /\ job.no < MaxJobs
    BY DEF Inv, TypeInv, StartJob
  <1>2. job.no + 1 \in 0 .. MaxJobs /\ job.no + 1 # 0
    BY <1>1, SessionResultAssumption
  <1> DEFINE id == IF row.id = 0 THEN job.no + 1 ELSE row.id
  <1>3. id \in 0 .. MaxJobs /\ id # 0
    BY <1>2 DEF ResultRow
  <1>4. result' = [row EXCEPT !.status = "processing", !.id = id]
    BY DEF StartJob
  <1> HIDE DEF id
  <1>5. result' \in ResultRow /\ result'.status = "processing" /\ result'.id = id
    BY <1>3, <1>4 DEF ResultRow
  <1>6. job' \in [no : 0 .. MaxJobs, status : {"none", "queued", "processing", "ended"}]
    BY <1>2 DEF StartJob
  <1> QED
    BY <1>3, <1>5, <1>6

\* A step of the result in which nothing succeeds, and no new row is read.
LEMMA ResultStep ==
    ASSUME Inv, TypeInv', UNCHANGED <<feedback>>,
           room'.interview = room.interview, room'.turns = room.turns,
           claim' = claim \/ claim'.job = 0,
           result' = result \/ result'.status \in {"none", "processing"},
           ResultInv'
    PROVE  Inv'
  <1>1. KeepsReady
    BY DEF KeepsReady
  <1>2. ClaimInv' /\ ScoreIsExplained'
    BY <1>1, ScoresStay
  <1>3. InterviewAddsUp'
    BY InterviewStays
  <1>4. TotalsAddUp'
    BY DEF Inv, TotalsAddUp
  <1>5. TurnsInv'
    BY DEF Inv, TurnsInv
  <1> QED
    BY <1>2, <1>3, <1>4, <1>5 DEF Inv

LEMMA EndPracticeInv ==
    ASSUME Inv, EndPractice
    PROVE  Inv'
  <1>1. Ready \in SUBSET Turn
    BY DEF Ready
  <1>2. /\ room' \in [interview : BOOLEAN, turns : SUBSET Turn, completed : BOOLEAN,
                      cutoff : SUBSET Turn]
        /\ room'.interview = room.interview /\ room'.turns = room.turns
        /\ room'.completed
    BY <1>1 DEF Inv, TypeInv, EndPractice
  <1>3. result.status = "none"
    BY DEF Inv, ResultInv, EndPractice
  <1>4. /\ result' \in ResultRow
        /\ job' \in [no : 0 .. MaxJobs, status : {"none", "queued", "processing", "ended"}]
        /\ \/ result' = result
           \/ result'.status = "processing" /\ result'.id # 0
    <2>1. CASE room.turns = {}
      BY <2>1 DEF EndPractice, Inv, TypeInv
    <2>2. CASE room.turns # {}
      BY <2>2, EmptyRows, StartJobRow DEF EndPractice
    <2> QED
      BY <2>1, <2>2
  <1>5. TypeInv'
    BY <1>2, <1>4 DEF Inv, TypeInv, EndPractice
  <1>6. ResultInv'
    BY <1>2, <1>4 DEF Inv, ResultInv, EndPractice
  <1> QED
    BY <1>2, <1>4, <1>5, <1>6, ResultStep DEF EndPractice

\* The average is within half of the sum of the feedback it is made from.
LEMMA AverageIsNear ==
    ASSUME Inv
    PROVE  Average(Ready) \in Nat /\ Explained(Ready, Average(Ready))
  <1>1. IsFiniteSet(Ready) /\ Cardinality(Ready) \in Nat
    BY ReadyRows
  <1>2. /\ OverallSum(feedback, Ready) \in Nat
        /\ Ready = {} => OverallSum(feedback, Ready) = 0
    <2>1. \A t \in Ready : feedback[t].overall \in Nat
      BY ReadyRows
    <2> HIDE DEF Ready
    <2> QED
      BY <1>1, <2>1, OverallSumFacts
  <1>3. Ready = {} <=> Cardinality(Ready) = 0
    BY <1>1, FS_EmptySet
  <1>4. Average(Ready) = IF Ready = {} THEN 0
                         ELSE Rounded(OverallSum(feedback, Ready), Cardinality(Ready))
    BY DEF Average, OverallSum, MapThenSumSet, MapThenFoldSet
  <1>5. CASE Ready = {}
    BY <1>2, <1>3, <1>4, <1>5 DEF Explained
  <1>6. CASE Ready # {}
    <2>1. PICK sum, n, score : /\ sum = OverallSum(feedback, Ready)
                               /\ n = Cardinality(Ready) /\ score = Average(Ready)
      OBVIOUS
    <2>2. sum \in Nat /\ n \in Nat \ {0} /\ score = Rounded(sum, n)
      BY <1>1, <1>2, <1>3, <1>4, <1>6, <2>1
    <2>3. score \in Nat /\ 2 * (score * n - sum) <= n /\ 2 * (sum - score * n) <= n
      BY <2>2, RoundedIsNear
    <2> QED
      BY <2>1, <2>3 DEF Explained
  <1> QED
    BY <1>5, <1>6

LEMMA ClaimResultInv ==
    ASSUME Inv, ClaimResult
    PROVE  Inv'
  <1>1. Average(Ready) \in Nat /\ Explained(Ready, Average(Ready))
    BY AverageIsNear
  <1>2. PICK scope, overall : scope = Ready /\ overall = Average(Ready)
    OBVIOUS
  <1>3. claim' = [job |-> job.no, scope |-> scope, overall |-> overall]
    BY <1>2 DEF ClaimResult
  <1>4. scope \in SUBSET Turn /\ overall \in Nat
    BY <1>1, <1>2 DEF Ready
  <1>5. TypeInv'
    <2>1. job.no \in 0 .. MaxJobs
      BY DEF Inv, TypeInv
    <2>2. /\ claim' \in [job : 0 .. MaxJobs, scope : SUBSET Turn, overall : Overalls]
          /\ claim'.overall \in Nat
      BY <1>3, <1>4, <2>1 DEF Overalls
    <2> QED
      BY <2>2 DEF Inv, TypeInv, ClaimResult
  <1>6. KeepsReady
    BY DEF ClaimResult, KeepsReady
  <1>7. Explained(scope, overall)'
    BY <1>1, <1>2, <1>6, ExplainedStays
  <1>8. ClaimInv'
    BY <1>3, <1>7 DEF ClaimInv, Explained
  <1>9. ScoreIsExplained'
    <2>1. SUFFICES ASSUME ~Interview, result.status = "succeeded"
                   PROVE  FALSE
      BY ScoreSpelt2 DEF ClaimResult, Interview
    <2> QED
      BY <2>1 DEF ClaimResult
  <1>10. InterviewAddsUp'
    BY InterviewStays DEF ClaimResult
  <1>11. TurnsInv' /\ ResultInv' /\ TotalsAddUp'
    BY DEF Inv, TurnsInv, ResultInv, TotalsAddUp, ClaimResult
  <1> QED
    BY <1>5, <1>8, <1>9, <1>10, <1>11 DEF Inv

LEMMA NoClaimFacts ==
    /\ NoClaim \in [job : 0 .. MaxJobs, scope : SUBSET Turn, overall : Overalls]
    /\ NoClaim.job = 0
  BY SessionResultAssumption DEF NoClaim, Overalls

LEMMA RequeueResultInv ==
    ASSUME Inv, RequeueResult
    PROVE  Inv'
  <1>1. TypeInv'
    BY NoClaimFacts DEF Inv, TypeInv, RequeueResult
  <1> QED
    BY <1>1, NoClaimFacts, QuietStep DEF RequeueResult

LEMMA LoseClaimInv ==
    ASSUME Inv, LoseClaim
    PROVE  Inv'
  <1>1. TypeInv'
    BY NoClaimFacts DEF Inv, TypeInv, LoseClaim
  <1> QED
    BY <1>1, NoClaimFacts, QuietStep DEF LoseClaim

LEMMA FailResultInv ==
    ASSUME Inv, FailResult
    PROVE  Inv'
  <1>1. /\ result' \in ResultRow /\ result'.status = "failed" /\ result'.id = result.id
        /\ result'.overall = NoScore
        /\ Interview => result'.missing = Category
    <2>1. result \in ResultRow /\ result' = Failed(result)
      BY DEF Inv, TypeInv, FailResult
    <2> QED
      BY <2>1 DEF Failed, ResultRow, Overalls
  <1>2. TypeInv'
    BY <1>1 DEF Inv, TypeInv, FailResult
  <1>3. KeepsReady
    BY DEF KeepsReady, FailResult
  <1>4. ClaimInv' /\ ScoreIsExplained'
    BY <1>1, <1>3, ScoresStay DEF FailResult
  <1>5. InterviewAddsUp'
    BY <1>1 DEF InterviewAddsUp, Interview, FailResult
  <1>6. TurnsInv' /\ ResultInv' /\ TotalsAddUp'
    BY <1>1 DEF Inv, TurnsInv, ResultInv, TotalsAddUp, FailResult
  <1> QED
    BY <1>2, <1>4, <1>5, <1>6 DEF Inv

LEMMA SelectForRetryInv ==
    ASSUME Inv, NEW q \in Retrier, SelectForRetry(q)
    PROVE  Inv'
  <1>1. TypeInv'
    <2>1. /\ result.status \in {"none", "processing", "succeeded", "partial", "failed"}
          /\ result.id \in 0 .. MaxJobs
      BY DEF Inv, TypeInv, ResultRow
    <2> QED
      BY <2>1 DEF Inv, TypeInv, SelectForRetry
  <1>2. ResultInv'
    BY DEF Inv, TypeInv, ResultInv, SelectForRetry
  <1> QED
    BY <1>1, <1>2, ResultStep DEF SelectForRetry

LEMMA RetryInv ==
    ASSUME Inv, NEW q \in Retrier, Retry(q)
    PROVE  Inv'
  <1>1. result \in ResultRow /\ room.completed
    BY DEF Inv, TypeInv, ResultInv, Retry
  <1>2. /\ result' \in ResultRow
        /\ job' \in [no : 0 .. MaxJobs, status : {"none", "queued", "processing", "ended"}]
        /\ \/ result' = result
           \/ result'.status = "processing" /\ result'.id # 0
    <2>1. CASE Restarts(retrier[q]) \/ Inserts(retrier[q])
      BY <1>1, <2>1, StartJobRow DEF Retry
    <2>2. CASE ~(Restarts(retrier[q]) \/ Inserts(retrier[q]))
      BY <2>2 DEF Retry, Inv, TypeInv
    <2> QED
      BY <2>1, <2>2
  <1>3. /\ retrier' \in [Retrier -> [step : {"new", "selected", "done"}, id : 0 .. MaxJobs,
                         status : {"none", "processing", "succeeded", "partial", "failed"}]]
        /\ \A p \in Retrier : retrier'[p].step = "selected" => retrier[p].step = "selected"
    BY SessionResultAssumption DEF Inv, TypeInv, Retry, NewRetry
  <1>4. TypeInv'
    BY <1>2, <1>3 DEF Inv, TypeInv, Retry
  <1>5. ResultInv'
    BY <1>1, <1>2, <1>3 DEF Inv, ResultInv, Retry
  <1> QED
    BY <1>2, <1>4, <1>5, ResultStep DEF Retry

LEMMA CheckForDeleteInv ==
    ASSUME Inv, NEW q \in Deleter, CheckForDelete(q)
    PROVE  Inv'
  <1>1. TypeInv'
    <2>1. result.id \in 0 .. MaxJobs /\ 0 \in 0 .. MaxJobs
      BY SessionResultAssumption DEF Inv, TypeInv, ResultRow
    <2> QED
      BY <2>1 DEF Inv, TypeInv, CheckForDelete
  <1> QED
    BY <1>1, QuietStep DEF CheckForDelete

LEMMA DeleteInv ==
    ASSUME Inv, NEW q \in Deleter, Delete(q)
    PROVE  Inv'
  <1>1. /\ result' \in ResultRow
        /\ job' \in [no : 0 .. MaxJobs, status : {"none", "queued", "processing", "ended"}]
        /\ result' = result \/ result' = NoResult
    BY EmptyRows DEF Inv, TypeInv, Delete
  <1>2. NoResult.status = "none" /\ NoResult.id = 0
    BY DEF NoResult
  <1>3. TypeInv'
    <2>1. 0 \in 0 .. MaxJobs
      BY SessionResultAssumption
    <2> QED
      BY <1>1, <2>1 DEF Inv, TypeInv, Delete
  <1>4. ResultInv'
    BY <1>1, <1>2 DEF Inv, ResultInv, Delete
  <1> QED
    BY <1>1, <1>2, <1>3, <1>4, ResultStep DEF Delete

-------------------------------------------------------------------------------
\* What the worker writes

\* The lowest of the points given to each category that is named.
Lowest(given) ==
    [c \in {g[1] : g \in given} |-> Min({g[2] : g \in {h \in given : h[1] = c}})]

LEMMA LowestArePoints ==
    ASSUME NEW given \in SUBSET (Category \X Points)
    PROVE  Lowest(given) \in Partial(Category)
  <1> DEFINE named == {g[1] : g \in given}
             of(c) == {g[2] : g \in {h \in given : h[1] = c}}
  <1>1. named \in SUBSET Category
    OBVIOUS
  <1>2. ASSUME NEW c \in named PROVE Min(of(c)) \in Points
    <2>1. of(c) \in SUBSET Points /\ of(c) # {}
      OBVIOUS
    <2> HIDE DEF of
    <2>2. of(c) \in SUBSET Nat
      BY <2>1, SessionResultAssumption
    <2>3. \E x \in of(c) : \A y \in of(c) : x <= y
      BY <2>1, <2>2, LeastElement
    <2>4. Min(of(c)) \in of(c)
      BY <2>3 DEF Min
    <2> QED
      BY <2>1, <2>4
  <1>3. Lowest(given) = [c \in named |-> Min(of(c))]
    BY DEF Lowest
  <1> HIDE DEF named, of
  <1>4. [c \in named |-> Min(of(c))] \in [named -> Points]
    BY <1>2
  <1> QED
    BY <1>1, <1>3, <1>4 DEF Partial

\* An evaluation of an interview adds up.
LEMMA FromScoresFacts ==
    ASSUME NEW given \in SUBSET (Category \X Points), FromScores(given).status # "failed"
    PROVE  LET made == FromScores(given)
           IN /\ made.status \in {"succeeded", "partial"}
              /\ made.scores \in Partial(Category) /\ made.overall \in Overalls
              /\ made.missing = Category \ DOMAIN made.scores
              /\ made.status = "succeeded" =>
                   Complete(made.scores) /\ made.overall = Total(made.scores)
              /\ made.status = "partial" => made.overall = NoScore /\ made.missing # {}
  <1>1. PICK scores \in Partial(Category) : scores = Lowest(given)
    BY LowestArePoints
  <1>2. PICK total \in Nat : total = Total(scores)
    BY TotalIsNatural
  <1>3. FromScores(given) =
          [status |-> IF given = {} THEN "failed"
                      ELSE IF Complete(scores) THEN "succeeded" ELSE "partial",
           scores |-> scores,
           overall |-> IF Complete(scores) THEN total ELSE NoScore,
           missing |-> Category \ DOMAIN scores]
    BY <1>1, <1>2 DEF FromScores, Lowest
  <1>4. DOMAIN scores \in SUBSET Category
    BY DEF Partial
  <1>5. /\ FromScores(given).status = IF Complete(scores) THEN "succeeded" ELSE "partial"
        /\ FromScores(given).scores = scores
        /\ FromScores(given).overall = IF Complete(scores) THEN total ELSE NoScore
        /\ FromScores(given).missing = Category \ DOMAIN scores
    BY <1>3
  <1>6. ~Complete(scores) => Category \ DOMAIN scores # {}
    BY <1>4 DEF Complete
  <1>7. total \in Overalls /\ NoScore \in Overalls
    BY DEF Overalls
  <1>8. PICK made : made = FromScores(given)
    OBVIOUS
  <1>9. /\ made.status = IF Complete(scores) THEN "succeeded" ELSE "partial"
        /\ made.scores = scores /\ made.missing = Category \ DOMAIN scores
        /\ made.overall = IF Complete(scores) THEN total ELSE NoScore
    BY <1>5, <1>8
  <1>10. Complete(scores) => Total(made.scores) = total
    BY <1>2, <1>9
  <1>11. Complete(made.scores) <=> Complete(scores)
    BY <1>9 DEF Complete
  <1>12. /\ made.status \in {"succeeded", "partial"}
         /\ made.scores \in Partial(Category) /\ made.overall \in Overalls
         /\ made.missing = Category \ DOMAIN made.scores
         /\ made.status = "succeeded" =>
              Complete(made.scores) /\ made.overall = Total(made.scores)
         /\ made.status = "partial" => made.overall = NoScore /\ made.missing # {}
    BY <1>6, <1>7, <1>9, <1>10, <1>11
  <1> QED
    BY <1>8, <1>12

\* The scores of a session that is not an interview: one of each category that is named.
LEMMA ChosenArePoints ==
    ASSUME NEW given \in SUBSET (Category \X Points)
    PROVE  [c \in {g[1] : g \in given} |-> CHOOSE p \in Points : <<c, p>> \in given]
             \in Partial(Category)
  <1> DEFINE named == {g[1] : g \in given}
             of(c) == CHOOSE p \in Points : <<c, p>> \in given
  <1>1. named \in SUBSET Category
    OBVIOUS
  <1>2. ASSUME NEW c \in named PROVE of(c) \in Points
    <2>1. PICK g \in given : g[1] = c
      OBVIOUS
    <2>2. g = <<c, g[2]>> /\ g[2] \in Points
      BY <2>1
    <2>3. \E p \in Points : <<c, p>> \in given
      BY <2>2
    <2> QED
      BY <2>3
  <1> HIDE DEF named, of
  <1>3. [c \in named |-> of(c)] \in [named -> Points]
    BY <1>2
  <1>4. [c \in named |-> of(c)] \in Partial(Category)
    BY <1>1, <1>3 DEF Partial
  <1> QED
    BY <1>4 DEF named, of

LEMMA CompleteResultInv ==
    ASSUME Inv, CompleteResult
    PROVE  Inv'
  <1>1. PICK given \in Outputs :
          LET made == Outcome(given)
          IN /\ made.status # "failed"
             /\ result' = [result EXCEPT !.status = made.status, !.scores = made.scores,
                                         !.overall = made.overall, !.missing = made.missing,
                                         !.scope = claim.scope]
    BY DEF CompleteResult
  <1>2. PICK made : made = Outcome(given)
    OBVIOUS
  <1>3. /\ made.status # "failed"
        /\ result' = [result EXCEPT !.status = made.status, !.scores = made.scores,
                                    !.overall = made.overall, !.missing = made.missing,
                                    !.scope = claim.scope]
    BY <1>1, <1>2
  <1>4. given \in SUBSET (Category \X Points)
    BY DEF Outputs
  <1>5. result \in ResultRow /\ claim.scope \in SUBSET Turn
    BY DEF Inv, TypeInv
  <1>6. claim.job # 0 /\ result.status = "processing"
        /\ UNCHANGED <<room, feedback, attempt, retrier, deleter>>
    BY DEF CompleteResult
  <1>7. Interview =>
          /\ made.status \in {"succeeded", "partial"}
          /\ made.scores \in Partial(Category) /\ made.overall \in Overalls
          /\ made.missing = Category \ DOMAIN made.scores
          /\ made.status = "succeeded" =>
               Complete(made.scores) /\ made.overall = Total(made.scores)
          /\ made.status = "partial" => made.overall = NoScore /\ made.missing # {}
    <2>1. SUFFICES ASSUME Interview
                   PROVE  made = FromScores(given) /\ FromScores(given).status # "failed"
      BY <1>4, FromScoresFacts
    <2> QED
      BY <1>2, <1>3, <2>1 DEF Outcome
  <1>8. ~Interview =>
          /\ made.status = "succeeded" /\ made.overall = claim.overall /\ made.missing = {}
          /\ made.scores \in Partial(Category)
    <2>1. SUFFICES ASSUME ~Interview
                   PROVE  /\ made.status = "succeeded" /\ made.overall = claim.overall
                          /\ made.missing = {} /\ made.scores \in Partial(Category)
      OBVIOUS
    <2>2. PICK scores \in Partial(Category) :
            scores = [c \in {g[1] : g \in given} |-> CHOOSE p \in Points : <<c, p>> \in given]
      BY <1>4, ChosenArePoints
    <2>3. made = [status |-> "succeeded", overall |-> claim.overall, missing |-> {},
                  scores |-> scores]
      BY <1>2, <2>1, <2>2 DEF Outcome
    <2> QED
      BY <2>3
  <1>9. /\ made.status \in {"succeeded", "partial"} /\ made.scores \in Partial(Category)
        /\ made.overall \in Overalls /\ made.missing \in SUBSET Category
    <2>1. claim.overall \in Overalls
      BY DEF Inv, TypeInv
    <2> QED
      BY <1>7, <1>8, <2>1
  <1>10. /\ result' \in ResultRow /\ result'.id = result.id
         /\ result'.status = made.status /\ result'.scores = made.scores
         /\ result'.overall = made.overall /\ result'.missing = made.missing
         /\ result'.scope = claim.scope
    BY <1>3, <1>5, <1>9 DEF ResultRow
  <1>11. TypeInv'
    BY <1>10, NoClaimFacts DEF Inv, TypeInv, CompleteResult
  <1>12. ResultInv'
    BY <1>6, <1>9, <1>10 DEF Inv, ResultInv
  <1>13. InterviewAddsUp'
    <2>1. SUFFICES ASSUME Interview PROVE InterviewAddsUp'
      BY <1>6 DEF InterviewAddsUp, Interview
    <2>2. Total(result.scores)' = Total(made.scores)
      BY <1>10 DEF Total, MapThenSumSet, MapThenFoldSet
    <2>3. Complete(result.scores)' <=> Complete(made.scores)
      BY <1>10 DEF Complete
    <2>4. Complete(made.scores) => Category \ DOMAIN made.scores = {}
      BY DEF Complete
    <2> QED
      BY <1>7, <1>10, <2>1, <2>2, <2>3, <2>4 DEF InterviewAddsUp
  <1>14. ClaimInv'
    BY NoClaimFacts DEF ClaimInv, CompleteResult
  <1>15. ScoreIsExplained'
    <2>1. SUFFICES ASSUME ~Interview PROVE Explained(result.scope, result.overall)'
      BY <1>6, ScoreSpelt2 DEF Interview
    <2>2. PICK s, o : s = claim.scope /\ o = claim.overall
      OBVIOUS
    <2>3. Explained(s, o)
      BY <1>6, <2>1, <2>2 DEF Inv, ClaimInv
    <2>4. KeepsReady
      BY <1>6 DEF KeepsReady
    <2>5. Explained(s, o)'
      BY <2>3, <2>4, ExplainedStays
    <2>6. result'.scope = s /\ result'.overall = o
      BY <1>8, <1>10, <2>1, <2>2
    <2> QED
      BY <2>5, <2>6 DEF Explained
  <1>16. TurnsInv' /\ TotalsAddUp'
    BY <1>6 DEF Inv, TurnsInv, TotalsAddUp
  <1> QED
    BY <1>11, <1>12, <1>13, <1>14, <1>15, <1>16 DEF Inv

-------------------------------------------------------------------------------
\* The theorems

LEMMA NextInv ==
    ASSUME Inv, [Next]_vars
    PROVE  Inv'
  <1>1. ASSUME NEW t \in Turn,
               \/ ConfirmTurn(t)
               \/ ClaimFeedback(t) \/ CompleteFeedback(t) \/ FailFeedback(t)
               \/ RequeueFeedback(t) \/ RetryFeedback(t)
        PROVE  Inv'
    BY <1>1, ConfirmTurnInv, ClaimFeedbackInv, CompleteFeedbackInv, FailFeedbackInv,
       RequeueFeedbackInv, RetryFeedbackInv
  <1>2. CASE EndPractice
    BY <1>2, EndPracticeInv
  <1>3. CASE ClaimResult
    BY <1>3, ClaimResultInv
  <1>4. CASE CompleteResult
    BY <1>4, CompleteResultInv
  <1>5. CASE RequeueResult
    BY <1>5, RequeueResultInv
  <1>6. CASE LoseClaim
    BY <1>6, LoseClaimInv
  <1>7. CASE FailResult
    BY <1>7, FailResultInv
  <1>8. ASSUME NEW q \in Retrier, SelectForRetry(q) \/ Retry(q) PROVE Inv'
    BY <1>8, SelectForRetryInv, RetryInv
  <1>9. ASSUME NEW q \in Deleter, CheckForDelete(q) \/ Delete(q) PROVE Inv'
    BY <1>9, CheckForDeleteInv, DeleteInv
  <1>10. CASE UNCHANGED vars
    <2>1. TypeInv'
      BY <1>10 DEF vars, Inv, TypeInv
    <2> QED
      BY <1>10, <2>1, QuietStep DEF vars
  <1> QED
    BY <1>1, <1>2, <1>3, <1>4, <1>5, <1>6, <1>7, <1>8, <1>9, <1>10 DEF Next

LEMMA Invariance == Spec => []Inv
  BY InitInv, NextInv, PTL DEF Spec

\* Every state has its type: rows, totals and tokens stay in their ranges, and a worker that
\* holds a claim has a number to write (FeedbackAdapter, SessionResultAdapter).
THEOREM TypeCorrect == Spec => []TypeOK
  <1>1. ASSUME Inv PROVE TypeOK
    <2>1. \A t \in Turn : feedback[t] \in FeedbackRow
      BY <1>1 DEF Inv, TypeInv
    <2>2. result \in ResultRow
      BY <1>1 DEF Inv, TypeInv
    <2> QED
      BY <1>1, <2>1, <2>2 DEF Inv, TypeInv, TypeOK, FeedbackRow, ResultRow, Overalls
  <1> QED
    BY <1>1, Invariance, PTL

\* A total is shown exactly when every category has a score, and is their sum, whatever
\* attempts fail, are given up on or come late (FeedbackAdapter.complete, retry_feedback).
THEOREM TotalsAddUpHolds == Spec => []TotalsAddUp
  <1>1. Inv => TotalsAddUp
    BY DEF Inv
  <1> QED
    BY <1>1, Invariance, PTL

\* The total of a chat or scenario is the mean, within half a point, of feedback that is
\* still there (SessionResultAdapter.claim and complete, retry_feedback).
THEOREM ScoreIsExplainedHolds == Spec => []ScoreIsExplained
  <1>1. Inv => ScoreIsExplained
    BY DEF Inv
  <1> QED
    BY <1>1, Invariance, PTL

\* The result of an interview and its scores agree, through failures and retries
\* (InterviewEvaluation.from_scores, SessionResultAdapter.fail).
THEOREM InterviewAddsUpHolds == Spec => []InterviewAddsUp
  <1>1. Inv => InterviewAddsUp
    BY DEF Inv
  <1> QED
    BY <1>1, Invariance, PTL

\* A total is a number, so no interview that has succeeded passes the check of the table.
LEMMA SucceededHasTotal ==
    ASSUME Inv, Interview, result.status = "succeeded"
    PROVE  result.overall # NoScore /\ result.id # 0
  <1>1. PICK scores \in Partial(Category) : scores = result.scores
    BY DEF Inv, TypeInv, ResultRow
  <1>2. result.overall = Total(scores)
    BY <1>1 DEF Inv, InterviewAddsUp, Total
  <1>3. result.overall \in Nat
    BY <1>2, TotalIsNatural
  <1>4. result.id # 0
    BY DEF Inv, ResultInv
  <1> QED
    BY <1>3, <1>4 DEF NoScore

\* The result of an interview that has succeeded is not made again, although requests to
\* retry it may have seen it failed (results.retry).
THEOREM SucceededIsFinalHolds == Spec => SucceededIsFinal
  <1>1. ASSUME Inv, [Next]_vars, Interview, result.status = "succeeded"
        PROVE  result'.status \in {"succeeded", "none"}
    <2>1. result.overall # NoScore /\ result.id # 0
      BY <1>1, SucceededHasTotal
    <2>2. CASE EndPractice
      BY <1>1, <2>2 DEF Inv, ResultInv, EndPractice
    <2>3. ASSUME NEW q \in Retrier, Retry(q) PROVE result' = result
      BY <1>1, <2>1, <2>3 DEF Retry, Restarts, Inserts
    <2>4. ASSUME NEW q \in Deleter, Delete(q) PROVE result' = result \/ result' = NoResult
      BY <2>4 DEF Delete
    <2>5. CASE CompleteResult \/ FailResult
      BY <1>1, <2>5 DEF CompleteResult, FailResult
    <2>6. ASSUME NEW t \in Turn,
                 \/ ConfirmTurn(t)
                 \/ ClaimFeedback(t) \/ CompleteFeedback(t) \/ FailFeedback(t)
                 \/ RequeueFeedback(t) \/ RetryFeedback(t)
          PROVE  result' = result
      BY <2>6 DEF ConfirmTurn, ClaimFeedback, CompleteFeedback, FailFeedback,
                  RequeueFeedback, RetryFeedback
    <2>7. CASE ClaimResult \/ RequeueResult \/ LoseClaim
      BY <1>1, <2>7 DEF ClaimResult, RequeueResult, LoseClaim
    <2>8. ASSUME NEW q \in Retrier, SelectForRetry(q) PROVE result' = result
      BY <2>8 DEF SelectForRetry
    <2>9. ASSUME NEW q \in Deleter, CheckForDelete(q) PROVE result' = result
      BY <2>9 DEF CheckForDelete
    <2>10. CASE UNCHANGED vars
      BY <1>1, <2>10 DEF vars
    <2>11. NoResult.status = "none"
      BY DEF NoResult
    <2> QED
      BY <1>1, <2>2, <2>3, <2>4, <2>5, <2>6, <2>7, <2>8, <2>9, <2>10, <2>11 DEF Next
  <1>2. Inv /\ [Next]_vars =>
          [Interview /\ result.status = "succeeded" =>
             result'.status \in {"succeeded", "none"}]_vars
    BY <1>1
  <1> QED
    BY <1>2, Invariance, PTL DEF Spec, SucceededIsFinal

=============================================================================
