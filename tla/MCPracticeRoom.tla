---------------------------- MODULE MCPracticeRoom ----------------------------
(***************************************************************************)
(* Instances of PracticeRoom for TLC: an interview of two questions, one   *)
(* of a single question that may be answered beyond its limit, and a       *)
(* scenario.                                                               *)
(***************************************************************************)
EXTENDS PracticeRoom, TLC

CONSTANTS interview, single, scenario, w1, w2, c1, c2

MCTypeOf == [r \in Room |-> IF r = scenario THEN "scenario" ELSE "interview"]
MCQuestions == [r \in Room |-> IF r = interview THEN 2 ELSE 1]

\* The user stays in one room; two rooms meet only in the limit on active jobs, which
\* the jobs of one room reach too.
OneRoomAtATime ==
    Cardinality({r \in Room : msgs[r] # <<>> \/ open[r] # Closed \/ ~InProgress(r)}) <= 1

\* States that differ only in what nothing reads any more are one to TLC: the holder of
\* a reply that is not in processing, and whether an evaluation ended or never began.
\* Their next steps differ in that alone, and no property of the run reads it.
View ==
    LET known(m) == IF m.reply = "processing" THEN m ELSE [m EXCEPT !.holder = Nobody]
    IN <<room, [r \in Room |-> [i \in DOMAIN msgs[r] |-> known(msgs[r][i])]], open, work,
         [r \in Room |-> PendingEvals(r)], achieved, results, side>>

Symmetry == Permutations(Worker)
=============================================================================
