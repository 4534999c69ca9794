SPECIFICATION Spec
CONSTANTS
    t1 = t1 t2 = t2 c1 = c1 c2 = c2 q1 = q1 q2 = q2 d1 = d1
    Turn = {t1, t2}
    Category = {c1, c2}
    Points = {5, 10}
    Retrier = {q1, q2}
    Deleter = {d1}
    MaxToken = 2
    MaxJobs = 3
SYMMETRY Symmetry
INVARIANTS TotalsAddUp ScoreIsExplained InterviewAddsUp
PROPERTY SucceededIsFinal
CHECK_DEADLOCK FALSE
