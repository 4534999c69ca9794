SPECIFICATION Spec
CONSTANTS
    d1 = d1 d2 = d2 a1 = a1 a2 = a2 c1 = c1 c2 = c2 w1 = w1 w2 = w2 Nothing = Nothing
    Document = {d1, d2}
    Analysis = {a1, a2}
    Configuration = {c1, c2}
    Worker = {w1, w2}
    MaxGenerations = 2
SYMMETRY Symmetry
INVARIANTS ChunksAreCurrent ReadyIsLastGeneration
PROPERTY QuestionsAreFrozen
CHECK_DEADLOCK FALSE
