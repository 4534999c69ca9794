SPECIFICATION Spec
CONSTANTS
    w1 = w1 w2 = w2 e1 = e1
    Worker = {w1, w2}
    Evaluator = {e1}
    MaxMessages = 6
SYMMETRY Symmetry
INVARIANTS ReplyContextComplete FeedbackContextComplete
CHECK_DEADLOCK FALSE
