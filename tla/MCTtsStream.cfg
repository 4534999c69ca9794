SPECIFICATION FairSpec
CONSTANTS
    w1 = w1 w2 = w2
    Worker = {w1, w2}
    MaxChunks = 2
    MaxAttempts = 2
    MaxToken = 2
    Polls = 4
 
PROPERTY StreamEnds
CHECK_DEADLOCK FALSE
