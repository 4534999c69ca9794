SPECIFICATION FairSpec
CONSTANTS
    resume = resume letter = letter user = user other = other None = None
    User = user
    Versions <- TwoVersions
    Threshold = 2
    TopK = 2
    Rows <- Chunks
    QuestionCount = 2
    MaxAttempts = 3
    Deadline = 4
    Visibility = 5
    RetryAfters = {0, 5}
    SlowReads = FALSE
    MaxCrashes = 1
INVARIANTS QuestionsCiteEvidence CallBudget
 
CHECK_DEADLOCK FALSE
