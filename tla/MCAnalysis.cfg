SPECIFICATION FairSpec
CONSTANTS
    j1 = j1  j2 = j2  t1 = t1  s1 = s1
    Jobs = {j1}
    Targets = {t1}
    Sources = {s1}
    Workers = {w1, w2}
    TargetOf <- OneJob
    TypeOf <- Analysis
    SourceOf <- OneRow
    MaxAttempts = 2
    Deadline = 2
    Visibility = 3
    Backoff <- ReaperBackoff
    NoJob = NoJob
    NoResult = NoResult
PROPERTIES  NothingStoredForClosedSource
