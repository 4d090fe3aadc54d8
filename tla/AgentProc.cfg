SPECIFICATION FairProcSpec
CONSTANTS
    Flushers = {f1, f2}
    MaxWritten = 1
    Callers = {c1}
INVARIANTS FlushCovers ExitedMeansRead
PROPERTIES CopierDelivers ExitIsCollected
CHECK_DEADLOCK FALSE
