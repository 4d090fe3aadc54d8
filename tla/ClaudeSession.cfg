SPECIFICATION FairSpec
CONSTANTS
    Requests = {r1, r2}
    ToolIds = {i1}
    NoId = NoId
    Nobody = Nobody
    MaxTurns = 2
    MaxWork = 3
    MaxUnread = 1
INVARIANTS AskedIsKept OpenTurnsEnd
PROPERTIES KeepsContract GoneEndsSession
CHECK_DEADLOCK FALSE
