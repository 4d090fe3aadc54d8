SPECIFICATION Spec
CONSTANTS
    Approvals = {}
    Tools = {}
    Items = {i1}
    Nobody = Nobody
    MaxTurns = 2
    MaxWork = 2
    MaxUnread = 2
INVARIANT RefusedOnlyWhileRunning
CHECK_DEADLOCK FALSE
