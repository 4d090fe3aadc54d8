SPECIFICATION Spec
CONSTANTS
    Approvals = {a1, a2}
    Tools = {t1}
    Items = {i1}
    Nobody = Nobody
    MaxTurns = 2
    MaxWork = 3
    MaxUnread = 2
SYMMETRY Symmetry
INVARIANTS TypeOK SettledOnce AskedIsReachable RunningIsActive ExitToldTruly
CHECK_DEADLOCK FALSE
