SPECIFICATION FairSpec
CONSTANTS
    Approvals = {a1}
    Tools = {t1}
    Items = {i1}
    Nobody = Nobody
    MaxTurns = 2
    MaxWork = 2
    MaxUnread = 2
PROPERTIES NothingHangs
CHECK_DEADLOCK FALSE
