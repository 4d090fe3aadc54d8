SPECIFICATION FairSpec
CONSTANTS
    Prompts = {}
    Requests = {r1, r2}
    Ids = {t1, t2}
    Nobody = Nobody
INVARIANTS ResolvedOnce AskedIsReachable
PROPERTIES DeathEndsSession RequestsEnd
CHECK_DEADLOCK FALSE
