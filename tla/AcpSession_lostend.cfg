SPECIFICATION Spec
CONSTANTS
    Prompts = {p1}
    Requests = {}
    Ids = {t1}
    Nobody = Nobody
INVARIANT EveryTurnEndsOnce
CHECK_DEADLOCK FALSE
