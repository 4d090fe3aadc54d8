SPECIFICATION Spec
CONSTANTS
    Prompts = {p1, p2}
    Requests = {}
    Ids = {t1}
    Nobody = Nobody
SYMMETRY Symmetry
INVARIANTS TypeOK ToldTruly TurnsCounted LeftTurnsReported
CHECK_DEADLOCK FALSE
