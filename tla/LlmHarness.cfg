SPECIFICATION FairSpec
CONSTANTS
    Generates = {g1, g2}
    MaxConvs = 2
    MaxCalls = 2
    MaxWork = 5
INVARIANTS TypeOK OneOwner HeldIsKnown NobodyWaitsOnTheOther
PROPERTIES CloseEndsAll
CHECK_DEADLOCK FALSE
