SPECIFICATION FairSpec
CONSTANTS
    Prompts = {p1, p2}
    Dialogs = {d1}
    Nobody = Nobody
    MaxWork = 2
    MaxUnread = 1
INVARIANTS TypeOK WaitedOnIsReachable RestLeavesNoTurn
PROPERTIES KeepsContract HandledHasNoRun GoneEndsSession
CHECK_DEADLOCK FALSE
