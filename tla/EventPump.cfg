SPECIFICATION FairSpec
CONSTANTS
    Producers = {p1, p2}
    Events = {e1, e2}
    NoEvent = NoEvent
    MaxPushes = 3
INVARIANTS NothingLost
PROPERTIES ImplementsQueue ReaderServed
