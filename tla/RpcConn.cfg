SPECIFICATION FairSpec
CONSTANTS
    Calls = {c1, c2}
    NoCall = NoCall
    MaxInbound = 2
INVARIANTS ChannelsSafe RegistryExact AnswerSurvivesClose
PROPERTIES CallsReturn
CHECK_DEADLOCK FALSE
