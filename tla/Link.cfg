SPECIFICATION FairSpec
CONSTANTS
    Kinds <- BothKinds
    MaxSessions = 3
    MaxCalls = 3
    MaxStops = 2
CHECK_DEADLOCK FALSE
INVARIANTS
    FramingSound
PROPERTIES
    AnswersMatch
    BridgeReturns
