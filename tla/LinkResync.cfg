SPECIFICATION Spec
CONSTANTS
    Kinds <- SerialOnly
    MaxSessions = 1
    MaxCalls = 2
    MaxStops = 1
CHECK_DEADLOCK FALSE
INVARIANTS
    AnswersAlwaysMatch
