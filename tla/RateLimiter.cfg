SPECIFICATION Spec
CONSTANTS
    read = read
    exec = exec
    Tools <- MCTools
    NoBucket = NoBucket
    Capacity = 2
    RefillInterval = 2
    CountRange = 4
    MaxTime = 7
    MaxCalls = 6
INVARIANTS
    AllowanceBound
    ShedIsEarned
CHECK_DEADLOCK FALSE
