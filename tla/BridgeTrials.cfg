SPECIFICATION Spec
CONSTANTS
    c1 = c1
    c2 = c2
    c3 = c3
    c4 = c4
    exec = exec
    build = build
    read = read
    Calls <- FourCalls
    Tools <- MCTools
    ToolOf <- ReadToolOf
    PowerTools <- MCPowerTools
    BuildTools <- MCBuildTools
    ExecTool = exec
    AllowUnsafe = FALSE
    NoBucket = NoBucket
    NoInstant = NoInstant
    Capacity = 4
    RefillInterval = 1
    CountRange = 4
    Threshold = 1
    Cooldown = 1
    MaxTime = 2
INVARIANTS
    SingleTrial
