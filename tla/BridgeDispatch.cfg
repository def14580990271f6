SPECIFICATION FairSpec
CONSTANTS
    c1 = c1
    c2 = c2
    c3 = c3
    c4 = c4
    exec = exec
    build = build
    read = read
    Calls <- FourCalls
    Tools <- MCTools
    ToolOf <- FourToolOf
    PowerTools <- MCPowerTools
    BuildTools <- MCBuildTools
    ExecTool = exec
    AllowUnsafe = FALSE
    NoBucket = NoBucket
    NoInstant = NoInstant
    Capacity = 1
    RefillInterval = 1
    CountRange = 4
    Threshold = 2
    Cooldown = 1
    MaxTime = 2
INVARIANTS
    PowerToolsAreAudited
    RefusedNeverSent
    OneCommandOnTheLink
    OpenMeansFailureRun
    LatchHasTrial
    OutageIsSpared
PROPERTIES
    EveryCallAnswered
