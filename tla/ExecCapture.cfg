SPECIFICATION FairSpec
CONSTANTS
    Hosts <- AllHosts
    PipeCap = 2
    BufSize = 1
    MaxOutput = 3
    Forks = TRUE
INVARIANTS
    CaptureSound
    HandlesAccounted
PROPERTIES
    KeepsPromise
    ReturnsOrHeirHolds
