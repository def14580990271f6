SPECIFICATION FairSpec
CONSTANTS
    Hosts <- NtOnly
    PipeCap = 1
    BufSize = 1
    MaxOutput = 1
    Forks = TRUE
PROPERTIES
    RunReturns
