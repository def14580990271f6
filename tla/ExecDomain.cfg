SPECIFICATION PtyFairSpec
CONSTANTS
    MaxRequests = 4
    HasPty = TRUE
    PipeCap = 2
    BufSize = 2
    MaxOutput = 3
    CloseWaits = {TRUE, FALSE}
CHECK_DEADLOCK FALSE
INVARIANTS
    OnlyOrphanHandle
    PtySound
PROPERTIES
    AdmissionIsExclusive
    DomainHolds
    PtyReturns
