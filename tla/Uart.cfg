SPECIFICATION FairSpec
CONSTANTS
    Chips <- SomeChips
    FifoDepth = 2
    ReadLen = 2
    MaxLine = 4
    MaxWrites = 1
    MaxLen = 3
CHECK_DEADLOCK FALSE
INVARIANTS
    ChipSound
    ReceptionSound
PROPERTIES
    DriverReturns
