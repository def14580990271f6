SPECIFICATION FairSpec
CONSTANTS
    d = d
    e = e
    x = x
    y = y
    long = long
    Self = Self
    Dirs = {d, e}
    Leaves = {x, y}
    Names <- MCNames
    Field <- MCField
    NotOnPage <- MCNotOnPage
    Requests <- MCRequests
    Initial <- MCInitial
    OutsideSizes = {0, 2, 7, 9, 18}
    SizeLow = 16
    MaxData = 6
    LineRoom = 4
    ListRoom = 1
    MaxRequests = 2
    MaxOutside = 2
CHECK_DEADLOCK FALSE
INVARIANTS
    BuffersHold
PROPERTIES
    ReadTellsTheFile
    ListTellsTheDirectory
    ChangesAreAnswered
    RequestEnds
