SPECIFICATION InputSpec
CONSTANTS
    Byte = 16
    Sextet = 8
    Word = 256
    Size <- MCSize
    Ints = {"timeout_ms"}
    Bools = {"unsafe"}
    MaxArgv = 3
    ArgSize = 3
    IntLimit = 214
    Pages <- MCPages
    Utf8Id = 65001
    Window = 4
    PathWide = 6
    PathMb = 18
    MaxEntries = 2
    MaxOptions = 2
    NameLen = 4
    FlagLen = 4
    FileMax = 100
    LineRoom = 14
    ShellMax = 9
    DirectMax = 11
    Space = 16
    MaxAccess = 8
    VersionMax = 3
    BuildArgv = 9
    BuildArg = 8
    BuildLine = 80
    MaxBytes = 5
    Base = 8
    DosSize = 4
    ReadBytes = 10
    PortMax = 65535
    DefaultPort = 31744
    IntHalf = 1048576
    PortRoom = 9
    NameRoom = 5
    AddressRoom = 16
    PathRoom = 4
    Startups <- MCStartups
    Alphabet <- MCAlphabet
    MaxLen <- MCMaxLen
    Room = {2, 3, 20}
    Catalogs <- MCCatalogs
CHECK_DEADLOCK FALSE
INVARIANTS
    WireSound
    TextSound
    GateSound
    RangeSound
    ToolchainSound
    AuditSound
    ProgramSound
    StartSound
