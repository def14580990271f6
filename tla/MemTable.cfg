SPECIFICATION Spec
CONSTANTS
    NumSlots = 2
    s1 = s1
    s2 = s2
    Salts <- TwoSalts
    Tiers <- AllHosts
    PokeLen = 2
    MaxSpawns = 3
    MaxPokes = 2
    MaxSessions = 2
    Free = Free
    NoToken = NoToken
SYMMETRY SaltSymmetry
CHECK_DEADLOCK FALSE
INVARIANTS
    TokenNamesOneProcess
    HandlesAreSlots
    PokeIsAudited
