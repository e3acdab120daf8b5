SPECIFICATION Spec
CONSTANTS
    Calls = {c1, c2, c3}
    Symbols = {s1}
    Params = {p1}
    Ops = {}
    None = None
    Capacity = 2
    OiTTL = 2
    GuardTTL = 2
    Horizon = 2
    MaxLag = 0
SYMMETRY CallSymmetry
INVARIANTS
    TypeOK
    SemaphoreSound
    OiFresh
PROPERTY
    CallsRunDown
