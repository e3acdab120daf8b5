SPECIFICATION FairSpec
CONSTANTS
    Calls = {c1, c2, c3}
    Symbols = {}
    Params = {p1}
    Ops = {"funding"}
    None = None
    Capacity = 1
    OiTTL = 1
    GuardTTL = 1
    Horizon = 1
    MaxLag = 1
INVARIANT
    EstimateFresh
PROPERTIES
    ImplementsPool
    EveryCallEnds
