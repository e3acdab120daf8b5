SPECIFICATION Spec
CONSTANTS
    Updates = {i1, i2}
    Cards = {m1}
    Boards <- DigestAndAlert
    Typed = {"propose"}
    None = None
    MaxAge = 1
    QueryLife = 0
    Horizon = 2
    MaxCrashes = 1
SYMMETRY Same
INVARIANTS
    LaunchesInTime
    SilenceExplained
    ButtonsUntilDone
CHECK_DEADLOCK FALSE
