SPECIFICATION MCFairSpec
CONSTANTS
    s1 = s1
    o1 = o1
    x1 = x1
    Symbols = {s1}
    Oids = {o1, o2}
    Orders = {x1, x2}
    Tasks = {t1, t2}
    None = None
    ClosedAtDefault = FALSE
    AutoPauseOnRed = TRUE
INVARIANTS
    TypeOK
    OneOpenPerSymbol
    PausedFlagAgrees
    MonitoringCoverage
    OrphansUnreachable
    LiveOrdersWatched
PROPERTY
    ImplementsFleet
    TasksRunDown
    Answered
    LaunchedGetsMonitored
