SPECIFICATION FairSpec
CONSTANTS
    None = None
    Lost = Lost
    t1 = t1
    t2 = t2
    Order <- OneSymbol
    Tasks = {t1, t2}
    Window = 1
    LastDay = 1
    TicksPerDay = 1
    Fundings = {0}
    Interests = {100}
    Failures = TRUE
INVARIANT LaunchesAreFresh
INVARIANT BaseIsOlder
PROPERTY ImplementsLedger
PROPERTY RunsRunDown
PROPERTY EveryRunEnds
