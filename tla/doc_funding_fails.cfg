SPECIFICATION Spec
CONSTANTS
    None = None
    Lost = Lost
    t1 = t1
    t2 = t2
    Order <- OneSymbol
    Tasks = {t1}
    Window = 1
    LastDay = 2
    TicksPerDay = 1
    Fundings = {0, 50}
    Interests = {100}
    Failures = FALSE
PROPERTY ExtremeFundingFails
