SPECIFICATION Spec
CONSTANTS
    None = None
    Interval = 3
    AaInterval = 4
    Debounce = 2
    Slowest = 1
    Threshold = 2
    Horizon = 12
    MaxPostponed = 1
    MetricAlerts <- MCMetricAlerts
    SnapshotsStored = TRUE
    StatusStored = TRUE
INVARIANT NothingSuppressed
INVARIANT ChatAgrees
INVARIANT ChecksKeepComing
PROPERTY SuggestsOnStreak
PROPERTY ImplementsBulletin
