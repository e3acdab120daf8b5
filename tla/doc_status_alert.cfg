SPECIFICATION Spec
CONSTANTS
    None = None
    Interval = 3
    AaInterval = 4
    Debounce = 2
    Slowest = 1
    Threshold = 2
    Horizon = 13
    MaxPostponed = 1
    MetricAlerts <- MCMetricAlerts
    SnapshotsStored = FALSE
    StatusStored = FALSE
INVARIANT ChangeIsAlerted
