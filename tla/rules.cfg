SPECIFICATION Spec
CONSTANTS
    None = None
    Fundings <- MCFundings
    Interests <- MCInterests
    Prices <- MCPrices
    Atrs <- MCAtrs
    Adxs = {25, 26}
    Vols <- MCVols
    Estimates <- MCEstimates
    MetricSets <- MCMetricSets
    Worsenings <- MCWorsenings
    OrderPrices <- MCOrderPrices
    LastPrices <- MCLastPrices
    FewFundings <- MCFewFundings
    FewInterests <- MCFewInterests
    FewPrices <- MCFewPrices
    FewEstimates <- MCFewEstimates
INVARIANT PositioningMonotone
INVARIANT StopsBracketPrice
INVARIANT LiquidationSafe
INVARIANT OfferedOnCalmReadings
INVARIANT WorseNeverBetter
INVARIANT ScoreBounded
INVARIANT LiquidationSeen
