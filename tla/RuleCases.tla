----------------------------- MODULE RuleCases -----------------------------
(***************************************************************************)
(* What the pure rules promise, one input at a time: market data, or the   *)
(* state of a running bot, are drawn, judged by the properties, forgotten. *)
(***************************************************************************)
EXTENDS Gates, Health

CONSTANTS
    Fundings,    \* annualized funding rates, percent
    Interests,   \* values of open interest
    Prices,      \* prices an indicator can have
    Atrs, Adxs,
    Vols,        \* triples of realized volatility: 1, 7 and 30 days
    Estimates,   \* liquidation prices, in thousandths
    MetricSets,  \* the metrics of a bot
    Worsenings,  \* values one of them gets worse to
    OrderPrices, \* liquidation prices of an order, 0 when missing
    LastPrices,  \* prices it is checked at
    FewFundings, FewInterests, FewPrices, FewEstimates   \* bound: the values
                 \* among these that are combined into whole markets

ASSUME InputsOK ==
    /\ Fundings \subseteq Int
    /\ Interests \subseteq Nat \ {0}
    /\ Prices \subseteq Nat \ {0}
    /\ Atrs \subseteq Nat \ {0}
    /\ Adxs \subseteq Nat
    /\ Vols \subseteq [1..3 -> Nat]
    /\ Estimates \subseteq Nat
    /\ FewFundings \subseteq Fundings /\ FewInterests \subseteq Interests
    /\ FewPrices \subseteq Prices /\ FewEstimates \subseteq Estimates
    /\ MetricSets \subseteq [Metrics -> Int] /\ Worsenings \subseteq Int
    /\ OrderPrices \subseteq Nat /\ LastPrices \subseteq Nat \ {0}
    /\ None \notin Int
    /\ None \notin [old : Interests, new : Interests]

VARIABLE input

OiHistory(interests) == [old : interests, new : interests]

\* compute: the last close lies in its own candle, so in the 14-day range.
IndicatorSets(prices, adxs, vols) ==
    {i \in [price : prices, high : prices, low : prices, atr : Atrs, sma : prices,
            macd : {0, 1}, signal : {0}, adx : adxs, vol : vols] :
        i.low <= i.price /\ i.price <= i.high /\ i.low < i.high}

LiquidationPrices(estimates) == [up : estimates \cup {None}, down : estimates \cup {None}]

NoInput == [kind |-> "none"]
PositioningInputs ==
    [kind : {"positioning"}, f : Fundings, g : Fundings,
     oi : OiHistory(Interests), pi : OiHistory(Interests)]

\* No proposal depends on the indicators of gate 1: here they are zero.
ProposalInputs ==
    [kind : {"proposal"}, s : Symbols, i : IndicatorSets(Prices, {0}, {<<0, 0, 0>>}),
     e : LiquidationPrices(Estimates)]

\* A market with the snapshot gate 2 judges, or with none.
MarketInputs ==
    {x \in [kind : {"market"}, s : Symbols, i : IndicatorSets(FewPrices, Adxs, Vols),
            e : LiquidationPrices(FewEstimates), f : FewFundings \cup {None},
            oi : OiHistory(FewInterests) \cup {None}] :
        ~HasSnapshot(x.f) => ~Known(x.oi)}

\* A bot's metrics x, and the same with metric m at v.
MetricInputs ==
    [kind : {"metrics"}, s : Symbols, x : MetricSets, m : Metrics, v : Worsenings]

Order == [trend : Trends, up : OrderPrices, down : OrderPrices,
          position : {0}, row : {1}, volume : {1}]
OrderInputs == [kind : {"order"}, s : Symbols, o : Order, last : LastPrices]

Draw(inputs) ==
    /\ input = NoInput
    /\ input' \in inputs

Forget ==
    /\ input # NoInput
    /\ input' = NoInput

Init == input = NoInput
Next == \/ Draw(PositioningInputs) \/ Draw(ProposalInputs) \/ Draw(MarketInputs)
        \/ Draw(MetricInputs) \/ Draw(OrderInputs)
        \/ Forget
Spec == Init /\ [][Next]_input

\* Every input is one the rules can be given.
TypeOK == input \in {NoInput} \cup PositioningInputs \cup ProposalInputs \cup MarketInputs
                    \cup MetricInputs \cup OrderInputs

Proposal == BuildProposal(input.s, input.i)

---------------------------------------------------------------------------
(* Gate 2 *)

\* The rise of open interest in oi is at most the rise in pi.
RisesNoMore(oi, pi) == oi.new * pi.old <= pi.new * oi.old

\* More extreme funding together with a steeper rise of open interest never
\* gets a better status from build_positioning_checks: the crowding rule
\* replaces the plain open-interest rule without opening a gap between them.
PositioningMonotone ==
    (/\ input.kind = "positioning"
     /\ AbsoluteValue(input.f) <= AbsoluteValue(input.g)
     /\ RisesNoMore(input.oi, input.pi))
        => Positioning(input.f, input.oi) <= Positioning(input.g, input.pi)

---------------------------------------------------------------------------
(* The proposal and gate 3 *)

\* A proposal the builder makes has its stop-loss on the losing side of the
\* price, between the minimum distance and 30% away, and its take-profit on
\* the winning side, beyond the grid.
StopsBracketPrice ==
    input.kind = "proposal" =>
        LET p == Proposal
            Apart(d) == /\ MinDistance(p.sym) * p.last <= 1000 * d
                        /\ 1000 * d <= MaxDistance * p.last
        IN /\ p.trend = "NEUTRAL" => p.sl = None /\ p.tp = None
           /\ p.trend = "LONG" => Apart(p.last - p.sl) /\ p.tp > p.top /\ p.tp > p.last
           /\ p.trend = "SHORT" => Apart(p.sl - p.last) /\ p.tp < p.bottom /\ p.tp < p.last

\* Gate 3 of a proposal the builder makes is PASS or FAIL: the two CAUTION
\* rules re-check distances the builder already enforces.  (In exact
\* arithmetic: a float rounding in last - (last - d) is not modelled.)
BuiltNeverCautions ==
    input.kind = "proposal" => LiquidationSafety(Proposal, input.e) # Caution

\* A side of the grid is covered: its liquidation price is at least 2.5 grid
\* ranges away.
Covered(distance, p) == 2 * distance >= 5 * (p.top - p.bottom)

\* When gate 3 does not fail, the exchange's liquidation price cannot be
\* reached before the grid is safe or its stop-loss triggers: a directional
\* grid knows the price on its losing side and has either the buffer or a
\* stop-loss in front of it; a neutral grid knows at least one side, and each
\* side it knows has the buffer.
LiquidationSafe ==
    input.kind = "proposal" =>
        LET p == Proposal
            e == input.e
        IN LiquidationSafety(p, e) # Fail =>
             /\ p.trend = "LONG" => HasBuffer(e.down) /\ e.down < p.sl
             /\ p.trend = "SHORT" => HasBuffer(e.up) /\ p.sl < e.up
             /\ p.trend = "NEUTRAL" =>
                  /\ HasBuffer(e.up) \/ HasBuffer(e.down)
                  /\ HasBuffer(e.up) => Covered(e.up - p.top, p)
                  /\ HasBuffer(e.down) => Covered(p.bottom - e.down, p)

---------------------------------------------------------------------------
(* The weekly pipeline *)

Gates3 ==
    GatesRun(Regime(input.i), Positioning(input.f, input.oi),
             LiquidationSafety(Proposal, input.e))

\* No trend, a range of at least three ATRs, no rising volatility.
CalmRegime(i) ==
    /\ i.adx <= 25
    /\ i.high - i.low >= 3 * i.atr
    /\ ~(100 * i.vol[2] > 105 * i.vol[1] /\ 100 * i.vol[3] > 105 * i.vol[2])

\* Moderate funding and no fast growth of open interest that is known.
CalmPositioning(f, oi) ==
    /\ AbsoluteValue(f) <= FundingCaution
    /\ Known(oi) => ~RisesBy(oi, OiCaution)

CalmInput ==
    /\ CalmRegime(input.i)
    /\ HasSnapshot(input.f) => CalmPositioning(input.f, input.oi)
    /\ LiquidationSafety(Proposal, input.e) # Fail
OfferMade == Offered(Gates3, OnlyHistoryMissing(input.f, input.oi))

\* The weekly digest offers a launch exactly when the regime is calm, gate 3
\* does not fail the grid, and the snapshot, if there is one, shows a calm
\* positioning.  Without a snapshot it is offered whatever the funding.  So
\* the launch that a REVIEW still offers forgives a missing history or
\* snapshot and nothing else; and no two rules overlap into a CAUTION at
\* their limits, nor has gate 3 one for a grid of the builder, that would
\* hold a launch back.
OfferedOnCalmReadings == input.kind = "market" => (OfferMade <=> CalmInput)

---------------------------------------------------------------------------
(* The health of a running bot *)

\* v is at least as bad as the metric x[m].
NoBetter(x, m, v) ==
    IF m \in HigherBetter THEN v <= x[m]
    ELSE IF m = "funding" THEN AbsoluteValue(v) >= AbsoluteValue(x[m])
    ELSE v >= x[m]

\* When one metric gets worse, the status never gets better and no alert goes
\* away, for every symbol's own limits: no override leaves a gap or turns a
\* pair of limits round, and funding counts in both directions.
WorseNeverBetter ==
    (input.kind = "metrics" /\ NoBetter(input.x, input.m, input.v)) =>
        LET worse == [input.x EXCEPT ![input.m] = input.v] IN
        /\ Status(input.s, input.x) <= Status(input.s, worse)
        /\ Alerts(input.s, input.x) \subseteq Alerts(input.s, worse)

\* The score is between 0 and 1, however deep the other metrics are in their
\* RED zones, as long as pnl is not RED; a RED pnl can only raise it above 1.
ScoreBounded ==
    input.kind = "metrics" =>
        LET score == Score(input.s, input.x) IN
        /\ score >= 0
        /\ SubStatus(input.s, input.x, "pnl") # Red => score <= Full

\* A liquidation price closer than the YELLOW limit.
Near(price) ==
    /\ price > 0
    /\ 1000 * Gap(price, input.last) < Limits(input.s)["liq"][2] * input.last

\* A liquidation price that is near raises LIQUIDATION_RISK: on the losing
\* side of a directional grid, on either side of a neutral one.  And there is
\* no such alert without a near price on some side.
LiquidationSeen ==
    input.kind = "order" =>
        LET o == input.o
            alarm == "liq" \in Alerts(input.s, DeriveMetrics(o, input.last, 0, 0, 0, 0, 0))
        IN /\ \/ o.trend = "LONG" /\ Near(o.down)
              \/ o.trend = "SHORT" /\ Near(o.up)
              \/ o.trend = "NEUTRAL" /\ (Near(o.up) \/ Near(o.down))
              => alarm
           /\ alarm => Near(o.up) \/ Near(o.down)

===========================================================================
