------------------------------- MODULE Gates -------------------------------
(***************************************************************************)
(* The three pre-launch gates, the proposal they judge and the verdict     *)
(* they lead to: pure functions of the market data.                        *)
(*                                                                         *)
(* Numbers are exact.  Indicators are integers in some price unit;  the    *)
(* prices of a proposal are thousandths of that unit, so that every        *)
(* percentage and multiple the builder takes is an integer, and a quotient *)
(* is compared by cross-multiplying.  Python computes the same in floats.  *)
(***************************************************************************)
EXTENDS Values, Sequences

\* A rule, as what it adds to the statuses of the rules that fire.
Rule(triggered, status) == IF triggered THEN {status} ELSE {}

\* evaluate_checks: the worst status among the rules that fire.
EvaluateChecks(fired) ==
    IF Fail \in fired THEN Fail ELSE IF Caution \in fired THEN Caution ELSE Pass

---------------------------------------------------------------------------
(* The proposal, from indicators [price, high, low, atr, sma, macd, signal] *)

\* Per mille of the price a stop-loss must keep away from it.
MinDistance(sym) == IF sym = "XAUT" THEN 5 ELSE 10
MaxDistance == 300
StopBuffer(sym) ==
    CASE sym = "XAUT" -> 2500 [] sym = "XRP" -> 2000 [] OTHER -> 1500
TakeBuffer == 3000

DetermineTrend(i) ==
    CASE i.price > i.sma /\ i.macd > i.signal -> "LONG"
      [] i.price <= i.sma /\ i.macd <= i.signal -> "SHORT"
      [] OTHER -> "NEUTRAL"

\* Mutant of Distance: the lower bound is not enforced.
AtMostMax(d, sym, price) == IF d > MaxDistance * price THEN MaxDistance * price ELSE d

\* The distance of a stop-loss to the price: at least the minimum, then at
\* most the maximum.
Distance(d, sym, price) ==
    LET near == MinDistance(sym) * price
        far == MaxDistance * price
    IN IF d < near THEN near ELSE IF d > far THEN far ELSE d

StopLoss(sym, i) ==
    LET buffer == StopBuffer(sym) * i.atr
        price == 1000 * i.price
    IN CASE DetermineTrend(i) = "LONG" ->
              price - Distance(price - (1000 * i.low - buffer), sym, i.price)
         [] DetermineTrend(i) = "SHORT" ->
              price + Distance((1000 * i.high + buffer) - price, sym, i.price)
         [] OTHER -> None

\* Mutant of TakeProfit: the trends swapped.
TakeProfitSwapped(i) ==
    CASE DetermineTrend(i) = "SHORT" -> 1000 * i.high + TakeBuffer * i.atr
      [] DetermineTrend(i) = "LONG" -> 1000 * i.low - TakeBuffer * i.atr
      [] OTHER -> None

TakeProfit(i) ==
    CASE DetermineTrend(i) = "LONG" -> 1000 * i.high + TakeBuffer * i.atr
      [] DetermineTrend(i) = "SHORT" -> 1000 * i.low - TakeBuffer * i.atr
      [] OTHER -> None

BuildProposal(sym, i) ==
    [sym |-> sym, trend |-> DetermineTrend(i), top |-> 1000 * i.high,
     bottom |-> 1000 * i.low, last |-> 1000 * i.price, leverage |-> 1,
     sl |-> StopLoss(sym, i), tp |-> TakeProfit(i)]

---------------------------------------------------------------------------
(* Gate 1, from the indicators, adx and vol: the realized volatility over  *)
(* 1, 7 and 30 days                                                        *)

RegimeChecks(i) ==
    Rule(i.adx > 30, Fail)
    \cup Rule(25 < i.adx /\ i.adx <= 30, Caution)
    \cup Rule(i.high - i.low < 3 * i.atr, Fail)
    \cup Rule(~(i.low <= i.price /\ i.price <= i.high), Caution)
    \cup Rule(/\ 100 * i.vol[2] > 105 * i.vol[1]
              /\ 100 * i.vol[3] > 105 * i.vol[2], Caution)

Regime(i) == EvaluateChecks(RegimeChecks(i))

---------------------------------------------------------------------------
(* Gate 2, from the stored snapshot: its annualized funding rate in percent *)
(* and the open interest, its newest and oldest values in the window.      *)
(* Funding is None when there is no snapshot to judge, and the open        *)
(* interest when its history is too short.                                 *)

FundingCaution == 20
FundingFail == 40
OiCaution == 10
OiFail == 20

\* The rise of open interest, in percent, exceeds pct.
RisesBy(oi, pct) == 100 * (oi.new - oi.old) > pct * oi.old

\* compute_oi_pct_change_7d: too few snapshots or a zero base give None.
Known(oi) == oi # None

\* Funding beyond the caution level while open interest grows.
Crowded(funding, oi) == AbsoluteValue(funding) > FundingCaution /\ RisesBy(oi, 0)

HasSnapshot(funding) == funding # None

\* Mutant of SnapshotChecks: the caution zone of funding ends too early.
SnapshotChecksOpenZone(funding, oi) ==
    LET size == AbsoluteValue(funding) IN
    Rule(size > FundingFail, Fail)
    \cup Rule(FundingCaution < size /\ size < FundingFail, Caution)
    \cup Rule(~Known(oi), Caution)
    \cup Rule(Known(oi) /\ Crowded(funding, oi) /\ RisesBy(oi, OiFail), Fail)
    \cup Rule(Known(oi) /\ ~Crowded(funding, oi) /\ RisesBy(oi, OiCaution), Caution)

SnapshotChecks(funding, oi) ==
    LET size == AbsoluteValue(funding) IN
    Rule(size > FundingFail, Fail)
    \cup Rule(FundingCaution < size /\ size <= FundingFail, Caution)
    \cup Rule(~Known(oi), Caution)
    \cup Rule(Known(oi) /\ Crowded(funding, oi) /\ RisesBy(oi, OiFail), Fail)
    \cup Rule(Known(oi) /\ ~Crowded(funding, oi) /\ RisesBy(oi, OiCaution), Caution)

\* Without a snapshot the missing history is the one rule, whatever the
\* funding rate is.
PositioningChecks(funding, oi) ==
    IF HasSnapshot(funding) THEN SnapshotChecks(funding, oi) ELSE Rule(TRUE, Caution)

Positioning(funding, oi) == EvaluateChecks(PositioningChecks(funding, oi))

\* Mutant of OnlyHistoryMissing: a missing snapshot is not a missing history.
OnlyHistoryMissingStored(funding, oi) ==
    HasSnapshot(funding) /\ ~Known(oi) /\ AbsoluteValue(funding) <= FundingCaution

\* The only reason of the gate is the missing history.
OnlyHistoryMissing(funding, oi) ==
    \/ ~HasSnapshot(funding)
    \/ ~Known(oi) /\ AbsoluteValue(funding) <= FundingCaution

---------------------------------------------------------------------------
(* Gate 3, from the proposal and the liquidation prices e = [up, down] the *)
(* exchange estimates, None or 0 when it gives none                        *)

LeverageCap == 5

\* A buffer multiple exists: the price is there and is not zero.
HasBuffer(price) == price # None /\ price # 0
HasStops(p) == p.sl # None /\ p.tp # None

\* The distance from the grid to the liquidation price is less than 2.5
\* times the grid range.
TooThin(distance, p) == 2 * distance < 5 * (p.top - p.bottom)

\* The stop-loss is too close to the price: distance as seen from the price.
TooClose(distance, p) == 1000 * distance < MinDistance(p.sym) * p.last

NeutralChecks(p, e) ==
    Rule(/\ ~HasBuffer(e.up) \/ e.up = p.top
         /\ ~HasBuffer(e.down) \/ e.down = p.bottom, Fail)
    \cup Rule(HasBuffer(e.up) /\ TooThin(e.up - p.top, p), Fail)
    \cup Rule(HasBuffer(e.down) /\ TooThin(p.bottom - e.down, p), Fail)

\* Mutant of LongChecks: any stop-loss excuses a thin buffer.
LongChecksTrusting(p, e) ==
    Rule(~HasBuffer(e.down) \/ (TooThin(p.bottom - e.down, p) /\ ~HasStops(p)), Fail)

LongChecks(p, e) ==
    LET cantProtect == e.down # None /\ p.sl # None /\ p.sl <= e.down
        comparable == HasStops(p) /\ e.down # None
    IN Rule(\/ ~HasBuffer(e.down)
            \/ TooThin(p.bottom - e.down, p) /\ (~HasStops(p) \/ cantProtect), Fail)
       \cup Rule(comparable /\ p.sl <= e.down, Fail)
       \cup Rule(comparable /\ TooClose(p.last - p.sl, p), Caution)
       \cup Rule(comparable /\ p.tp < p.top, Caution)

ShortChecks(p, e) ==
    LET cantProtect == e.up # None /\ p.sl # None /\ p.sl >= e.up
        comparable == HasStops(p) /\ e.up # None
    IN Rule(\/ ~HasBuffer(e.up)
            \/ TooThin(e.up - p.top, p) /\ (~HasStops(p) \/ cantProtect), Fail)
       \cup Rule(comparable /\ p.sl >= e.up, Fail)
       \cup Rule(comparable /\ TooClose(p.sl - p.last, p), Caution)
       \cup Rule(comparable /\ p.tp > p.bottom, Caution)

LiquidationChecks(p, e) ==
    Rule(p.leverage > LeverageCap, Fail)
    \cup CASE p.trend = "NEUTRAL" -> NeutralChecks(p, e)
           [] p.trend = "LONG" -> LongChecks(p, e)
           [] OTHER -> ShortChecks(p, e)

LiquidationSafety(p, e) == EvaluateChecks(LiquidationChecks(p, e))

---------------------------------------------------------------------------
(* The verdict, from the statuses of the gates that ran, in gate order *)

\* The weekly assessment skips gates 2 and 3 when gate 1 fails.
GatesRun(g1, g2, g3) == IF g1 = Fail THEN <<g1>> ELSE <<g1, g2, g3>>

Resolve(gates) ==
    IF \E g \in DOMAIN gates : gates[g] = Fail THEN "hold"
    ELSE IF \E g \in DOMAIN gates : gates[g] = Caution THEN "review"
    ELSE "launch"

\* Mutant of LaunchableDespiteReview: any caution of gate 2 is waved through.
LaunchableOnPositioning(gates, onlyHistory) ==
    /\ Resolve(gates) = "review"
    /\ {g \in DOMAIN gates : gates[g] = Caution} = {2}

\* is_launchable_despite_review: the one CAUTION is gate 2's, for its history.
LaunchableDespiteReview(gates, onlyHistory) ==
    /\ Resolve(gates) = "review"
    /\ {g \in DOMAIN gates : gates[g] = Caution} = {2}
    /\ onlyHistory

\* send_digest: the digest carries the Launch and Manual buttons.
Offered(gates, onlyHistory) ==
    Resolve(gates) = "launch" \/ LaunchableDespiteReview(gates, onlyHistory)

===========================================================================
