------------------------------- MODULE Health -------------------------------
(***************************************************************************)
(* How a running bot is judged: the metrics a health check derives from    *)
(* the order and the classifier that turns them into a status, a score and *)
(* alerts.                                                                 *)
(*                                                                         *)
(* A metric is an integer in tenths of a percent (adx: tenths), a score in *)
(* ten-thousandths.  A quotient is rounded to the side on which comparing  *)
(* it with an integer limit gives what the unrounded one gives.            *)
(***************************************************************************)
EXTENDS Values, Sequences

Metrics == {"liq", "pnl", "fill", "vol", "funding", "adx"}
HigherBetter == {"liq", "pnl"}

\* The limits of GREEN and of YELLOW, and the overrides of three symbols.
DefaultLimits ==
    [liq |-> <<150, 75>>, pnl |-> <<-50, -150>>, fill |-> <<700, 900>>,
     vol |-> <<50, 100>>, funding |-> <<150, 300>>, adx |-> <<250, 350>>]

Limits(sym) ==
    CASE sym = "XAUT" -> [DefaultLimits EXCEPT !.vol = <<25, 50>>, !.liq = <<100, 50>>,
                                               !.pnl = <<-30, -80>>, !.fill = <<600, 850>>]
      [] sym = "XRP" -> [DefaultLimits EXCEPT !.vol = <<60, 120>>]
      [] sym = "SOL" -> [DefaultLimits EXCEPT !.vol = <<70, 140>>, !.liq = <<200, 100>>]
      [] OTHER -> DefaultLimits

\* Mutant of Judged: the sign of the funding rate is kept.
JudgedSigned(x, m) == x[m]

\* What of metric m is compared with the limits: funding by its size.
Judged(x, m) == IF m = "funding" THEN AbsoluteValue(x[m]) ELSE x[m]

\* v is on the good side of the limit.
Within(m, v, limit) == IF m \in HigherBetter THEN v >= limit ELSE v <= limit

\* The sub-status of one metric.
SubStatus(sym, x, m) ==
    LET v == Judged(x, m)
        limits == Limits(sym)[m]
    IN IF Within(m, v, limits[1]) THEN Green
       ELSE IF Within(m, v, limits[2]) THEN Yellow ELSE Red

\* The worst sub-status.
Status(sym, x) ==
    IF \E m \in Metrics : SubStatus(sym, x, m) = Red THEN Red
    ELSE IF \E m \in Metrics : SubStatus(sym, x, m) = Yellow THEN Yellow ELSE Green

\* The metrics that raise an alert of their own;  a RED adx raises none.
Alerts(sym, x) == {m \in Metrics \ {"adx"} : SubStatus(sym, x, m) = Red}

---------------------------------------------------------------------------
(* The score *)

Full == 10000
AtLeastZero(n) == IF n < 0 THEN 0 ELSE n

YellowScore(m, v, limits) ==
    IF m \in HigherBetter
    THEN (Full * (v - limits[2])) \div (limits[1] - limits[2])
    ELSE Full - (Full * (v - limits[1])) \div (limits[2] - limits[1])

\* Mutant of RedScore: no lower bound.
RedScoreUnbounded(m, v, limit) ==
    IF m \in HigherBetter
    THEN IF v < 0 /\ limit > 0 THEN 0
         ELSE (3000 * AbsoluteValue(v)) \div AbsoluteValue(limit)
    ELSE 3000 - (3000 * (v - limit)) \div limit

\* At most 3000, except that of a losing pnl: v / limit grows with the loss.
RedScore(m, v, limit) ==
    IF m \in HigherBetter
    THEN IF v < 0 /\ limit > 0 THEN 0
         ELSE (3000 * AbsoluteValue(v)) \div AbsoluteValue(limit)
    ELSE AtLeastZero(3000 - (3000 * (v - limit)) \div limit)

SubScore(sym, x, m) ==
    LET v == Judged(x, m)
        limits == Limits(sym)[m]
    IN CASE SubStatus(sym, x, m) = Green -> Full
         [] SubStatus(sym, x, m) = Yellow -> YellowScore(m, v, limits)
         [] OTHER -> RedScore(m, v, limits[2])

\* The weighted mean of the sub-scores.
Score(sym, x) ==
    (35 * SubScore(sym, x, "liq") + 20 * SubScore(sym, x, "pnl")
     + 15 * SubScore(sym, x, "fill") + 15 * SubScore(sym, x, "vol")
     + 10 * SubScore(sym, x, "funding") + 5 * SubScore(sym, x, "adx")) \div 100

---------------------------------------------------------------------------
(* Metrics of an order o = [trend, up, down, position, row, volume]: the   *)
(* liquidation prices, 0 when missing, and the filled part of the grid     *)

Gap(price, last) == AbsoluteValue(last - price)

\* Mutant of LiquidationPrice: the far price.
LiquidationPriceFar(o, last) ==
    IF o.trend = "LONG" /\ o.down > 0 THEN o.down
    ELSE IF o.trend = "SHORT" /\ o.up > 0 THEN o.up
    ELSE IF o.up > 0 /\ (o.down = 0 \/ Gap(o.up, last) >= Gap(o.down, last)) THEN o.up
    ELSE IF o.down > 0 THEN o.down ELSE None

\* The price on the losing side of a directional grid, else the nearer one.
LiquidationPrice(o, last) ==
    IF o.trend = "LONG" /\ o.down > 0 THEN o.down
    ELSE IF o.trend = "SHORT" /\ o.up > 0 THEN o.up
    ELSE IF o.up > 0 /\ (o.down = 0 \/ Gap(o.up, last) <= Gap(o.down, last)) THEN o.up
    ELSE IF o.down > 0 THEN o.down ELSE None

\* Rounded down; 100% when no price is known.
LiquidationDistance(o, last) ==
    LET price == LiquidationPrice(o, last)
    IN IF price = None THEN 1000 ELSE (1000 * Gap(price, last)) \div last

\* Rounded up; at most 1.
FillRatio(o) ==
    LET whole == o.row * o.volume
        filled == AbsoluteValue(o.position)
    IN IF whole = 0 THEN 0
       ELSE IF filled >= whole THEN 1000 ELSE -((-1000 * filled) \div whole)

\* The absolute profit in the quote currency: the percentage that
\* _calculate_pnl computes is dropped.
UnrealizedPnl(profit, fee) == 10 * (profit + fee)

\* _derive_metrics, with what the indicators and the funding rate give.
DeriveMetrics(o, last, profit, fee, vol, funding, adx) ==
    [liq |-> LiquidationDistance(o, last), pnl |-> UnrealizedPnl(profit, fee),
     fill |-> FillRatio(o), vol |-> vol, funding |-> funding, adx |-> adx]

=============================================================================
