--------------------------- MODULE HealthProofs ---------------------------
(* What the classifier and the metrics of an order promise, for every      *)
(* symbol and every value of every metric.                                 *)
EXTENDS RuleProofs

---------------------------------------------------------------------------
(* Division *)

\* Comparing a quotient with an integer is comparing products.
LEMMA QuotientBelow ==
    ASSUME NEW a \in Int, NEW b \in Int, b > 0, NEW c \in Int
    PROVE  a \div b \in Int /\ (a \div b < c <=> a < c * b)
<1> DEFINE q == a \div b
<1>1. q \in Int /\ q * b <= a /\ a < (q + 1) * b
  BY SMTT(30)
<1> HIDE DEF q
<1>2. ASSUME q < c PROVE a < c * b
  <2>1. (q + 1) * b <= c * b
    BY <1>1, <1>2, SMTT(30)
  <2>2. (q + 1) * b \in Int /\ c * b \in Int
    BY <1>1
  <2> QED BY <1>1, <2>1, <2>2
<1>3. ASSUME c <= q PROVE c * b <= a
  <2>1. c * b <= q * b
    BY <1>1, <1>3, SMTT(30)
  <2>2. q * b \in Int /\ c * b \in Int
    BY <1>1
  <2> QED BY <1>1, <2>1, <2>2
<1>4. c * b \in Int
  OBVIOUS
<1>5. a \div b = q
  BY DEF q
<1> QED BY <1>1, <1>2, <1>3, <1>4, <1>5

\* A share of k, rounded down, is between 0 and k.
LEMMA ShareBounded ==
    ASSUME NEW k \in Nat, NEW a \in Int, NEW b \in Int, 0 <= a, a <= b, 0 < b
    PROVE  (k * a) \div b \in 0..k
<1>1. k * a \in Int /\ 0 <= k * a /\ k * a <= k * b /\ k * b \in Int
  BY SMTT(30)
<1>2. (k * a) \div b \in Int /\ ((k * a) \div b < 0 <=> k * a < 0 * b)
  BY <1>1, QuotientBelow
<1>3. (k * a) \div b < k + 1 <=> k * a < (k + 1) * b
  BY <1>1, QuotientBelow
<1>4. (k + 1) * b = k * b + b /\ 0 * b = 0
  BY SMTT(30)
<1> QED BY <1>1, <1>2, <1>3, <1>4

---------------------------------------------------------------------------
(* The limits *)

\* A pair of limits of metric m is the right way round, and has the signs that
\* the scores rely on.
Upright(m, limits) ==
    /\ limits[1] \in Int /\ limits[2] \in Int
    /\ m \in HigherBetter => limits[1] > limits[2]
    /\ m \notin HigherBetter => 0 < limits[1] /\ limits[1] < limits[2]
    /\ m = "liq" => limits[2] > 0 /\ limits[2] <= 1000
    /\ m = "pnl" => limits[2] < 0

LEMMA LimitsUpright == \A sym \in Symbols, m \in Metrics : Upright(m, Limits(sym)[m])
<1> SUFFICES ASSUME NEW sym \in Symbols, NEW m \in Metrics PROVE Upright(m, Limits(sym)[m])
  OBVIOUS
<1>1. CASE sym = "XAUT"
  <2>1. Limits(sym) = [DefaultLimits EXCEPT !.vol = <<25, 50>>, !.liq = <<100, 50>>,
                                        !.pnl = <<-30, -80>>, !.fill = <<600, 850>>]
    BY <1>1 DEF Limits
  <2>2. /\ Limits(sym)["liq"] = <<100, 50>>
        /\ Limits(sym)["pnl"] = <<-30, -80>>
        /\ Limits(sym)["fill"] = <<600, 850>>
        /\ Limits(sym)["vol"] = <<25, 50>>
        /\ Limits(sym)["funding"] = <<150, 300>>
        /\ Limits(sym)["adx"] = <<250, 350>>
    BY <2>1 DEF DefaultLimits
  <2> QED BY <2>2 DEF Metrics, Upright, HigherBetter
<1>2. CASE sym = "XRP"
  <2>1. Limits(sym) = [DefaultLimits EXCEPT !.vol = <<60, 120>>]
    BY <1>2 DEF Limits
  <2>2. /\ Limits(sym)["liq"] = <<150, 75>>
        /\ Limits(sym)["pnl"] = <<-50, -150>>
        /\ Limits(sym)["fill"] = <<700, 900>>
        /\ Limits(sym)["vol"] = <<60, 120>>
        /\ Limits(sym)["funding"] = <<150, 300>>
        /\ Limits(sym)["adx"] = <<250, 350>>
    BY <2>1 DEF DefaultLimits
  <2> QED BY <2>2 DEF Metrics, Upright, HigherBetter
<1>3. CASE sym = "SOL"
  <2>1. Limits(sym) = [DefaultLimits EXCEPT !.vol = <<70, 140>>, !.liq = <<200, 100>>]
    BY <1>3 DEF Limits
  <2>2. /\ Limits(sym)["liq"] = <<200, 100>>
        /\ Limits(sym)["pnl"] = <<-50, -150>>
        /\ Limits(sym)["fill"] = <<700, 900>>
        /\ Limits(sym)["vol"] = <<70, 140>>
        /\ Limits(sym)["funding"] = <<150, 300>>
        /\ Limits(sym)["adx"] = <<250, 350>>
    BY <2>1 DEF DefaultLimits
  <2> QED BY <2>2 DEF Metrics, Upright, HigherBetter
<1>4. CASE sym \in {"BTC", "ETH"}
  <2>1. Limits(sym) = DefaultLimits
    BY <1>4 DEF Limits
  <2> QED BY <2>1 DEF DefaultLimits, Metrics, Upright, HigherBetter
<1> QED BY <1>1, <1>2, <1>3, <1>4 DEF Symbols

---------------------------------------------------------------------------
(* The status *)

\* A worse value of its metric never has a better sub-status.
LEMMA SubStatusMonotone ==
    ASSUME NEW sym \in Symbols, NEW m \in Metrics, NEW x, NEW y,
           Judged(x, m) \in Int, Judged(y, m) \in Int,
           IF m \in HigherBetter THEN Judged(y, m) <= Judged(x, m)
                                 ELSE Judged(x, m) <= Judged(y, m)
    PROVE  SubStatus(sym, x, m) <= SubStatus(sym, y, m)
<1>1. Upright(m, Limits(sym)[m])
  BY LimitsUpright
<1> QED BY <1>1 DEF SubStatus, Within, Upright, Green, Yellow, Red

LEMMA SubStatusTyped ==
    \A sym, x, m : SubStatus(sym, x, m) \in {Green, Yellow, Red}
BY DEF SubStatus

LEMMA MetricInput ==
    ASSUME TypeOK, input.kind = "metrics"
    PROVE  /\ input.s \in Symbols /\ input.x \in [Metrics -> Int]
           /\ input.m \in Metrics /\ input.v \in Int
<1>1. input \in MetricInputs
  BY DEF TypeOK, NoInput, PositioningInputs, ProposalInputs, MarketInputs,
         MetricInputs, OrderInputs
<1> QED BY <1>1, InputsOK DEF MetricInputs

\* When one metric gets worse the status never gets better and no alert goes
\* away, for all metrics and the limits of all symbols.
THEOREM NeverBetter == Spec => []WorseNeverBetter
<1>1. TypeOK => WorseNeverBetter
  <2> SUFFICES ASSUME TypeOK, input.kind = "metrics", NoBetter(input.x, input.m, input.v)
               PROVE  LET worse == [input.x EXCEPT ![input.m] = input.v] IN
                      /\ Status(input.s, input.x) <= Status(input.s, worse)
                      /\ Alerts(input.s, input.x) \subseteq Alerts(input.s, worse)
    BY DEF WorseNeverBetter
  <2> DEFINE s == input.s
             x == input.x
             worse == [x EXCEPT ![input.m] = input.v]
  <2>1. s \in Symbols /\ x \in [Metrics -> Int] /\ input.m \in Metrics /\ input.v \in Int
    BY MetricInput
  <2>2. \A m \in Metrics : worse[m] = IF m = input.m THEN input.v ELSE x[m]
    BY <2>1
  <2> HIDE DEF worse
  <2>3. ASSUME NEW m \in Metrics PROVE SubStatus(s, x, m) <= SubStatus(s, worse, m)
    <3>1. Judged(x, m) \in Int /\ Judged(worse, m) \in Int
      BY <2>1, <2>2 DEF Judged, AbsoluteValue
    <3>2. IF m \in HigherBetter THEN Judged(worse, m) <= Judged(x, m)
                                ELSE Judged(x, m) <= Judged(worse, m)
      BY <2>1, <2>2 DEF Judged, NoBetter, HigherBetter, AbsoluteValue
    <3> QED BY <2>1, <3>1, <3>2, SubStatusMonotone
  <2>4. Status(s, x) <= Status(s, worse)
    BY <2>3, SubStatusTyped DEF Status, Green, Yellow, Red
  <2>5. Alerts(s, x) \subseteq Alerts(s, worse)
    BY <2>3, SubStatusTyped DEF Alerts, Green, Yellow, Red
  <2> QED BY <2>4, <2>5 DEF worse
<1> QED BY <1>1, InputsDrawn, PTL

---------------------------------------------------------------------------
(* The score *)

\* The score of a YELLOW metric is a share of the way between its limits.
LEMMA YellowScoreBounded ==
    ASSUME NEW m, NEW v \in Int, NEW limits, Upright(m, limits),
           Within(m, v, limits[2]), ~Within(m, v, limits[1])
    PROVE  YellowScore(m, v, limits) \in 0..Full
<1>1. limits[1] \in Int /\ limits[2] \in Int /\ Full \in Nat
  BY DEF Upright, Full
<1>2. CASE m \in HigherBetter
  <2> DEFINE a == v - limits[2]
             b == limits[1] - limits[2]
  <2>1. a \in Int /\ b \in Int /\ 0 <= a /\ a <= b /\ 0 < b
    BY <1>1, <1>2 DEF Upright, Within
  <2>2. (Full * a) \div b \in 0..Full
    BY <1>1, <2>1, ShareBounded
  <2> QED BY <1>2, <2>2 DEF YellowScore
<1>3. CASE m \notin HigherBetter
  <2> DEFINE a == v - limits[1]
             b == limits[2] - limits[1]
  <2>1. a \in Int /\ b \in Int /\ 0 <= a /\ a <= b /\ 0 < b
    BY <1>1, <1>3 DEF Upright, Within
  <2>2. (Full * a) \div b \in 0..Full
    BY <1>1, <2>1, ShareBounded
  <2>3. YellowScore(m, v, limits) = Full - (Full * a) \div b
    BY <1>3 DEF YellowScore
  <2> HIDE DEF a, b
  <2> QED BY <1>1, <2>2, <2>3
<1> QED BY <1>2, <1>3

\* That of a RED liquidation distance is a share of the limit.
LEMMA RedLiqBounded ==
    ASSUME NEW l \in Int, NEW v \in Int, 0 < l, v < l
    PROVE  RedScore("liq", v, l) \in Nat /\ RedScore("liq", v, l) <= 3000
<1>1. CASE v < 0
  BY <1>1 DEF RedScore, HigherBetter
<1>2. CASE 0 <= v
  <2>1. 3000 \in Nat /\ v <= l
    OBVIOUS
  <2>2. (3000 * v) \div l \in 0..3000
    BY <1>2, <2>1, ShareBounded
  <2>3. AbsoluteValue(v) = v /\ AbsoluteValue(l) = l
    BY <1>2 DEF AbsoluteValue
  <2>4. RedScore("liq", v, l) = (3000 * v) \div l
    BY <1>2, <2>3 DEF RedScore, HigherBetter
  <2> DEFINE q == (3000 * v) \div l
  <2>5. q \in Nat /\ q <= 3000
    <3> HIDE DEF q
    <3>1. q \in 0..3000
      BY <2>2 DEF q
    <3> QED BY <3>1
  <2>6. RedScore("liq", v, l) = q
    BY <2>4
  <2> HIDE DEF q
  <2> QED BY <2>5, <2>6
<1> QED BY <1>1, <1>2

\* That of a RED metric is at most 3000, but for pnl.
LEMMA RedScoreBounded ==
    ASSUME NEW m \in Metrics, NEW v \in Int, NEW limits, Upright(m, limits),
           ~Within(m, v, limits[2])
    PROVE  /\ RedScore(m, v, limits[2]) \in Nat
           /\ m # "pnl" => RedScore(m, v, limits[2]) <= Full
<1> DEFINE l == limits[2]
<1>1. l \in Int
  BY DEF Upright
<1>2. CASE m \notin HigherBetter
  <2>1. 0 < l /\ l < v
    BY <1>1, <1>2 DEF Upright, Within
  <2> DEFINE q == (3000 * (v - l)) \div l
  <2>2. 3000 * (v - l) \in Int /\ 0 <= 3000 * (v - l) /\ 0 * l = 0
    BY <1>1, <2>1
  <2>3. q \in Int /\ (q < 0 <=> 3000 * (v - l) < 0 * l)
    BY <1>1, <2>1, <2>2, QuotientBelow
  <2>4. RedScore(m, v, l) = AtLeastZero(3000 - q)
    BY <1>2 DEF RedScore
  <2> HIDE DEF q
  <2> QED BY <2>2, <2>3, <2>4 DEF AtLeastZero, Full
<1>3. CASE m = "liq"
  <2>1. 0 < l /\ v < l
    BY <1>1, <1>3 DEF Upright, Within, HigherBetter
  <2>2. RedScore("liq", v, l) \in Nat /\ RedScore("liq", v, l) <= 3000
    BY <1>1, <2>1, RedLiqBounded
  <2> DEFINE r == RedScore(m, v, l)
  <2>3. r \in Nat /\ r <= 3000
    BY <1>3, <2>2
  <2>4. r \in Nat /\ r <= Full
    <3> HIDE DEF r
    <3> QED BY <2>3 DEF Full
  <2> QED BY <2>4
<1>4. CASE m = "pnl"
  <2>1. l < 0
    BY <1>1, <1>4 DEF Upright
  <2> DEFINE a == AbsoluteValue(v)
             b == AbsoluteValue(l)
             q == (3000 * a) \div b
  <2>2. a \in Nat /\ b \in Nat /\ 0 < b
    BY <1>1, <2>1 DEF AbsoluteValue
  <2>3. RedScore(m, v, l) = q
    BY <1>1, <1>4, <2>1 DEF RedScore, HigherBetter
  <2> HIDE DEF a, b
  <2>4. 3000 * a \in Int /\ 0 <= 3000 * a /\ 0 * b = 0
    BY <2>2
  <2>5. q \in Int /\ (q < 0 <=> 3000 * a < 0 * b)
    BY <2>2, <2>4, QuotientBelow
  <2>6. q \in Nat
    BY <2>4, <2>5
  <2> HIDE DEF q
  <2> QED BY <1>4, <2>3, <2>6
<1> QED BY <1>2, <1>3, <1>4 DEF HigherBetter

LEMMA SubScoreBounded ==
    ASSUME NEW sym \in Symbols, NEW m \in Metrics, NEW x, Judged(x, m) \in Int
    PROVE  /\ SubScore(sym, x, m) \in Nat
           /\ m # "pnl" \/ SubStatus(sym, x, m) # Red => SubScore(sym, x, m) <= Full
<1> DEFINE v == Judged(x, m)
           limits == Limits(sym)[m]
<1>1. Upright(m, limits)
  BY LimitsUpright
<1>2. Full \in Nat
  BY DEF Full
<1>3. CASE Within(m, v, limits[1])
  <2>1. SubStatus(sym, x, m) = Green
    BY <1>3 DEF SubStatus
  <2> DEFINE st == SubStatus(sym, x, m)
  <2>2. st = Green /\ st # Yellow
    BY <2>1 DEF Green, Yellow
  <2>3. SubScore(sym, x, m) = CASE st = Green -> Full
                                [] st = Yellow -> YellowScore(m, v, limits)
                                [] OTHER -> RedScore(m, v, limits[2])
    BY Zenon DEF SubScore
  <2> HIDE DEF st
  <2>4. SubScore(sym, x, m) = Full
    BY <2>2, <2>3
  <2> QED BY <1>2, <2>4
<1>4. CASE ~Within(m, v, limits[1]) /\ Within(m, v, limits[2])
  <2>1. SubStatus(sym, x, m) = Yellow /\ Yellow # Green
    BY <1>4 DEF SubStatus, Yellow, Green
  <2>2. SubScore(sym, x, m) = YellowScore(m, v, limits)
    BY <2>1 DEF SubScore
  <2>3. YellowScore(m, v, limits) \in 0..Full
    BY <1>1, <1>4, YellowScoreBounded
  <2> QED BY <1>2, <2>2, <2>3
<1>5. CASE ~Within(m, v, limits[1]) /\ ~Within(m, v, limits[2])
  <2>1. SubStatus(sym, x, m) = Red /\ Red # Green /\ Red # Yellow
    BY <1>5 DEF SubStatus, Yellow, Green, Red
  <2>2. SubScore(sym, x, m) = RedScore(m, v, limits[2])
    BY <2>1 DEF SubScore
  <2> QED BY <1>1, <1>5, <2>1, <2>2, RedScoreBounded
<1> QED BY <1>3, <1>4, <1>5

\* The score is never negative, and at most 1 unless pnl is RED, for all
\* metrics.
THEOREM Bounded == Spec => []ScoreBounded
<1>1. TypeOK => ScoreBounded
  <2> SUFFICES ASSUME TypeOK, input.kind = "metrics" PROVE ScoreBounded
    BY DEF ScoreBounded
  <2> DEFINE s == input.s
             x == input.x
             S(m) == SubScore(s, x, m)
  <2>1. s \in Symbols /\ x \in [Metrics -> Int]
    BY MetricInput
  <2>2. ASSUME NEW m \in Metrics
        PROVE  S(m) \in Nat /\ (m # "pnl" \/ SubStatus(s, x, m) # Red => S(m) <= Full)
    <3>1. Judged(x, m) \in Int
      BY <2>1 DEF Judged, AbsoluteValue
    <3> QED BY <2>1, <3>1, SubScoreBounded
  <2>3. /\ "liq" \in Metrics /\ "pnl" \in Metrics /\ "fill" \in Metrics /\ "vol" \in Metrics
        /\ "funding" \in Metrics /\ "adx" \in Metrics
    BY DEF Metrics
  <2>4. Score(s, x) = (35 * S("liq") + 20 * S("pnl") + 15 * S("fill") + 15 * S("vol")
                       + 10 * S("funding") + 5 * S("adx")) \div 100
    BY DEF Score
  <2> HIDE DEF S
  <2>5. Score(s, x) >= 0
    BY <2>2, <2>3, <2>4
  <2>6. SubStatus(s, x, "pnl") # Red => Score(s, x) <= Full
    BY <2>2, <2>3, <2>4 DEF Full
  <2> QED BY <2>5, <2>6 DEF ScoreBounded
<1> QED BY <1>1, InputsDrawn, PTL

---------------------------------------------------------------------------
(* The liquidation alert *)

\* The alert is raised when the distance is below the YELLOW limit.
LEMMA AlarmIffClose ==
    ASSUME NEW s \in Symbols, NEW x, x["liq"] \in Int
    PROVE  "liq" \in Alerts(s, x) <=> x["liq"] < Limits(s)["liq"][2]
<1> DEFINE limits == Limits(s)["liq"]
<1>1. "liq" \in Metrics /\ "liq" \in HigherBetter /\ "liq" # "adx" /\ "liq" # "funding"
  BY DEF Metrics, HigherBetter
<1>2. limits[1] \in Int /\ limits[2] \in Int /\ limits[1] > limits[2]
  BY <1>1, LimitsUpright DEF Upright
<1>3. "liq" \in Alerts(s, x) <=> SubStatus(s, x, "liq") = Red
  BY <1>1 DEF Alerts
<1>4. Judged(x, "liq") = x["liq"]
  BY <1>1 DEF Judged
<1>5. SubStatus(s, x, "liq") = Red <=> x["liq"] < limits[2]
  <2> DEFINE v == x["liq"]
  <2>1. SubStatus(s, x, "liq") = IF Within("liq", v, limits[1]) THEN Green
                                 ELSE IF Within("liq", v, limits[2]) THEN Yellow ELSE Red
    BY <1>4 DEF SubStatus
  <2>2. \A l \in Int : Within("liq", v, l) <=> v >= l
    BY <1>1 DEF Within
  <2>3. v \in Int
    OBVIOUS
  <2> HIDE DEF v
  <2> QED BY <1>2, <2>1, <2>2, <2>3 DEF Green, Yellow, Red, v
<1> QED BY <1>3, <1>5

LEMMA OrderInput ==
    ASSUME TypeOK, input.kind = "order"
    PROVE  /\ input.s \in Symbols /\ input.o \in Order
           /\ input.last \in Int /\ input.last > 0
<1>1. input \in OrderInputs
  BY DEF TypeOK, NoInput, PositioningInputs, ProposalInputs, MarketInputs,
         MetricInputs, OrderInputs
<1>2. input.s \in Symbols /\ input.o \in Order /\ input.last \in LastPrices
  BY <1>1 DEF OrderInputs
<1>3. \A n \in LastPrices : n \in Int /\ n > 0
  BY InputsOK
<1> QED BY <1>2, <1>3

\* The alert of an order, whatever its side: the distance of the price that
\* LiquidationPrice picks, or 100% when there is none.
THEOREM Seen == Spec => []LiquidationSeen
<1>1. TypeOK => LiquidationSeen
  <2> SUFFICES ASSUME TypeOK, input.kind = "order" PROVE LiquidationSeen
    BY DEF LiquidationSeen
  <2> DEFINE s == input.s
             o == input.o
             last == input.last
             limit == Limits(s)["liq"][2]
             x == DeriveMetrics(o, last, 0, 0, 0, 0, 0)
             picked == LiquidationPrice(o, last)
             alarm == "liq" \in Alerts(s, x)
  <2>1. s \in Symbols /\ o \in Order /\ last \in Int /\ last > 0
    BY OrderInput
  <2>2. o.up \in Int /\ o.up >= 0 /\ o.down \in Int /\ o.down >= 0
        /\ o.trend \in {"LONG", "SHORT", "NEUTRAL"}
    <3>1. o.up \in OrderPrices /\ o.down \in OrderPrices /\ o.trend \in Trends
      BY <2>1 DEF Order
    <3>2. \A n \in OrderPrices : n \in Int /\ n >= 0
      BY InputsOK
    <3> QED BY <3>1, <3>2 DEF Trends
  <2>3. limit \in Int /\ limit <= 1000
    BY <2>1, LimitsUpright DEF Upright, Metrics
  <2>4. None \notin Int
    BY InputsOK
  <2> HIDE DEF limit, o, last, s
  <2>5. x["liq"] = IF picked = None THEN 1000 ELSE (1000 * Gap(picked, last)) \div last
    BY DEF DeriveMetrics, LiquidationDistance
  <2>6. ASSUME NEW p \in Int PROVE Gap(p, last) \in Int
    BY <2>1 DEF Gap, AbsoluteValue
  <2>7. ASSUME NEW p \in Int, p > 0
        PROVE  /\ (1000 * Gap(p, last)) \div last \in Int
               /\ Near(p) <=> (1000 * Gap(p, last)) \div last < limit
    <3>1. 1000 * Gap(p, last) \in Int
      BY <2>6, <2>7
    <3>2. (1000 * Gap(p, last)) \div last \in Int
          /\ ((1000 * Gap(p, last)) \div last < limit <=> 1000 * Gap(p, last) < limit * last)
      BY <2>1, <2>3, <3>1, QuotientBelow
    <3>3. Near(p) <=> 1000 * Gap(p, last) < limit * last
      BY <2>7 DEF Near, limit, last, s
    <3> QED BY <3>2, <3>3
  <2>8. picked = None \/ (picked \in {o.up, o.down} /\ picked > 0)
    BY <2>2, <2>4 DEF LiquidationPrice
  <2>9. \A p \in Int : Near(p) => p > 0
    BY DEF Near
  <2>10. alarm <=> picked # None /\ Near(picked)
    <3> HIDE DEF picked
    <3>1. CASE picked = None
      <4>1. x["liq"] = 1000
        BY <2>5, <3>1
      <4> HIDE DEF x
      <4>2. alarm <=> 1000 < limit
        BY <2>1, <4>1, AlarmIffClose DEF limit
      <4> QED BY <2>3, <3>1, <4>2
    <3>2. CASE picked # None
      <4>1. picked \in Int /\ picked > 0
        BY <2>2, <2>8, <3>2
      <4>2. x["liq"] = (1000 * Gap(picked, last)) \div last
        BY <2>5, <3>2
      <4> HIDE DEF x
      <4>3. alarm <=> x["liq"] < limit
        BY <2>1, <2>7, <4>1, <4>2, AlarmIffClose DEF limit
      <4> QED BY <2>7, <3>2, <4>1, <4>2, <4>3
    <3> QED BY <3>1, <3>2
  <2>11. alarm => Near(o.up) \/ Near(o.down)
    BY <2>8, <2>10
  <2>12. o.trend = "LONG" /\ Near(o.down) => alarm
    <3> SUFFICES ASSUME o.trend = "LONG", Near(o.down) PROVE picked = o.down
      BY <2>2, <2>4, <2>10
    <3> QED BY <2>2, <2>9 DEF LiquidationPrice
  <2>13. o.trend = "SHORT" /\ Near(o.up) => alarm
    <3> SUFFICES ASSUME o.trend = "SHORT", Near(o.up) PROVE picked = o.up
      BY <2>2, <2>4, <2>10
    <3> QED BY <2>2, <2>9 DEF LiquidationPrice
  <2>14. o.trend = "NEUTRAL" /\ (Near(o.up) \/ Near(o.down)) => alarm
    <3> SUFFICES ASSUME o.trend = "NEUTRAL", Near(o.up) \/ Near(o.down)
                 PROVE  picked # None /\ Near(picked)
      BY <2>10
    <3>1. ASSUME NEW p \in Int, NEW q \in Int, p > 0, Near(q), q > 0,
                 Gap(p, last) <= Gap(q, last)
          PROVE  Near(p)
      <4>1. /\ 1000 * Gap(p, last) <= 1000 * Gap(q, last)
            /\ limit * last \in Int
        BY <2>1, <2>3, <2>6, <3>1
      <4>2. 1000 * Gap(q, last) < limit * last
        BY <3>1 DEF Near, limit, last, s
      <4>3. 1000 * Gap(p, last) < limit * last
        BY <2>6, <3>1, <4>1, <4>2
      <4> QED BY <3>1, <4>3 DEF Near, limit, last, s
    <3>2. Gap(o.up, last) \in Int /\ Gap(o.down, last) \in Int
      BY <2>2, <2>6
    <3>3. CASE o.up > 0 /\ (o.down = 0 \/ Gap(o.up, last) <= Gap(o.down, last))
      <4>1. picked = o.up
        BY <3>3 DEF LiquidationPrice
      <4>2. Near(o.down) => Near(o.up)
        BY <2>2, <2>9, <3>1, <3>3
      <4> QED BY <2>2, <2>4, <4>1, <4>2
    <3>4. CASE ~(o.up > 0 /\ (o.down = 0 \/ Gap(o.up, last) <= Gap(o.down, last)))
      <4>1. o.down > 0
        BY <2>2, <2>9, <3>4
      <4>2. picked = o.down
        BY <3>4, <4>1 DEF LiquidationPrice
      <4>3. Near(o.up) => Near(o.down)
        BY <2>2, <2>9, <3>1, <3>2, <3>4, <4>1
      <4> QED BY <2>2, <2>4, <4>2, <4>3
    <3> QED BY <3>3, <3>4
  <2>15. o.trend = input.o.trend /\ o.up = input.o.up /\ o.down = input.o.down
    BY DEF o
  <2> QED BY <2>11, <2>12, <2>13, <2>14, <2>15 DEF LiquidationSeen, o, last, s
<1> QED BY <1>1, InputsDrawn, PTL

===========================================================================
