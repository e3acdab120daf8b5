---------------------------- MODULE RuleProofs ----------------------------
(* What the rules promise, for every market and every bot. *)
EXTENDS RuleCases, TLAPS

\* EvaluateChecks of the positioning rules, with the rules spelled out.
LEMMA PositioningIs ==
    ASSUME NEW f \in Int, NEW oi \in OiHistory(Interests)
    PROVE  /\ Positioning(f, oi) \in GateStatus
           /\ Positioning(f, oi) = Fail <=>
                \/ AbsoluteValue(f) > FundingFail
                \/ Crowded(f, oi) /\ RisesBy(oi, OiFail)
           /\ Positioning(f, oi) = Pass <=>
                /\ AbsoluteValue(f) <= FundingCaution
                /\ ~RisesBy(oi, OiCaution)
<1> DEFINE rules == PositioningChecks(f, oi)
<1>1. Known(oi) /\ rules = SnapshotChecks(f, oi)
  BY InputsOK DEF OiHistory, Known, HasSnapshot, PositioningChecks
<1>2. Fail \in rules <=>
        \/ AbsoluteValue(f) > FundingFail
        \/ Crowded(f, oi) /\ RisesBy(oi, OiFail)
  BY <1>1 DEF Rule, SnapshotChecks, Pass, Caution, Fail
<1>3. Caution \in rules <=>
        \/ FundingCaution < AbsoluteValue(f) /\ AbsoluteValue(f) <= FundingFail
        \/ ~Crowded(f, oi) /\ RisesBy(oi, OiCaution)
  BY <1>1 DEF Rule, SnapshotChecks, Pass, Caution, Fail
<1> QED
  BY <1>2, <1>3 DEF Positioning, EvaluateChecks, GateStatus, Pass, Caution, Fail,
     Crowded, AbsoluteValue, FundingCaution, FundingFail

\* Only well-formed inputs are drawn.
THEOREM InputsDrawn == Spec => []TypeOK
<1>1. Init => TypeOK
  BY DEF Init, TypeOK
<1>2. TypeOK /\ [Next]_input => TypeOK'
  BY DEF TypeOK, Next, Draw, Forget
<1> QED
  BY <1>1, <1>2, PTL DEF Spec

\* Comparing quotients by cross-multiplication is transitive.
LEMMA CrossMultiply ==
    ASSUME NEW a \in Nat, NEW b \in Nat \ {0}, NEW c \in Nat, NEW d \in Nat \ {0},
           NEW p \in Nat, a * d <= c * b, 100 * (a - b) > p * b
    PROVE  100 * (c - d) > p * d
<1>1. 100 * a >= (100 + p) * b + 1
  OBVIOUS
<1>2. (100 * a) * d >= ((100 + p) * b + 1) * d
  <2> DEFINE x == 100 * a
             y == (100 + p) * b + 1
  <2>1. x \in Nat /\ y \in Nat /\ x >= y
    BY <1>1
  <2> HIDE DEF x, y
  <2>2. PICK k \in Nat : x = y + k
    BY <2>1
  <2>3. x * d = y * d + k * d /\ k * d \in Nat /\ y * d \in Nat /\ x * d \in Nat
    BY <2>1, <2>2
  <2>4. x * d >= y * d
    BY <2>3
  <2> QED
    BY <2>4 DEF x, y
<1>3. SUFFICES ASSUME 100 * c <= (100 + p) * d PROVE FALSE
  OBVIOUS
<1>4. (100 * c) * b <= ((100 + p) * d) * b
  <2> DEFINE x == 100 * c
             y == (100 + p) * d
  <2>1. x \in Nat /\ y \in Nat /\ x <= y
    BY <1>3
  <2> HIDE DEF x, y
  <2>2. PICK k \in Nat : y = x + k
    BY <2>1
  <2>3. y * b = x * b + k * b /\ k * b \in Nat /\ y * b \in Nat /\ x * b \in Nat
    BY <2>1, <2>2
  <2>4. x * b <= y * b
    BY <2>3
  <2> QED
    BY <2>4 DEF x, y
<1> QED
  BY <1>2, <1>4

\* A rise beyond p percent is also one of a steeper history.
LEMMA Steeper ==
    ASSUME NEW oi \in OiHistory(Interests), NEW pi \in OiHistory(Interests), NEW p \in Nat,
           RisesNoMore(oi, pi), RisesBy(oi, p)
    PROVE  RisesBy(pi, p)
<1>1. /\ oi.new \in Nat /\ oi.old \in Nat \ {0}
      /\ pi.new \in Nat /\ pi.old \in Nat \ {0}
  BY InputsOK DEF OiHistory
<1>2. oi.new * pi.old <= pi.new * oi.old /\ 100 * (oi.new - oi.old) > p * oi.old
  BY DEF RisesNoMore, RisesBy
<1>3. 100 * (pi.new - pi.old) > p * pi.old
  BY <1>1, <1>2, CrossMultiply
<1> QED
  BY <1>3 DEF RisesBy

\* Gate 2 is monotone: worse funding with a steeper rise of open interest is
\* never judged better, whatever the values.
THEOREM Monotone == Spec => []PositioningMonotone
<1>1. TypeOK => PositioningMonotone
  <2> SUFFICES ASSUME TypeOK, input.kind = "positioning",
                      AbsoluteValue(input.f) <= AbsoluteValue(input.g),
                      RisesNoMore(input.oi, input.pi)
               PROVE  Positioning(input.f, input.oi) <= Positioning(input.g, input.pi)
    BY DEF PositioningMonotone
  <2>1. /\ input.f \in Int /\ input.g \in Int
        /\ input.oi \in OiHistory(Interests) /\ input.pi \in OiHistory(Interests)
    <3>1. input \in PositioningInputs
      BY DEF TypeOK, NoInput, PositioningInputs, ProposalInputs, MarketInputs,
         MetricInputs, OrderInputs
    <3> QED
      BY <3>1, InputsOK DEF PositioningInputs
  <2> DEFINE f == input.f
             g == input.g
             oi == input.oi
             pi == input.pi
  <2>2. /\ RisesBy(oi, 0) => RisesBy(pi, 0)
        /\ RisesBy(oi, OiCaution) => RisesBy(pi, OiCaution)
        /\ RisesBy(oi, OiFail) => RisesBy(pi, OiFail)
    BY <2>1, Steeper DEF OiCaution, OiFail
  <2>3. /\ AbsoluteValue(f) \in Nat
        /\ AbsoluteValue(g) \in Nat
        /\ AbsoluteValue(f) <= AbsoluteValue(g)
    BY <2>1 DEF AbsoluteValue
  <2>4. /\ f \in Int /\ g \in Int
        /\ oi \in OiHistory(Interests) /\ pi \in OiHistory(Interests)
    BY <2>1
  <2> HIDE DEF f, g, oi, pi
  <2>5. /\ Positioning(f, oi) \in GateStatus
        /\ Positioning(f, oi) = Fail <=>
             \/ AbsoluteValue(f) > FundingFail
             \/ Crowded(f, oi) /\ RisesBy(oi, OiFail)
        /\ Positioning(f, oi) = Pass <=>
             /\ AbsoluteValue(f) <= FundingCaution
             /\ ~RisesBy(oi, OiCaution)
    BY <2>4, PositioningIs
  <2>6. /\ Positioning(g, pi) \in GateStatus
        /\ Positioning(g, pi) = Fail <=>
             \/ AbsoluteValue(g) > FundingFail
             \/ Crowded(g, pi) /\ RisesBy(pi, OiFail)
        /\ Positioning(g, pi) = Pass <=>
             /\ AbsoluteValue(g) <= FundingCaution
             /\ ~RisesBy(pi, OiCaution)
    BY <2>4, PositioningIs
  <2>7. Positioning(f, oi) = Fail => Positioning(g, pi) = Fail
    BY <2>2, <2>3, <2>5, <2>6 DEF Crowded, FundingCaution, FundingFail
  <2>8. Positioning(g, pi) = Pass => Positioning(f, oi) = Pass
    BY <2>2, <2>3, <2>5, <2>6 DEF FundingCaution
  <2>9. Positioning(f, oi) <= Positioning(g, pi)
    BY <2>5, <2>6, <2>7, <2>8 DEF GateStatus, Pass, Caution, Fail
  <2> QED
    BY <2>9 DEF f, g, oi, pi
<1> QED
  BY <1>1, InputsDrawn, PTL

---------------------------------------------------------------------------
(* The proposal and gate 3 *)

\* What a proposal is made of: the builder's stops, by trend.
BuiltFor(s, p) ==
    /\ p.sym = s /\ p.leverage = 1 /\ p.trend \in Trends
    /\ p.top \in Nat /\ p.bottom \in Nat /\ p.last \in Nat
    /\ p.bottom < p.top /\ p.bottom <= p.last /\ p.last <= p.top
    /\ p.trend = "NEUTRAL" => p.sl = None /\ p.tp = None
    /\ p.trend = "LONG" =>
         /\ p.sl \in Int /\ p.tp \in Int /\ p.tp > p.top
         /\ MinDistance(s) * p.last <= 1000 * (p.last - p.sl)
         /\ 1000 * (p.last - p.sl) <= MaxDistance * p.last
    /\ p.trend = "SHORT" =>
         /\ p.sl \in Int /\ p.tp \in Int /\ p.tp < p.bottom
         /\ MinDistance(s) * p.last <= 1000 * (p.sl - p.last)
         /\ 1000 * (p.sl - p.last) <= MaxDistance * p.last

\* The builder makes such a proposal from any indicators.
LEMMA Built ==
    ASSUME NEW s \in Symbols, NEW adxs, NEW vols, NEW i \in IndicatorSets(Prices, adxs, vols)
    PROVE  BuiltFor(s, BuildProposal(s, i))
<1> DEFINE p == BuildProposal(s, i)
<1>1. /\ i.price \in Nat /\ i.high \in Nat /\ i.low \in Nat
      /\ i.atr \in Nat /\ i.atr > 0
      /\ i.low <= i.price /\ i.price <= i.high /\ i.low < i.high
  <2>1. /\ i.price \in Prices /\ i.high \in Prices /\ i.low \in Prices /\ i.atr \in Atrs
        /\ i.low <= i.price /\ i.price <= i.high /\ i.low < i.high
    BY DEF IndicatorSets
  <2>2. /\ \A x \in Prices : x \in Nat
        /\ \A x \in Atrs : x \in Nat /\ x > 0
    BY InputsOK
  <2> QED
    BY <2>1, <2>2
<1>2. MinDistance(s) \in {5, 10} /\ StopBuffer(s) \in {1500, 2000, 2500}
  BY DEF MinDistance, StopBuffer, Symbols
<1>3. /\ p.sym = s /\ p.leverage = 1 /\ p.trend = DetermineTrend(i)
      /\ p.top = 1000 * i.high /\ p.bottom = 1000 * i.low /\ p.last = 1000 * i.price
      /\ p.sl = StopLoss(s, i) /\ p.tp = TakeProfit(i)
  BY DEF BuildProposal
<1>4. DetermineTrend(i) \in Trends
  BY DEF DetermineTrend, Trends
<1>5. \A d \in Int : LET e == Distance(d, s, i.price) IN
        /\ e \in Int
        /\ MinDistance(s) * i.price <= e
        /\ e <= 300 * i.price
  BY <1>1, <1>2 DEF Distance, MaxDistance
<1>6. CASE DetermineTrend(i) = "NEUTRAL"
  <2>1. p.sl = None /\ p.tp = None
    BY <1>3, <1>6 DEF StopLoss, TakeProfit
  <2> QED
    BY <1>1, <1>3, <1>6, <2>1 DEF BuiltFor, Trends
<1>7. CASE DetermineTrend(i) = "LONG"
  <2> DEFINE d == 1000 * i.price - (1000 * i.low - StopBuffer(s) * i.atr)
             e == Distance(d, s, i.price)
  <2>1. p.sl = 1000 * i.price - e /\ p.tp = 1000 * i.high + 3000 * i.atr
    BY <1>3, <1>7 DEF StopLoss, TakeProfit, TakeBuffer
  <2>2. d \in Int
    BY <1>1, <1>2
  <2>3. e \in Int /\ MinDistance(s) * i.price <= e /\ e <= 300 * i.price
    BY <1>5, <2>2
  <2> HIDE DEF d, e, p
  <2>4. BuiltFor(s, p)
    BY <1>1, <1>2, <1>3, <1>4, <1>7, <2>1, <2>3 DEF MaxDistance, BuiltFor
  <2> QED
    BY <2>4 DEF p
<1>8. CASE DetermineTrend(i) = "SHORT"
  <2> DEFINE d == (1000 * i.high + StopBuffer(s) * i.atr) - 1000 * i.price
             e == Distance(d, s, i.price)
  <2>1. p.sl = 1000 * i.price + e /\ p.tp = 1000 * i.low - 3000 * i.atr
    BY <1>3, <1>8 DEF StopLoss, TakeProfit, TakeBuffer
  <2>2. d \in Int
    BY <1>1, <1>2
  <2>3. e \in Int /\ MinDistance(s) * i.price <= e /\ e <= 300 * i.price
    BY <1>5, <2>2
  <2> HIDE DEF d, e, p
  <2>4. BuiltFor(s, p)
    BY <1>1, <1>2, <1>3, <1>4, <1>8, <2>1, <2>3 DEF MaxDistance, BuiltFor
  <2> QED
    BY <2>4 DEF p
<1> QED
  BY <1>4, <1>6, <1>7, <1>8 DEF Trends

\* The proposal of an input is a built one.
LEMMA ProposalInput ==
    ASSUME TypeOK, input.kind = "proposal"
    PROVE  /\ input.s \in Symbols
           /\ input.i \in IndicatorSets(Prices, {0}, {<<0, 0, 0>>})
           /\ input.e \in LiquidationPrices(Estimates)
<1>1. input \in ProposalInputs
  BY DEF TypeOK, NoInput, PositioningInputs, ProposalInputs, MarketInputs,
         MetricInputs, OrderInputs
<1> QED
  BY <1>1 DEF ProposalInputs

\* Every proposal the builder makes brackets the price between its stops,
\* for every market.
THEOREM Bracketed == Spec => []StopsBracketPrice
<1>1. TypeOK => StopsBracketPrice
  <2> SUFFICES ASSUME TypeOK, input.kind = "proposal"
               PROVE  StopsBracketPrice
    BY DEF StopsBracketPrice
  <2>1. input.s \in Symbols /\ input.i \in IndicatorSets(Prices, {0}, {<<0, 0, 0>>})
    BY ProposalInput
  <2> DEFINE p == BuildProposal(input.s, input.i)
  <2>2. BuiltFor(input.s, p)
    BY <2>1, Built
  <2>3. Proposal = p
    BY DEF Proposal
  <2> HIDE DEF p
  <2>4. CASE p.trend = "NEUTRAL"
    BY <2>2, <2>3, <2>4 DEF BuiltFor, StopsBracketPrice
  <2>5. CASE p.trend = "LONG"
    BY <2>2, <2>3, <2>5 DEF BuiltFor, StopsBracketPrice
  <2>6. CASE p.trend = "SHORT"
    BY <2>2, <2>3, <2>6 DEF BuiltFor, StopsBracketPrice
  <2> QED
    BY <2>2, <2>4, <2>5, <2>6 DEF BuiltFor, Trends
<1> QED
  BY <1>1, InputsDrawn, PTL

\* The estimates of the exchange: integers or None.
LEMMA Estimated ==
    ASSUME NEW e \in LiquidationPrices(Estimates)
    PROVE  /\ e.up = None \/ e.up \in Nat
           /\ e.down = None \/ e.down \in Nat
           /\ HasBuffer(e.up) => e.up \in Nat
           /\ HasBuffer(e.down) => e.down \in Nat
BY InputsOK DEF LiquidationPrices, HasBuffer

\* Gate 3 of a built LONG grid.
LEMMA LongGate ==
    ASSUME NEW s \in Symbols, NEW p, BuiltFor(s, p), p.trend = "LONG",
           NEW e \in LiquidationPrices(Estimates)
    PROVE  /\ LiquidationSafety(p, e) # Caution
           /\ LiquidationSafety(p, e) # Fail => HasBuffer(e.down) /\ e.down < p.sl
<1>1. /\ p.sl \in Int /\ p.tp \in Int /\ p.tp > p.top /\ p.top \in Nat /\ p.last \in Nat
      /\ MinDistance(s) * p.last <= 1000 * (p.last - p.sl)
      /\ p.sym = s /\ p.leverage = 1
  BY DEF BuiltFor
<1>2. MinDistance(s) \in Nat
  BY DEF MinDistance
<1>3. ~TooClose(p.last - p.sl, p) /\ ~(p.tp < p.top)
  <2> DEFINE m == MinDistance(s) * p.last
  <2>1. m \in Nat
    BY <1>1, <1>2
  <2>2. m <= 1000 * (p.last - p.sl)
    BY <1>1
  <2>3. TooClose(p.last - p.sl, p) <=> 1000 * (p.last - p.sl) < m
    BY <1>1 DEF TooClose
  <2> HIDE DEF m
  <2> QED
    BY <1>1, <2>1, <2>2, <2>3
<1>4. HasStops(p)
  BY <1>1, InputsOK DEF HasStops
<1>5. LiquidationChecks(p, e) = Rule(p.leverage > LeverageCap, Fail) \cup LongChecks(p, e)
  BY DEF LiquidationChecks
<1>6. Caution \notin LiquidationChecks(p, e)
  BY <1>3, <1>5 DEF LongChecks, Rule, Caution, Fail
<1>7. Fail \notin LiquidationChecks(p, e) => HasBuffer(e.down) /\ ~(p.sl <= e.down)
  <2> SUFFICES ASSUME Fail \notin LiquidationChecks(p, e)
               PROVE  HasBuffer(e.down) /\ ~(p.sl <= e.down)
    OBVIOUS
  <2>1. HasBuffer(e.down)
    BY <1>5 DEF LongChecks, Rule
  <2>2. e.down # None
    BY <2>1 DEF HasBuffer
  <2> QED
    BY <1>4, <1>5, <2>1, <2>2 DEF LongChecks, Rule
<1>8. HasBuffer(e.down) /\ ~(p.sl <= e.down) => e.down < p.sl
  BY <1>1, Estimated
<1> QED
  BY <1>6, <1>7, <1>8 DEF LiquidationSafety, EvaluateChecks, Pass, Caution, Fail

\* Gate 3 of a built SHORT grid.
LEMMA ShortGate ==
    ASSUME NEW s \in Symbols, NEW p, BuiltFor(s, p), p.trend = "SHORT",
           NEW e \in LiquidationPrices(Estimates)
    PROVE  /\ LiquidationSafety(p, e) # Caution
           /\ LiquidationSafety(p, e) # Fail => HasBuffer(e.up) /\ p.sl < e.up
<1>1. /\ p.sl \in Int /\ p.tp \in Int /\ p.tp < p.bottom /\ p.bottom \in Nat /\ p.last \in Nat
      /\ MinDistance(s) * p.last <= 1000 * (p.sl - p.last)
      /\ p.sym = s /\ p.leverage = 1
  BY DEF BuiltFor
<1>2. MinDistance(s) \in Nat
  BY DEF MinDistance
<1>3. ~TooClose(p.sl - p.last, p) /\ ~(p.tp > p.bottom)
  <2> DEFINE m == MinDistance(s) * p.last
  <2>1. m \in Nat
    BY <1>1, <1>2
  <2>2. m <= 1000 * (p.sl - p.last)
    BY <1>1
  <2>3. TooClose(p.sl - p.last, p) <=> 1000 * (p.sl - p.last) < m
    BY <1>1 DEF TooClose
  <2> HIDE DEF m
  <2> QED
    BY <1>1, <2>1, <2>2, <2>3
<1>4. HasStops(p)
  BY <1>1, InputsOK DEF HasStops
<1>5. LiquidationChecks(p, e) = Rule(p.leverage > LeverageCap, Fail) \cup ShortChecks(p, e)
  BY DEF LiquidationChecks
<1>6. Caution \notin LiquidationChecks(p, e)
  BY <1>3, <1>5 DEF ShortChecks, Rule, Caution, Fail
<1>7. Fail \notin LiquidationChecks(p, e) => HasBuffer(e.up) /\ ~(p.sl >= e.up)
  <2> SUFFICES ASSUME Fail \notin LiquidationChecks(p, e)
               PROVE  HasBuffer(e.up) /\ ~(p.sl >= e.up)
    OBVIOUS
  <2>1. HasBuffer(e.up)
    BY <1>5 DEF ShortChecks, Rule
  <2>2. e.up # None
    BY <2>1 DEF HasBuffer
  <2> QED
    BY <1>4, <1>5, <2>1, <2>2 DEF ShortChecks, Rule
<1>8. HasBuffer(e.up) /\ ~(p.sl >= e.up) => p.sl < e.up
  BY <1>1, Estimated
<1> QED
  BY <1>6, <1>7, <1>8 DEF LiquidationSafety, EvaluateChecks, Pass, Caution, Fail

\* Gate 3 of a built NEUTRAL grid.
LEMMA NeutralGate ==
    ASSUME NEW s \in Symbols, NEW p, BuiltFor(s, p), p.trend = "NEUTRAL",
           NEW e \in LiquidationPrices(Estimates)
    PROVE  /\ LiquidationSafety(p, e) # Caution
           /\ LiquidationSafety(p, e) # Fail =>
                /\ HasBuffer(e.up) \/ HasBuffer(e.down)
                /\ HasBuffer(e.up) => Covered(e.up - p.top, p)
                /\ HasBuffer(e.down) => Covered(p.bottom - e.down, p)
<1>1. p.top \in Nat /\ p.bottom \in Nat /\ p.leverage = 1
  BY DEF BuiltFor
<1>2. LiquidationChecks(p, e) = Rule(p.leverage > LeverageCap, Fail) \cup NeutralChecks(p, e)
  BY DEF LiquidationChecks
<1>3. Caution \notin LiquidationChecks(p, e)
  BY <1>1, <1>2 DEF NeutralChecks, Rule, Caution, Fail
<1>4. Fail \notin LiquidationChecks(p, e) =>
        /\ HasBuffer(e.up) \/ HasBuffer(e.down)
        /\ HasBuffer(e.up) => ~TooThin(e.up - p.top, p)
        /\ HasBuffer(e.down) => ~TooThin(p.bottom - e.down, p)
  BY <1>2 DEF NeutralChecks, Rule
<1>5. /\ HasBuffer(e.up) /\ ~TooThin(e.up - p.top, p) => Covered(e.up - p.top, p)
      /\ HasBuffer(e.down) /\ ~TooThin(p.bottom - e.down, p) => Covered(p.bottom - e.down, p)
  BY <1>1, Estimated DEF TooThin, Covered
<1> QED
  BY <1>3, <1>4, <1>5 DEF LiquidationSafety, EvaluateChecks, Pass, Caution, Fail

\* Gate 3 never answers CAUTION for a proposal of the builder.
THEOREM NeverCautions == Spec => []BuiltNeverCautions
<1>1. TypeOK => BuiltNeverCautions
  <2> SUFFICES ASSUME TypeOK, input.kind = "proposal"
               PROVE  LiquidationSafety(Proposal, input.e) # Caution
    BY DEF BuiltNeverCautions
  <2>1. BuiltFor(input.s, Proposal)
    BY ProposalInput, Built DEF Proposal
  <2>2. Proposal.trend \in Trends
    BY <2>1 DEF BuiltFor
  <2> QED
    BY <2>1, <2>2, ProposalInput, LongGate, ShortGate, NeutralGate DEF Trends
<1> QED
  BY <1>1, InputsDrawn, PTL

\* A proposal that gate 3 lets through is safe from liquidation, for every
\* market and every estimate of the exchange.
THEOREM Safe == Spec => []LiquidationSafe
<1>1. TypeOK => LiquidationSafe
  <2> SUFFICES ASSUME TypeOK, input.kind = "proposal"
               PROVE  LiquidationSafe
    BY DEF LiquidationSafe
  <2>1. BuiltFor(input.s, Proposal)
    BY ProposalInput, Built DEF Proposal
  <2>2. input.s \in Symbols /\ input.e \in LiquidationPrices(Estimates)
    BY ProposalInput
  <2>3. Proposal.trend \in Trends
    BY <2>1 DEF BuiltFor
  <2>4. CASE Proposal.trend = "LONG"
    BY <2>1, <2>2, <2>4, LongGate DEF LiquidationSafe
  <2>5. CASE Proposal.trend = "SHORT"
    BY <2>1, <2>2, <2>5, ShortGate DEF LiquidationSafe
  <2>6. CASE Proposal.trend = "NEUTRAL"
    BY <2>1, <2>2, <2>6, NeutralGate DEF LiquidationSafe
  <2> QED
    BY <2>3, <2>4, <2>5, <2>6 DEF Trends
<1> QED
  BY <1>1, InputsDrawn, PTL

---------------------------------------------------------------------------
(* The verdict *)

\* What an offer says of the three statuses.
LEMMA OfferIs ==
    ASSUME NEW g1 \in GateStatus, NEW g2 \in GateStatus, NEW g3 \in GateStatus,
           NEW h \in BOOLEAN, Offered(GatesRun(g1, g2, g3), h)
    PROVE  g1 = Pass /\ g3 = Pass /\ (g2 = Pass \/ h)
<1> DEFINE gates == GatesRun(g1, g2, g3)
<1>1. g1 # Fail
  <2> SUFFICES ASSUME g1 = Fail PROVE FALSE
    OBVIOUS
  <2>1. gates = <<g1>> /\ 1 \in DOMAIN gates /\ gates[1] = Fail
    BY DEF GatesRun
  <2>2. Resolve(gates) = "hold"
    BY <2>1 DEF Resolve
  <2> QED
    BY <2>2 DEF Offered, LaunchableDespiteReview
<1>2. gates = <<g1, g2, g3>>
  BY <1>1 DEF GatesRun
<1>3. DOMAIN gates = {1, 2, 3} /\ gates[1] = g1 /\ gates[2] = g2 /\ gates[3] = g3
  BY <1>2
<1> HIDE DEF gates
<1>4. Resolve(gates) # "hold"
  BY DEF Offered, LaunchableDespiteReview, gates
<1>5. g1 # Fail /\ g2 # Fail /\ g3 # Fail
  BY <1>3, <1>4 DEF Resolve
<1>6. CASE Resolve(gates) = "launch"
  BY <1>3, <1>5, <1>6 DEF Resolve, GateStatus, Pass, Caution, Fail
<1>7. CASE LaunchableDespiteReview(gates, h)
  <2>1. h /\ g1 # Caution /\ g3 # Caution
    BY <1>3, <1>7 DEF LaunchableDespiteReview
  <2> QED
    BY <1>5, <2>1 DEF GateStatus, Pass, Caution, Fail
<1> QED
  BY <1>6, <1>7 DEF Offered, gates

\* And the other way round.
LEMMA IsOffer ==
    ASSUME NEW h \in BOOLEAN, NEW g2 \in {Pass, Caution}, g2 = Caution => h
    PROVE  Offered(GatesRun(Pass, g2, Pass), h)
<1> DEFINE gates == <<Pass, g2, Pass>>
<1>1. GatesRun(Pass, g2, Pass) = gates
  BY DEF GatesRun, Pass, Fail
<1>2. DOMAIN gates = {1, 2, 3} /\ gates[1] = Pass /\ gates[2] = g2 /\ gates[3] = Pass
  OBVIOUS
<1> HIDE DEF gates
<1>3. Pass # Caution /\ Pass # Fail /\ Caution # Fail
  BY DEF Pass, Caution, Fail
<1>4. CASE g2 = Pass
  <2>1. Resolve(gates) = "launch"
    BY <1>2, <1>3, <1>4 DEF Resolve
  <2> QED
    BY <1>1, <2>1 DEF Offered
<1>5. CASE g2 = Caution
  <2>1. Resolve(gates) = "review"
    BY <1>2, <1>3, <1>5 DEF Resolve
  <2>2. {g \in DOMAIN gates : gates[g] = Caution} = {2}
    BY <1>2, <1>3, <1>5
  <2> QED
    BY <1>1, <1>5, <2>1, <2>2 DEF Offered, LaunchableDespiteReview
<1> QED
  BY <1>4, <1>5

\* What is drawn with a market.
LEMMA MarketInput ==
    ASSUME TypeOK, input.kind = "market"
    PROVE  /\ input.s \in Symbols
           /\ input.i \in IndicatorSets(Prices, Adxs, Vols)
           /\ input.e \in LiquidationPrices(Estimates)
           /\ input.f \in Int \cup {None}
           /\ HasSnapshot(input.f) => input.f \in Int
           /\ input.i.adx \in Int /\ input.i.high \in Int /\ input.i.low \in Int
           /\ input.i.atr \in Int
<1>1. input \in MarketInputs
  BY DEF TypeOK, NoInput, PositioningInputs, ProposalInputs, MarketInputs,
     MetricInputs, OrderInputs
<1>2. /\ input.s \in Symbols
      /\ input.i \in IndicatorSets(FewPrices, Adxs, Vols)
      /\ input.e \in LiquidationPrices(FewEstimates)
      /\ input.f \in FewFundings \cup {None}
  BY <1>1 DEF MarketInputs
<1>3. input.i \in IndicatorSets(Prices, Adxs, Vols)
  BY <1>2, InputsOK DEF IndicatorSets
<1>4. /\ input.i.adx \in Adxs /\ input.i.high \in Prices
      /\ input.i.low \in Prices /\ input.i.atr \in Atrs
  BY <1>3 DEF IndicatorSets
<1>5. /\ \A x \in Prices : x \in Int
      /\ \A x \in Atrs : x \in Int
      /\ \A x \in Adxs : x \in Int
      /\ \A x \in FewFundings : x \in Int
  BY InputsOK
<1>6. input.e \in LiquidationPrices(Estimates)
  BY <1>2, InputsOK DEF LiquidationPrices
<1> QED
  BY <1>2, <1>3, <1>4, <1>5, <1>6 DEF HasSnapshot

\* Its gate 3 is PASS or FAIL, as that of every built grid.
LEMMA MarketGate3 ==
    ASSUME TypeOK, input.kind = "market"
    PROVE  LiquidationSafety(Proposal, input.e) \in {Pass, Fail}
<1>1. BuiltFor(input.s, Proposal)
  BY MarketInput, Built DEF Proposal
<1>2. Proposal.trend \in Trends
  BY <1>1 DEF BuiltFor
<1>3. LiquidationSafety(Proposal, input.e) # Caution
  BY <1>1, <1>2, MarketInput, LongGate, ShortGate, NeutralGate DEF Trends
<1> QED
  BY <1>3 DEF LiquidationSafety, EvaluateChecks

\* A launch is offered on calm readings only, whatever the market.
LEMMA OfferedOnlyInCalm ==
    ASSUME TypeOK, input.kind = "market", OfferMade
    PROVE  CalmInput
<1> DEFINE g1 == Regime(input.i)
           g2 == Positioning(input.f, input.oi)
           g3 == LiquidationSafety(Proposal, input.e)
           h == OnlyHistoryMissing(input.f, input.oi)
<1>1. g1 \in GateStatus /\ g2 \in GateStatus /\ g3 \in GateStatus
  BY DEF Regime, Positioning, LiquidationSafety, EvaluateChecks, GateStatus, Pass, Caution, Fail
<1>2. h \in BOOLEAN
  BY DEF OnlyHistoryMissing
<1>3. Offered(GatesRun(g1, g2, g3), h)
  BY DEF OfferMade, Gates3
<1>4. g1 = Pass /\ g3 = Pass /\ (g2 = Pass \/ h)
  <2> HIDE DEF g1, g2, g3, h
  <2> QED
    BY <1>1, <1>2, <1>3, OfferIs
<1>5. Fail \notin RegimeChecks(input.i) /\ Caution \notin RegimeChecks(input.i)
  BY <1>4 DEF Regime, EvaluateChecks, Pass, Caution, Fail
<1>6. /\ ~(input.i.adx > 30)
      /\ ~(25 < input.i.adx /\ input.i.adx <= 30)
      /\ ~(input.i.high - input.i.low < 3 * input.i.atr)
      /\ ~(/\ 100 * input.i.vol[2] > 105 * input.i.vol[1]
           /\ 100 * input.i.vol[3] > 105 * input.i.vol[2])
  BY <1>5 DEF RegimeChecks, Rule
<1>7. input.i.adx <= 25 /\ input.i.high - input.i.low >= 3 * input.i.atr
  BY <1>6, MarketInput
<1>8. HasSnapshot(input.f) => CalmPositioning(input.f, input.oi)
  <2> SUFFICES ASSUME HasSnapshot(input.f)
               PROVE  CalmPositioning(input.f, input.oi)
    OBVIOUS
  <2>1. CASE h
    BY <2>1 DEF OnlyHistoryMissing, CalmPositioning
  <2>2. CASE g2 = Pass
    <3>1. /\ Fail \notin SnapshotChecks(input.f, input.oi)
          /\ Caution \notin SnapshotChecks(input.f, input.oi)
      BY <2>2 DEF Positioning, PositioningChecks, EvaluateChecks, Pass, Caution, Fail
    <3>2. /\ ~(AbsoluteValue(input.f) > FundingFail)
          /\ ~(/\ FundingCaution < AbsoluteValue(input.f)
               /\ AbsoluteValue(input.f) <= FundingFail)
          /\ ~(/\ Known(input.oi) /\ ~Crowded(input.f, input.oi)
               /\ RisesBy(input.oi, OiCaution))
      BY <3>1 DEF SnapshotChecks, Rule
    <3>3. AbsoluteValue(input.f) <= FundingCaution
      BY <3>2, MarketInput DEF AbsoluteValue, FundingCaution, FundingFail
    <3>4. ~Crowded(input.f, input.oi)
      BY <3>3, MarketInput DEF Crowded, AbsoluteValue, FundingCaution
    <3> QED
      BY <3>2, <3>3, <3>4 DEF CalmPositioning
  <2> QED
    BY <1>4, <2>1, <2>2
<1>9. LiquidationSafety(Proposal, input.e) # Fail
  BY <1>4 DEF Pass, Fail
<1> QED
  BY <1>6, <1>7, <1>8, <1>9 DEF CalmInput, CalmRegime

\* And on all of them.
LEMMA CalmIsOffered ==
    ASSUME TypeOK, input.kind = "market", CalmInput
    PROVE  OfferMade
<1> DEFINE g1 == Regime(input.i)
           g2 == Positioning(input.f, input.oi)
           g3 == LiquidationSafety(Proposal, input.e)
           h == OnlyHistoryMissing(input.f, input.oi)
<1>1. /\ CalmRegime(input.i)
      /\ HasSnapshot(input.f) => CalmPositioning(input.f, input.oi)
      /\ input.i.low <= input.i.price /\ input.i.price <= input.i.high
  BY MarketInput DEF CalmInput, IndicatorSets
<1>2. g1 = Pass
  <2>1. RegimeChecks(input.i) = {}
    BY <1>1, MarketInput DEF CalmRegime, RegimeChecks, Rule
  <2> QED
    BY <2>1 DEF Regime, EvaluateChecks
<1>3. g3 = Pass
  BY MarketGate3 DEF CalmInput
<1>4. g2 \in {Pass, Caution} /\ (g2 = Caution => h)
  <2>1. CASE ~HasSnapshot(input.f)
    <3>1. PositioningChecks(input.f, input.oi) = {Caution} /\ h
      BY <2>1 DEF PositioningChecks, Rule, OnlyHistoryMissing
    <3> QED
      BY <3>1 DEF Positioning, EvaluateChecks, Pass, Caution, Fail
  <2>2. CASE HasSnapshot(input.f)
    <3>1. /\ AbsoluteValue(input.f) \in Int /\ AbsoluteValue(input.f) <= FundingCaution
          /\ ~Crowded(input.f, input.oi)
      BY <1>1, <2>2, MarketInput DEF CalmPositioning, Crowded, AbsoluteValue, FundingCaution
    <3>2. PositioningChecks(input.f, input.oi) = Rule(~Known(input.oi), Caution)
      BY <1>1, <2>2, <3>1 DEF CalmPositioning, PositioningChecks, SnapshotChecks, Rule,
         FundingCaution, FundingFail
    <3>3. g2 = IF Known(input.oi) THEN Pass ELSE Caution
      BY <3>2 DEF Positioning, EvaluateChecks, Rule, Pass, Caution, Fail
    <3> QED
      BY <3>1, <3>3 DEF OnlyHistoryMissing, Pass, Caution
  <2> QED
    BY <2>1, <2>2
<1>5. h \in BOOLEAN
  BY DEF OnlyHistoryMissing
<1>6. OfferMade <=> Offered(GatesRun(g1, g2, g3), h)
  BY DEF OfferMade, Gates3
<1> HIDE DEF g1, g2, g3, h
<1> QED
  BY <1>2, <1>3, <1>4, <1>5, <1>6, IsOffer

\* The three gates and the exception for a missing history offer a launch on
\* all calm readings and on no others, with a snapshot or without one, for all
\* values of the indicators.
THEOREM Calm == Spec => []OfferedOnCalmReadings
<1>1. TypeOK => OfferedOnCalmReadings
  BY OfferedOnlyInCalm, CalmIsOffered DEF OfferedOnCalmReadings
<1> QED
  BY <1>1, InputsDrawn, PTL

============================================================================
