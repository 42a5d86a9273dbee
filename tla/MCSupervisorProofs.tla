------------------------- MODULE MCSupervisorProofs -------------------------
(***************************************************************************)
(* What MCSupervisor checks on its grid of worlds, proved for any          *)
(* requests, columns, forecasts, faults, sentiments and probabilities: the *)
(* specialists reduce a world to the arguments of synthesise, or to        *)
(* nothing when a source is lost, and SupervisorProofs does the rest.      *)
(***************************************************************************)
EXTENDS MCSupervisor, SupervisorProofs, SumLemmas

-----------------------------------------------------------------------------
\* A well-formed answer has three arrays of the same positive length.
LEMMA WellFormedArrays ==
  ASSUME NEW x \in EndpointAnswer, WellFormed(x)
  PROVE  /\ x["p10"] \in Seq(Int) /\ x["p50"] \in Seq(Int) /\ x["p90"] \in Seq(Int)
         /\ Len(x["p10"]) = Len(x["p50"]) /\ Len(x["p90"]) = Len(x["p50"])
BY DEF EndpointAnswer, WellFormed, Quantile, Opt

\* What the demand agent returns satisfies its contract, whatever it was sent
\* (parse_chronos_response under the validators of QuantileForecastResult).
THEOREM ForecastType ==
  ASSUME NEW x \in Opt(EndpointAnswer)
  PROVE  chronos_forecast(x) \in Opt(QuantileForecast)
<1> SUFFICES ASSUME x # NoValue, WellFormed(x), Ordered(x)
             PROVE  parse_chronos_response(x) \in QuantileForecast
  BY DEF chronos_forecast, parse_chronos_response, Opt
<1>1. x["p10"] \in Seq(Int) /\ x["p50"] \in Seq(Int) /\ x["p90"] \in Seq(Int)
  BY WellFormedArrays DEF Opt
<1> DEFINE low == Total(x["p10"])
           mid == Total(x["p50"])
           high == Total(x["p90"])
<1>2. low \in Int /\ mid \in Int /\ high \in Int
  BY <1>1, TotalType
<1>3. low <= mid /\ mid <= high
  BY DEF Ordered
<1>4. parse_chronos_response(x) = [p50 |-> mid, interval_width |-> high - low]
  BY DEF parse_chronos_response
<1> HIDE DEF low, mid, high
<1>5. high - low \in Nat
  BY <1>2, <1>3
<1> QED
  BY <1>2, <1>4, <1>5 DEF QuantileForecast

\* The answer to a request for twice the horizon, the second half like the
\* first.
Twice(x) ==
  [q \in Quantile |-> IF x[q] = NoValue THEN NoValue ELSE x[q] \o x[q]]

\* It is parsed to the double of the forecast, or raises where that one does:
\* for any number of steps and any values (parse_chronos_response).
THEOREM TwiceIsParsed ==
  ASSUME NEW x \in EndpointAnswer
  PROVE  parse_chronos_response(Twice(x)) =
           IF parse_chronos_response(x) = NoValue THEN NoValue
           ELSE [ p50 |-> 2 * parse_chronos_response(x).p50,
                  interval_width |-> 2 * parse_chronos_response(x).interval_width ]
<1> DEFINE y == Twice(x)
<1>1. ASSUME NEW q \in Quantile
      PROVE  /\ x[q] = NoValue => y[q] = NoValue
             /\ x[q] # NoValue => /\ x[q] \in Seq(Int) /\ y[q] = x[q] \o x[q]
                                  /\ y[q] \in Seq(Int) /\ y[q] # NoValue
                                  /\ Len(y[q]) = 2 * Len(x[q])
                                  /\ Total(y[q]) = 2 * Total(x[q])
  <2>1. CASE x[q] = NoValue
    BY <2>1 DEF Twice
  <2>2. CASE x[q] # NoValue
    <3>1. x[q] \in Seq(Int) /\ y[q] = x[q] \o x[q]
      BY <2>2 DEF Twice, EndpointAnswer, Opt
    <3>2. y[q] \in Seq(Int) /\ Len(y[q]) = 2 * Len(x[q])
      BY <3>1
    <3>3. y[q] # NoValue
      BY <3>2, AnswerAssumption
    <3>4. Total(y[q]) = Total(x[q]) + Total(x[q]) /\ Total(x[q]) \in Int
      BY <3>1, TotalConcat, TotalType
    <3> HIDE DEF y
    <3>5. Total(y[q]) = 2 * Total(x[q])
      BY <3>4
    <3> QED
      BY <2>2, <3>1, <3>2, <3>3, <3>5
  <2> QED
    BY <2>1, <2>2
<1> HIDE DEF y
<1>2. Quantile = {"p10", "p50", "p90"}
  BY DEF Quantile
<1>3. WellFormed(y) <=> WellFormed(x)
  <2>1. CASE \A q \in Quantile : x[q] # NoValue
    <3>1. /\ \A q \in Quantile : y[q] # NoValue /\ Len(y[q]) = 2 * Len(x[q]) /\ Len(x[q]) \in Nat
          /\ x["p50"] \in Seq(Int) /\ y["p50"] \in Seq(Int)
      BY <1>1, <1>2, <2>1
    <3>2. \A q \in Quantile : Len(y[q]) = Len(y["p50"]) <=> Len(x[q]) = Len(x["p50"])
      BY <1>2, <3>1
    <3>3. y["p50"] = <<>> <=> x["p50"] = <<>>
      BY <1>2, <3>1
    <3> QED
      BY <2>1, <3>1, <3>2, <3>3 DEF WellFormed
  <2>2. CASE \E q \in Quantile : x[q] = NoValue
    BY <1>1, <2>2 DEF WellFormed
  <2> QED
    BY <2>1, <2>2
<1>4. CASE ~WellFormed(x)
  BY <1>3, <1>4 DEF parse_chronos_response, y
<1>5. CASE WellFormed(x)
  <2> DEFINE low == Total(x["p10"])
             mid == Total(x["p50"])
             high == Total(x["p90"])
  <2>1. /\ x["p10"] # NoValue /\ x["p50"] # NoValue /\ x["p90"] # NoValue
        /\ "p10" \in Quantile /\ "p50" \in Quantile /\ "p90" \in Quantile
    BY <1>2, <1>5 DEF WellFormed
  <2>2. low \in Int /\ mid \in Int /\ high \in Int
    BY <1>1, <2>1, TotalType
  <2>3. Total(y["p10"]) = 2 * low /\ Total(y["p50"]) = 2 * mid /\ Total(y["p90"]) = 2 * high
    BY <1>1, <2>1
  <2>4. Ordered(x) <=> low <= mid /\ mid <= high
    BY DEF Ordered
  <2>5. Ordered(y) <=> 2 * low <= 2 * mid /\ 2 * mid <= 2 * high
    BY <2>3 DEF Ordered
  <2>6. /\ parse_chronos_response(x) =
             IF Ordered(x) THEN [p50 |-> mid, interval_width |-> high - low] ELSE NoValue
        /\ parse_chronos_response(y) =
             IF Ordered(y) THEN [p50 |-> 2 * mid, interval_width |-> 2 * high - 2 * low] ELSE NoValue
    BY <1>3, <1>5, <2>3 DEF parse_chronos_response
  <2> HIDE DEF low, mid, high
  <2>7. Ordered(y) <=> Ordered(x)
    BY <2>2, <2>4, <2>5
  <2>8. CASE ~Ordered(x)
    BY <2>6, <2>7, <2>8 DEF y
  <2>9. CASE Ordered(x)
    <3>1. high - low \in Nat /\ 2 * high - 2 * low = 2 * (high - low)
      BY <2>2, <2>4, <2>9
    <3>2. [p50 |-> mid, interval_width |-> high - low] # NoValue
      BY <2>2, <3>1, PipelineAssumption DEF QuantileForecast
    <3> QED
      BY <2>6, <2>7, <2>9, <3>1, <3>2 DEF y
  <2> QED
    BY <2>8, <2>9
<1> QED
  BY <1>4, <1>5

-----------------------------------------------------------------------------
WorldInv ==
  /\ request \in Request
  /\ median \in Int
  /\ width \in Nat
  /\ fault \in {"none", "http", "key", "empty", "short", "crossed"}
  /\ freight \subseteq FreightColumn
  /\ flag \in BOOLEAN
  /\ sentiment \in Opt(Int)
  /\ base \in BOOLEAN
  /\ prob \in Probability

LEMMA WorldInvariant == Spec => []WorldInv
<1>1. Init => WorldInv
  BY WorldAssumption DEF Init, WorldInv, Opt
<1>2. WorldInv /\ [Next]_vars => WorldInv'
  BY WorldAssumption DEF WorldInv, Next, vars, WidenInterval, SpoilForecast,
     LoseFreightColumn, RaiseAnomaly, LowerSentiment, LoseMacroRow, LoseBaseColumn,
     RaiseProbability, Opt
<1> QED
  BY <1>1, <1>2, PTL DEF Spec

\* The readings of the world that the decision is made of.
Readings == ReadingsOf(request, World)

Forecast == [p50 |-> median, interval_width |-> width]
Regime == IF sentiment # NoValue /\ sentiment < ShockSentiment THEN "shock" ELSE "neutral"

\* The decision is that of the pipeline over the readings.
LEMMA DecisionIsThePipelines == Decision = run_pipeline(Readings)
  BY Zenon DEF Decision, DecisionOn, Readings

\* The six kinds of answer: only the sound one is a forecast.
LEMMA AnswerType ==
  ASSUME WorldInv
  PROVE  /\ fault = "http" => Answer = NoValue
         /\ fault # "http" => Answer \in EndpointAnswer
<1>1. Sound \in EndpointAnswer
  <2> DEFINE low == <<median, -(width \div 2)>>
             mid == <<median, 0>>
             high == <<median, width - width \div 2>>
  <2>1. low \in Seq(Int) /\ mid \in Seq(Int) /\ high \in Seq(Int)
    BY DEF WorldInv
  <2>2. Sound = [p10 |-> low, p50 |-> mid, p90 |-> high]
    BY DEF Sound
  <2> HIDE DEF low, mid, high
  <2> QED
    BY <2>1, <2>2 DEF EndpointAnswer, Quantile, Opt
<1>2. <<median>> \in Opt(Seq(Int)) /\ <<median, width + 1>> \in Opt(Seq(Int))
        /\ NoValue \in Opt(Seq(Int)) /\ <<>> \in Opt(Seq(Int))
  BY DEF WorldInv, Opt
<1>3. fault # "http" => \/ Answer = Sound
                        \/ Answer = [q \in Quantile |-> <<>>]
                        \/ \E q \in Quantile, s \in Opt(Seq(Int)) : Answer = [Sound EXCEPT ![q] = s]
  BY <1>2 DEF WorldInv, Answer, Quantile
<1>4. ASSUME NEW q \in Quantile, NEW s \in Opt(Seq(Int))
      PROVE  [Sound EXCEPT ![q] = s] \in EndpointAnswer
  BY <1>1 DEF EndpointAnswer
<1>5. [q \in Quantile |-> <<>>] \in EndpointAnswer
  BY <1>2 DEF EndpointAnswer
<1>6. fault = "http" => Answer = NoValue
  BY DEF Answer
<1> QED
  BY <1>1, <1>3, <1>4, <1>5, <1>6

LEMMA ForecastOfAnswer ==
  ASSUME WorldInv
  PROVE  chronos_forecast(Answer) = IF fault = "none" THEN Forecast ELSE NoValue
<1> DEFINE half == width \div 2
<1>1. median \in Int /\ width \in Nat /\ half \in Int
  BY DEF WorldInv
<1>2. CASE fault = "none"
  <2> DEFINE low == <<median, -half>>
             mid == <<median, 0>>
             high == <<median, width - half>>
  <2>1. Answer["p10"] = low /\ Answer["p50"] = mid /\ Answer["p90"] = high
    BY <1>2 DEF Answer, Sound
  <2>2. /\ low \in Seq(Int) /\ mid \in Seq(Int) /\ high \in Seq(Int)
        /\ Len(low) = 2 /\ Len(mid) = 2 /\ Len(high) = 2 /\ mid # <<>>
    BY <1>1
  <2>3. low # NoValue /\ mid # NoValue /\ high # NoValue
    BY <2>2, AnswerAssumption
  <2>4. WellFormed(Answer)
    <3> HIDE DEF low, mid, high
    <3> QED
      BY <2>1, <2>2, <2>3 DEF WellFormed, Quantile
  <2>5. /\ Total(low) = median + (-half)
        /\ Total(mid) = median + 0
        /\ Total(high) = median + (width - half)
    BY <1>1, TotalOfTwo
  <2> HIDE DEF low, mid, high
  <2>6. 0 <= half /\ half <= width
    BY <1>1
  <2>7. Ordered(Answer)
    <3> HIDE DEF half
    <3>1. Total(low) <= Total(mid) /\ Total(mid) <= Total(high)
      BY <1>1, <2>5, <2>6
    <3> QED
      BY <2>1, <3>1 DEF Ordered
  <2>8. Total(mid) = median /\ Total(high) - Total(low) = width
    <3> HIDE DEF half
    <3> QED
      BY <1>1, <2>5
  <2>9. parse_chronos_response(Answer) = Forecast
    BY <2>1, <2>4, <2>7, <2>8 DEF parse_chronos_response, Forecast
  <2> QED
    BY <1>2, <2>9, AnswerType, AnswerAssumption DEF chronos_forecast
<1>3. CASE fault = "http"
  BY <1>3, AnswerType DEF chronos_forecast
<1>4. CASE fault = "key"
  <2>1. Answer["p90"] = NoValue
    BY <1>4 DEF Answer, Sound
  <2> QED
    BY <1>4, <2>1 DEF chronos_forecast, parse_chronos_response, WellFormed, Quantile
<1>5. CASE fault = "empty"
  <2>1. Answer["p50"] = <<>>
    BY <1>5 DEF Answer, Quantile
  <2> QED
    BY <1>5, <2>1 DEF chronos_forecast, parse_chronos_response, WellFormed
<1>6. CASE fault = "short"
  <2>1. Answer["p10"] = <<median>> /\ Answer["p50"] = <<median, 0>>
    BY <1>6 DEF Answer, Sound
  <2>2. Len(Answer["p10"]) # Len(Answer["p50"])
    BY <2>1
  <2> QED
    BY <1>6, <2>2 DEF chronos_forecast, parse_chronos_response, WellFormed, Quantile
<1>7. CASE fault = "crossed"
  <2>1. Answer["p10"] = <<median, width + 1>> /\ Answer["p50"] = <<median, 0>>
    BY <1>7 DEF Answer, Sound
  <2>2. Total(Answer["p10"]) = median + (width + 1) /\ Total(Answer["p50"]) = median + 0
    BY <1>1, <2>1, TotalOfTwo
  <2>3. ~(Total(Answer["p10"]) <= Total(Answer["p50"]))
    BY <1>1, <2>2
  <2> QED
    BY <1>7, <2>3 DEF chronos_forecast, parse_chronos_response, Ordered
<1> QED
  BY <1>2, <1>3, <1>4, <1>5, <1>6, <1>7 DEF WorldInv

LEMMA ForecastIsTyped ==
  ASSUME WorldInv
  PROVE  Forecast \in QuantileForecast /\ Regime \in RegimeLabel
BY DEF WorldInv, Forecast, Regime, QuantileForecast, RegimeLabel

\* What the pipeline reads of a world: a source that is lost raises, and every
\* other one gives what the world says.
LEMMA ReadingsOfWorld ==
  ASSUME WorldInv
  PROVE  /\ Readings.request = request
         /\ Readings.forecast = IF fault = "none" THEN Forecast ELSE NoValue
         /\ Readings.anomaly =
              IF request \in Ported /\ freight = FreightColumn THEN flag ELSE NoValue
         /\ Readings.macro = Regime
         /\ Readings.stockout = IF Blind THEN NoValue ELSE prob
<1>1. /\ Readings.request = request
      /\ Readings.forecast = chronos_forecast(Answer)
      /\ Readings.anomaly = logistics_agent(request, World.freight, flag)
      /\ Readings.macro = assess_macro(World.macro)
      /\ Readings.stockout =
           IF NoValue \in {Readings.forecast, Readings.anomaly, Readings.macro} THEN NoValue
           ELSE stockout_agent(Readings.forecast, Readings.anomaly, Readings.macro,
                               World.base, prob)
  BY DEF Readings, ReadingsOf, World
<1>2. NoValue # 1
  BY AnswerAssumption
<1>3. Complete(FreightColumn, World.freight) <=> freight = FreightColumn
  <2>1. World.freight = [c \in FreightColumn |-> IF c \in freight THEN 1 ELSE NoValue]
    BY DEF World
  <2>2. DOMAIN features(World.freight) = {c \in FreightColumn : c \in freight}
    BY <1>2, <2>1 DEF features
  <2> QED
    BY <2>2 DEF Complete, WorldInv
<1>4. ASSUME NEW f, NEW a, NEW m
      PROVE  stockout_agent(f, a, m, World.base, prob) = IF base THEN prob ELSE NoValue
  <2>1. World.base = [c \in BaseColumn |-> IF base THEN 1 ELSE NoValue]
    BY DEF World
  <2>2. DOMAIN features(World.base) = {c \in BaseColumn : base}
    BY <1>2, <2>1 DEF features, WorldInv
  <2>3. DOMAIN assemble_features(f, a, m, World.base)
          = DerivedColumn \cup {c \in BaseColumn : base}
    BY <2>2 DEF assemble_features
  <2>4. DerivedColumn \cup BaseColumn \subseteq DerivedColumn \cup {c \in BaseColumn : base}
          <=> base
    BY ColumnAssumption, WorldAssumption DEF WorldInv
  <2> QED
    BY <2>3, <2>4 DEF stockout_agent, classify_stockout_risk
<1>5. assess_macro(World.macro) = Regime
  <2>1. World.macro = [c \in {"consumer_sentiment"} |-> sentiment]
    BY DEF World
  <2>2. /\ "consumer_sentiment" \in DOMAIN features(World.macro) <=> sentiment # NoValue
        /\ sentiment # NoValue => features(World.macro)["consumer_sentiment"] = sentiment
    BY <2>1 DEF features
  <2> QED
    BY <2>2 DEF assess_macro, classify_regime, Regime
<1>6. /\ Readings.forecast = IF fault = "none" THEN Forecast ELSE NoValue
      /\ Readings.anomaly =
           IF request \in Ported /\ freight = FreightColumn THEN flag ELSE NoValue
      /\ Readings.macro = Regime
  BY <1>1, <1>3, <1>5, ForecastOfAnswer DEF logistics_agent, detect_freight_anomaly
<1>7. Forecast # NoValue /\ flag # NoValue /\ Regime # NoValue
  BY ForecastIsTyped, PipelineAssumption DEF WorldInv
<1>8. NoValue \in {Readings.forecast, Readings.anomaly, Readings.macro}
        <=> request \notin Ported \/ fault # "none" \/ freight # FreightColumn
  BY <1>6, <1>7
<1> QED
  BY <1>1, <1>4, <1>6, <1>8, Zenon DEF Blind

\* The decision, reduced: a lost source escalates, and a full picture is
\* synthesised from the world itself.
LEMMA DecisionOfWorld ==
  ASSUME WorldInv
  PROVE  Decision = IF Blind THEN escalate_missing(request)
                    ELSE synthesise(request, Forecast, flag, Regime, prob)
<1>1. /\ Forecast # NoValue /\ flag # NoValue /\ Regime # NoValue /\ prob # NoValue
  BY ForecastIsTyped, PipelineAssumption DEF WorldInv
<1>2. SomeRaises(Readings) <=> Blind
  BY <1>1, ReadingsOfWorld DEF SomeRaises, Blind
<1>3. ~Blind => /\ Readings.forecast = Forecast /\ Readings.anomaly = flag
                /\ Readings.macro = Regime /\ Readings.stockout = prob
  BY ReadingsOfWorld DEF Blind
<1> QED
  BY <1>2, <1>3, DecisionIsThePipelines, ReadingsOfWorld, Zenon DEF run_pipeline

-----------------------------------------------------------------------------
\* From the raw rows and answers on, whatever they lack and however malformed,
\* an autonomous decision carries reversible actions only.
THEOREM AutonomyIsReversibleHolds == Spec => []AutonomyIsReversible
<1>1. WorldInv => AutonomyIsReversible
  <2> SUFFICES ASSUME WorldInv, Decision.autonomous, NEW x \in Decision.recommended_actions
               PROVE  reversible(x)
    BY DEF AutonomyIsReversible
  <2>1. ~Blind
    BY DecisionOfWorld, MissingIsCritical DEF WorldInv
  <2>2. Decision = synthesise(request, Forecast, flag, Regime, prob)
    BY <2>1, DecisionOfWorld
  <2> QED
    BY <2>2, ForecastIsTyped, AutonomousActionsAreReversible DEF WorldInv
<1> QED
  BY <1>1, WorldInvariant, PTL

-----------------------------------------------------------------------------
\* The tier of a decision over readings none of which is missing, at the
\* thresholds of the code, from how many of the four signals are elevated.
LEMMA TierOfWorld ==
  ASSUME WorldInv, ~Blind,
         ROUTINE_MAX_PROB = 30, REVIEW_MIN_PROB = 55, CRITICAL_MIN_PROB = 75,
         NARROW_INTERVAL_RATIO = 20, HIGH_UNCERTAINTY_RATIO = 50
  PROVE  Decision.tier = IF PolicyRow("critical") THEN "critical"
                         ELSE IF PolicyRow("review") THEN "review"
                         ELSE IF PolicyRow("routine") THEN "routine"
                         ELSE "monitor"
<1> DEFINE s == signals(Forecast, flag, Regime, prob)
           shock == Regime = "shock"
           high == prob >= 55
           h == 2 * width > Abs(median)
<1>1. Decision.tier = evaluate_escalation(s)
  BY DecisionOfWorld DEF synthesise
<1>2. median \in Int /\ width \in Nat /\ Abs(median) \in Nat /\ prob \in Int
  BY SMT DEF WorldInv, Abs, Probability
<1>3. high_uncertainty(Forecast) = h
  <2>1. high_uncertainty(Forecast) = (100 * width > 50 * Abs(median))
    BY DEF high_uncertainty, Forecast
  <2> QED
    BY <1>2, <2>1
<1>4. narrow_interval(Forecast) = (width = 0 \/ 5 * width < Abs(median))
  <2>1. narrow_interval(Forecast) = (width = 0 \/ 100 * width < 20 * Abs(median))
    BY DEF narrow_interval, Forecast
  <2> QED
    BY <1>2, <2>1
<1>5. /\ s.stockout_probability = prob
      /\ s.forecast = Forecast
      /\ s.anomaly_flag = flag
      /\ s.macro_shock = shock
      /\ s.missing_signal = FALSE
      /\ s.signal_count = OneIf(flag) + OneIf(shock) + OneIf(high) + OneIf(h)
  BY <1>3 DEF signals
<1>6. shock <=> sentiment # NoValue /\ sentiment < 55
  BY DEF Regime, ShockSentiment
<1>7. Elevated = {x \in {"anomaly", "shock", "probability", "uncertainty"} :
                    \/ x = "anomaly" /\ flag
                    \/ x = "shock" /\ shock
                    \/ x = "probability" /\ high
                    \/ x = "uncertainty" /\ h}
  BY <1>6, Zenon DEF Elevated
<1>0. flag \in BOOLEAN /\ shock \in BOOLEAN /\ high \in BOOLEAN /\ h \in BOOLEAN
  BY DEF WorldInv
<1>8. (\E x, y \in Elevated : x # y)
        <=> \/ (flag /\ shock) \/ (flag /\ high) \/ (flag /\ h)
            \/ (shock /\ high) \/ (shock /\ h) \/ (high /\ h)
  <2> HIDE DEF shock, high, h
  <2>1. /\ "anomaly" \in Elevated <=> flag
        /\ "shock" \in Elevated <=> shock
        /\ "probability" \in Elevated <=> high
        /\ "uncertainty" \in Elevated <=> h
        /\ \A x \in Elevated : x \in {"anomaly", "shock", "probability", "uncertainty"}
    BY <1>7
  <2>2. ASSUME NEW x \in Elevated, NEW y \in Elevated, x # y
        PROVE  \/ (flag /\ shock) \/ (flag /\ high) \/ (flag /\ h)
               \/ (shock /\ high) \/ (shock /\ h) \/ (high /\ h)
    <3>1. \A z \in Elevated :
            \/ z = "anomaly" /\ flag
            \/ z = "shock" /\ shock
            \/ z = "probability" /\ high
            \/ z = "uncertainty" /\ h
      BY <1>7
    <3> QED
      BY <2>2, <3>1
  <2>3. /\ flag /\ shock => \E x, y \in Elevated : x # y
        /\ flag /\ high => \E x, y \in Elevated : x # y
        /\ flag /\ h => \E x, y \in Elevated : x # y
        /\ shock /\ high => \E x, y \in Elevated : x # y
        /\ shock /\ h => \E x, y \in Elevated : x # y
        /\ high /\ h => \E x, y \in Elevated : x # y
    BY <2>1
  <2> QED
    BY <2>2, <2>3, Zenon
<1>9. s.signal_count >= 2
        <=> \/ (flag /\ shock) \/ (flag /\ high) \/ (flag /\ h)
            \/ (shock /\ high) \/ (shock /\ h) \/ (high /\ h)
  <2> DEFINE i == OneIf(flag)
             j == OneIf(shock)
             k == OneIf(high)
             l == OneIf(h)
  <2>0. i \in 0..1 /\ j \in 0..1 /\ k \in 0..1 /\ l \in 0..1
    BY <1>0, OneIfBounds, Zenon
  <2>1. /\ (i = 1 <=> flag) /\ (j = 1 <=> shock) /\ (k = 1 <=> high) /\ (l = 1 <=> h)
    BY <1>0, OneIfBounds, Zenon
  <2>2. s.signal_count = i + j + k + l
    BY <1>5
  <2> HIDE DEF s, i, j, k, l
  <2>3. s.signal_count >= 2
          <=> \/ (i = 1 /\ j = 1) \/ (i = 1 /\ k = 1) \/ (i = 1 /\ l = 1)
              \/ (j = 1 /\ k = 1) \/ (j = 1 /\ l = 1) \/ (k = 1 /\ l = 1)
    BY <2>0, <2>2
  <2> HIDE DEF shock, high, h
  <2> QED
    BY <2>1, <2>3, Zenon
<1>10. {"anomaly", "shock", "uncertainty"} \subseteq Elevated <=> flag /\ shock /\ h
  <2> HIDE DEF shock, high, h
  <2> QED
    BY <1>7
<1>11. IsCritical(s) <=> PolicyRow("critical")
  BY <1>3, <1>5, <1>10 DEF IsCritical, PolicyRow
<1>12. IsReview(s) <=> PolicyRow("review")
  <2>1. prob \in 55..75 <=> 55 <= prob /\ prob <= 75
    BY <1>2
  <2> QED
    BY <1>5, <1>8, <1>9, <2>1 DEF IsReview, PolicyRow
<1>13. IsRoutine(s) <=> PolicyRow("routine")
  BY <1>4, <1>5 DEF IsRoutine, PolicyRow
<1> QED
  BY <1>1, <1>11, <1>12, <1>13 DEF evaluate_escalation

\* At the thresholds of the PRD, the decision is that of the gravest row of the
\* policy table whose condition holds, and MONITOR where none does.
THEOREM GravestRowWinsHolds ==
  ASSUME ROUTINE_MAX_PROB = 30, REVIEW_MIN_PROB = 55, CRITICAL_MIN_PROB = 75,
         NARROW_INTERVAL_RATIO = 20, HIGH_UNCERTAINTY_RATIO = 50
  PROVE  Spec => []GravestRowWins
<1>1. WorldInv => GravestRowWins
  <2> SUFFICES ASSUME WorldInv
               PROVE  GravestRowWins
    OBVIOUS
  <2>1. Decision.tier = IF PolicyRow("critical") THEN "critical"
                        ELSE IF PolicyRow("review") THEN "review"
                        ELSE IF PolicyRow("routine") THEN "routine"
                        ELSE "monitor"
    <3>1. CASE Blind
      <4>1. Decision.tier = "critical"
        BY <3>1, DecisionOfWorld, MissingIsCritical DEF WorldInv
      <4>2. PolicyRow("critical")
        BY <3>1 DEF PolicyRow
      <4> QED
        BY <4>1, <4>2
    <3>2. CASE ~Blind
      BY <3>2, TierOfWorld
    <3> QED
      BY <3>1, <3>2
  <2>2. PolicyRow("routine") => ~PolicyRow("monitor")
    BY DEF PolicyRow, WorldInv, Probability
  <2> QED
    BY <2>1, <2>2, SeverityValues DEF GravestRowWins, EscalationTier
<1> QED
  BY <1>1, WorldInvariant, PTL

-----------------------------------------------------------------------------
\* What a step of the world may change, the lost macro row apart.
LEMMA WorldWorsens ==
  ASSUME WorldInv, WorldInv', Next, ~RegimeLost
  PROVE  /\ request' = request
         /\ Blind => Blind'
         /\ median' = median
         /\ width <= width'
         /\ flag => flag'
         /\ Regime = "shock" => Regime' = "shock"
<1> USE DEF WorldInv, Blind, Regime, Probability, ShockSentiment
<1>1. CASE WidenInterval
  BY <1>1, WorldAssumption DEF WidenInterval
<1>2. CASE SpoilForecast
  BY <1>2 DEF SpoilForecast
<1>3. CASE LoseFreightColumn
  BY <1>3 DEF LoseFreightColumn
<1>4. CASE RaiseAnomaly
  BY <1>4 DEF RaiseAnomaly
<1>5. CASE LowerSentiment
  BY <1>5, WorldAssumption, AnswerAssumption DEF LowerSentiment, Opt
<1>6. CASE LoseBaseColumn
  BY <1>6 DEF LoseBaseColumn
<1>7. CASE RaiseProbability
  BY <1>7, WorldAssumption DEF RaiseProbability
<1>8. ~LoseMacroRow
  BY DEF LoseMacroRow, RegimeLost
<1> QED
  BY <1>1, <1>2, <1>3, <1>4, <1>5, <1>6, <1>7, <1>8 DEF Next

\* No step of the world but the loss of the macro row makes the tier milder,
\* unless the classifier answers a lower probability: at any thresholds in order.
THEOREM TierNeverEasesHolds == Spec => TierNeverEases
<1>1. (WorldInv => /\ Forecast \in QuantileForecast
                   /\ Regime \in RegimeLabel
                   /\ Decision = IF Blind THEN escalate_missing(request)
                                 ELSE synthesise(request, Forecast, flag, Regime, prob))'
  BY DecisionOfWorld, ForecastIsTyped, PTL
<1>2. WorldInv /\ WorldInv' /\ Next /\ ~RegimeLost /\ prob <= prob'
        => Severity(Decision.tier) <= Severity(Decision'.tier)
  <2> SUFFICES ASSUME WorldInv, WorldInv', Next, ~RegimeLost, prob <= prob'
               PROVE  Severity(Decision.tier) <= Severity(Decision'.tier)
    OBVIOUS
  <2>1. CASE Blind'
    <3>1. Decision'.tier = "critical"
      BY <1>1, <2>1, MissingIsCritical DEF WorldInv
    <3>2. Decision.tier \in EscalationTier
      BY DecisionOfWorld, ForecastIsTyped, SynthesiseType, MissingIsCritical
         DEF WorldInv, SupervisorDecision
    <3> QED
      BY <3>1, <3>2, SeverityValues DEF EscalationTier
  <2>2. CASE ~Blind'
    <3>1. /\ Decision = synthesise(request, Forecast, flag, Regime, prob)
          /\ Decision' = synthesise(request', Forecast', flag', Regime', prob')
      BY <1>1, <2>2, WorldWorsens, DecisionOfWorld
    <3>2. /\ Forecast \in QuantileForecast /\ Forecast' \in QuantileForecast
          /\ Regime \in RegimeLabel /\ Regime' \in RegimeLabel
      BY <1>1, ForecastIsTyped
    <3>3. /\ Forecast.p50 = Forecast'.p50
          /\ Forecast.interval_width <= Forecast'.interval_width
      BY WorldWorsens DEF Forecast
    <3>4. /\ request \in Request /\ request' = request
          /\ flag \in BOOLEAN /\ flag' \in BOOLEAN /\ (flag => flag')
          /\ prob \in Probability /\ prob' \in Probability
          /\ Regime = "shock" => Regime' = "shock"
      BY WorldWorsens DEF WorldInv
    <3>5. prob <= prob'
      OBVIOUS
    <3>6. Severity(synthesise(request, Forecast, flag, Regime, prob).tier)
            <= Severity(synthesise(request, Forecast', flag', Regime', prob').tier)
      <4> DEFINE f == Forecast
                 g == Forecast'
                 m == Regime
                 n == Regime'
                 b == flag'
                 v == prob'
      <4>1. /\ f \in QuantileForecast /\ g \in QuantileForecast
            /\ m \in RegimeLabel /\ n \in RegimeLabel
        BY <3>2
      <4>2. f.p50 = g.p50 /\ f.interval_width <= g.interval_width
        BY <3>3
      <4>3. b \in BOOLEAN /\ v \in Probability
        BY <3>4
      <4>4. flag => b
        BY <3>4
      <4>5. m = "shock" => n = "shock"
        BY <3>4
      <4>6. prob <= v
        BY <3>5
      <4>7. request \in Request /\ flag \in BOOLEAN /\ prob \in Probability
        BY <3>4
      <4> HIDE DEF f, g, m, n, b, v
      <4>8. Severity(synthesise(request, f, flag, m, prob).tier)
              <= Severity(synthesise(request, g, b, n, v).tier)
        BY <4>1, <4>2, <4>3, <4>4, <4>5, <4>6, <4>7, SynthesisMonotone
      <4> QED
        BY <4>8 DEF f, g, m, n, b, v
    <3> QED
      BY <3>1, <3>4, <3>6
  <2> QED
    BY <2>1, <2>2
<1>3. WorldInv /\ WorldInv' /\ [Next]_vars
        => [~RegimeLost /\ prob <= prob'
              => Severity(Decision.tier) <= Severity(Decision'.tier)]_vars
  BY <1>2
<1> QED
  BY <1>3, WorldInvariant, PTL DEF Spec, TierNeverEases

\* What the loss of the macro row leaves of a decision, at the code's threshold
\* of a wide interval and any others in order: the anomaly and the interval
\* still count, and a classifier that does not turn milder costs one tier at
\* most.
THEOREM LostRegimeKeepsTheRestHolds ==
  ASSUME HIGH_UNCERTAINTY_RATIO = 50
  PROVE  Spec => LostRegimeKeepsTheRest
<1> DEFINE Kept ==
             /\ flag => Decision'.tier # "routine"
             /\ {"anomaly", "uncertainty"} \subseteq Elevated
                  => Severity("review") <= Severity(Decision'.tier)
             /\ prob <= prob' =>
                  /\ Severity(Decision.tier) <= Severity(Decision'.tier) + 1
                  /\ Decision'.tier = "routine" => Decision.tier = "routine"
<1>1. (WorldInv => Decision = IF Blind THEN escalate_missing(request)
                              ELSE synthesise(request, Forecast, flag, Regime, prob))'
  BY DecisionOfWorld, PTL
<1>2. ASSUME WorldInv, WorldInv', Next, RegimeLost
      PROVE  Kept
  <2>1. UNCHANGED <<request, median, width, fault, freight, flag, base>>
    BY <1>2 DEF Next, RegimeLost, WidenInterval, SpoilForecast, LoseFreightColumn, RaiseAnomaly,
       LowerSentiment, LoseMacroRow, LoseBaseColumn, RaiseProbability
  <2>2. (Blind' <=> Blind) /\ Forecast' = Forecast /\ Regime' = "neutral"
    BY <1>2, <2>1 DEF Blind, Forecast, Regime, RegimeLost
  <2>3. CASE Blind
    <3>1. Decision' = Decision /\ Decision.tier = "critical"
      BY <1>1, <1>2, <2>1, <2>2, <2>3, DecisionOfWorld, MissingIsCritical DEF WorldInv
    <3> QED
      BY <3>1, SeverityValues
  <2>4. CASE ~Blind
    <3> DEFINE v == prob'
               seen == synthesise(request, Forecast, flag, Regime, prob)
               less == synthesise(request, Forecast, flag, "neutral", prob)
               left == synthesise(request, Forecast, flag, "neutral", v)
    <3>1. Decision = seen /\ Decision' = left
      BY <1>1, <1>2, <2>1, <2>2, <2>4, DecisionOfWorld
    <3>2. /\ request \in Request /\ flag \in BOOLEAN
          /\ prob \in Probability /\ v \in Probability
          /\ Forecast \in QuantileForecast /\ Regime \in RegimeLabel
          /\ "neutral" \in RegimeLabel
      BY <1>2, ForecastIsTyped DEF WorldInv, RegimeLabel
    <3> HIDE DEF v
    <3>3. flag => left.tier # "routine"
      BY <3>2, AnomalyIsNotRoutine
    <3>4. {"anomaly", "uncertainty"} \subseteq Elevated
            => Severity("review") <= Severity(left.tier)
      <4>1. {"anomaly", "uncertainty"} \subseteq Elevated => flag /\ 2 * width > Abs(median)
        BY DEF Elevated
      <4>2. median \in Int /\ width \in Nat /\ Abs(median) \in Nat
        BY <1>2, SMT DEF WorldInv, Abs
      <4>3. 2 * width > Abs(median) => high_uncertainty(Forecast)
        <5>1. high_uncertainty(Forecast) = (100 * width > 50 * Abs(median))
          BY DEF high_uncertainty, Forecast
        <5>2. 2 * width > Abs(median) => 100 * width > 50 * Abs(median)
          BY <4>2
        <5> QED
          BY <5>1, <5>2, Zenon
      <4> QED
        BY <3>2, <4>1, <4>3, UncertainAnomalyIsEscalated, Zenon
    <3>5. /\ Severity(seen.tier) <= Severity(less.tier) + 1
          /\ less.tier = "routine" => seen.tier = "routine"
      <4>1. CASE Regime = "shock"
        BY <3>2, <4>1, LostShockCostsOneTier
      <4>2. CASE Regime = "neutral"
        <5>1. seen = less /\ seen.tier \in EscalationTier
          BY <3>2, <4>2, TierType DEF synthesise
        <5> QED
          BY <5>1, SeverityValues DEF EscalationTier
      <4> QED
        BY <4>1, <4>2 DEF Regime
    <3>6. prob <= v => Severity(less.tier) <= Severity(left.tier)
      BY <3>2, SynthesisMonotone DEF QuantileForecast
    <3>7. {seen.tier, less.tier, left.tier} \subseteq EscalationTier
      BY <3>2, TierType DEF synthesise
    <3> HIDE DEF seen, less, left
    <3>8. prob <= v => /\ Severity(seen.tier) <= Severity(left.tier) + 1
                       /\ left.tier = "routine" => seen.tier = "routine"
      BY <3>5, <3>6, <3>7, SeverityValues DEF EscalationTier
    <3> QED
      BY <3>1, <3>3, <3>4, <3>8 DEF v
  <2> QED
    BY <2>3, <2>4
<1>3. WorldInv /\ WorldInv' /\ [Next]_vars => [RegimeLost => Kept]_vars
  BY <1>2
<1> QED
  BY <1>3, WorldInvariant, PTL DEF Spec, LostRegimeKeepsTheRest
=============================================================================
