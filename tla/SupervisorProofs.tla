-------------------------- MODULE SupervisorProofs --------------------------
(***************************************************************************)
(* What the Supervisor's decision function guarantees for every value of   *)
(* the thresholds, every forecast and every probability.                   *)
(***************************************************************************)
EXTENDS Supervisor, TLAPS

\* The number of elevated signals, as the policy counts them.
ElevatedCount(f, a, m, p) == signals(f, a, m, p).signal_count

\* A flag counts for zero or one.
LEMMA OneIfBounds ==
  ASSUME NEW b \in BOOLEAN
  PROVE  OneIf(b) \in 0..1 /\ (OneIf(b) = 1 <=> b)
BY SMT DEF OneIf

\* Both comparisons of a forecast with its thresholds are Booleans.
LEMMA ForecastFlags ==
  ASSUME NEW f \in QuantileForecast
  PROVE  high_uncertainty(f) \in BOOLEAN /\ narrow_interval(f) \in BOOLEAN
BY SMT DEF high_uncertainty, narrow_interval

\* The policy always answers with one of its four tiers.
LEMMA TierType ==
  ASSUME NEW s
  PROVE  evaluate_escalation(s) \in EscalationTier
BY Zenon DEF evaluate_escalation, EscalationTier

\* The proposals are action classes of the contract.
LEMMA ProposalType ==
  ASSUME NEW a, NEW p
  PROVE  propose_actions(a, p) \in SUBSET ActionType
BY SMT DEF propose_actions, ActionType

\* A synthesised decision satisfies its contract, whatever the readings.
THEOREM SynthesiseType ==
  ASSUME NEW q \in Request, NEW f, NEW a, NEW m, NEW p
  PROVE  synthesise(q, f, a, m, p) \in SupervisorDecision
<1> DEFINE tier == evaluate_escalation(signals(f, a, m, p))
<1>1. tier \in EscalationTier
  BY TierType
<1>2. AutonomousTier(tier) \in BOOLEAN
  BY SMT DEF AutonomousTier
<1>3. propose_actions(a, p) \in SUBSET ActionType
  BY ProposalType
<1> QED
  BY <1>1, <1>2, <1>3, SMT DEF synthesise, SupervisorDecision

\* A decision over a missing signal is CRITICAL, proposes nothing and leaves
\* everything to a planner (escalate_missing).
THEOREM MissingIsCritical ==
  ASSUME NEW q \in Request
  PROVE  /\ escalate_missing(q) \in SupervisorDecision
         /\ escalate_missing(q).tier = "critical"
         /\ ~escalate_missing(q).autonomous
<1>1. evaluate_escalation(missing_signals) = "critical"
  BY Zenon DEF evaluate_escalation, IsCritical, missing_signals
<1>2. AutonomousTier("critical") = FALSE
  BY SMT DEF AutonomousTier
<1>3. escalate_missing(q) = [ decision_id         |-> q,
                              tier                |-> "critical",
                              autonomous          |-> FALSE,
                              recommended_actions |-> {} ]
  BY <1>1, <1>2, Zenon DEF escalate_missing
<1> QED
  BY <1>3, SMT DEF SupervisorDecision, EscalationTier

\* Autonomy, characterised: the Supervisor acts by itself exactly when the
\* probability is below the review threshold and fewer than two of the four
\* signals are elevated.  The critical conjunction needs no clause: three
\* elevated signals are two.
THEOREM AutonomyCharacterised ==
  ASSUME NEW q \in Request, NEW f \in QuantileForecast, NEW a \in BOOLEAN,
         NEW m \in RegimeLabel, NEW p \in Probability
  PROVE  synthesise(q, f, a, m, p).autonomous
           <=> p < REVIEW_MIN_PROB /\ ElevatedCount(f, a, m, p) < 2
<1> DEFINE s == signals(f, a, m, p)
           h == high_uncertainty(f)
           shock == m = "shock"
<1>1. /\ s.stockout_probability = p
      /\ s.forecast = f
      /\ s.anomaly_flag = a
      /\ s.macro_shock = shock
      /\ s.missing_signal = FALSE
      /\ s.signal_count = OneIf(a) + OneIf(shock) + OneIf(p >= REVIEW_MIN_PROB) + OneIf(h)
  BY DEF signals
<1>2. p \in Int /\ REVIEW_MIN_PROB \in Int /\ CRITICAL_MIN_PROB \in Int
      /\ REVIEW_MIN_PROB <= CRITICAL_MIN_PROB
  BY ThresholdAssumption DEF Probability
<1>3. synthesise(q, f, a, m, p).autonomous <=> ~IsCritical(s) /\ ~IsReview(s)
  <2>1. synthesise(q, f, a, m, p).autonomous = AutonomousTier(evaluate_escalation(s))
    BY DEF synthesise
  <2>2. evaluate_escalation(s) \in {"routine", "monitor"} <=> ~IsCritical(s) /\ ~IsReview(s)
    BY SMT DEF evaluate_escalation
  <2> QED
    BY <2>1, <2>2, Zenon DEF AutonomousTier
<1>4. h \in BOOLEAN
  BY ForecastFlags
<1>5. IsCritical(s) <=> p > CRITICAL_MIN_PROB \/ (a /\ shock /\ h)
  BY <1>1, Zenon DEF IsCritical
<1>6. IsReview(s) <=> \/ REVIEW_MIN_PROB <= p /\ p <= CRITICAL_MIN_PROB
                      \/ s.signal_count >= 2
  BY <1>1, SMT DEF IsReview
<1>7. a /\ shock /\ h => s.signal_count >= 2
  BY <1>1, <1>4, <1>2, OneIfBounds, SMT DEF OneIf
<1>8. s.signal_count \in Int
  BY <1>1, <1>2, SMT DEF OneIf
<1>9. ElevatedCount(f, a, m, p) = s.signal_count
  BY DEF ElevatedCount
<1>10. ~IsCritical(s) /\ ~IsReview(s) <=> p < REVIEW_MIN_PROB /\ s.signal_count < 2
  <2> HIDE DEF s, h, shock
  <2> QED
    BY <1>2, <1>5, <1>6, <1>7, <1>8, SMT
<1> QED
  BY <1>3, <1>9, <1>10, Zenon

\* An autonomous decision recommends reversible actions only, whatever the
\* thresholds, because the irreversible one is proposed from the same
\* threshold on that ends autonomy.
THEOREM AutonomousActionsAreReversible ==
  ASSUME NEW q \in Request, NEW f \in QuantileForecast, NEW a \in BOOLEAN,
         NEW m \in RegimeLabel, NEW p \in Probability,
         synthesise(q, f, a, m, p).autonomous
  PROVE  \A x \in synthesise(q, f, a, m, p).recommended_actions : reversible(x)
<1>1. p < REVIEW_MIN_PROB
  BY AutonomyCharacterised
<1>2. ~(p >= REVIEW_MIN_PROB)
  BY <1>1, ThresholdAssumption, SMT DEF Probability
<1>3. propose_actions(a, p) \subseteq {"reroute", "expedite"}
  BY <1>2, SMT DEF propose_actions
<1>4. synthesise(q, f, a, m, p).recommended_actions = propose_actions(a, p)
  BY DEF synthesise
<1> QED
  BY <1>3, <1>4, SMT DEF reversible

-----------------------------------------------------------------------------
\* One reading is at least as grave as another: no signal of it is milder.
Worse(s, t) ==
  /\ s.stockout_probability <= t.stockout_probability
  /\ s.anomaly_flag => t.anomaly_flag
  /\ s.macro_shock => t.macro_shock
  /\ s.signal_count <= t.signal_count
  /\ s.missing_signal => t.missing_signal
  /\ high_uncertainty(s.forecast) => high_uncertainty(t.forecast)
  /\ narrow_interval(t.forecast) => narrow_interval(s.forecast)

\* The joint signals satisfy their contract.
LEMMA SignalsType ==
  ASSUME NEW f \in QuantileForecast, NEW a \in BOOLEAN,
         NEW m \in RegimeLabel, NEW p \in Probability
  PROVE  signals(f, a, m, p) \in EscalationSignals
<1> DEFINE shock == m = "shock"
           count == OneIf(a) + OneIf(shock) + OneIf(p >= REVIEW_MIN_PROB)
                    + OneIf(high_uncertainty(f))
<1>1. count \in 0..4
  BY SMT DEF OneIf
<1>2. shock \in BOOLEAN
  OBVIOUS
<1>3. signals(f, a, m, p) =
        [ stockout_probability |-> p, forecast |-> f, anomaly_flag |-> a,
          macro_shock |-> shock, signal_count |-> count,
          missing_signal |-> FALSE ]
  BY DEF signals
<1> HIDE DEF shock, count
<1> QED
  BY <1>1, <1>2, <1>3, SMT DEF EscalationSignals

\* Severity orders the tiers as the branches of the policy do.
LEMMA SeverityValues ==
  /\ Severity("routine") = 0
  /\ Severity("monitor") = 1
  /\ Severity("review") = 2
  /\ Severity("critical") = 3
BY SMT DEF Severity

\* The policy is monotone: worse signals never yield a milder tier, for every
\* ordering of thresholds the assumption admits (evaluate_escalation).
THEOREM EscalationMonotone ==
  ASSUME NEW s \in EscalationSignals, NEW t \in EscalationSignals, Worse(s, t)
  PROVE  Severity(evaluate_escalation(s)) <= Severity(evaluate_escalation(t))
<1>1. /\ s.stockout_probability \in Int /\ t.stockout_probability \in Int
      /\ s.signal_count \in Int /\ t.signal_count \in Int
  BY SMT DEF EscalationSignals, Probability
<1>2. IsCritical(s) => IsCritical(t)
  BY <1>1, ThresholdAssumption, SMT DEF IsCritical, Worse
<1>3. IsReview(s) => IsReview(t) \/ IsCritical(t)
  BY <1>1, ThresholdAssumption, SMT DEF IsReview, IsCritical, Worse
<1>4. IsRoutine(t) => IsRoutine(s)
  BY <1>1, ThresholdAssumption, SMT DEF IsRoutine, Worse
<1>5. CASE IsCritical(t)
  BY <1>5, SeverityValues, SMT DEF evaluate_escalation
<1>6. CASE ~IsCritical(t) /\ IsReview(t)
  BY <1>2, <1>6, SeverityValues, SMT DEF evaluate_escalation
<1>7. CASE ~IsCritical(t) /\ ~IsReview(t)
  BY <1>2, <1>3, <1>4, <1>7, SeverityValues, SMT DEF evaluate_escalation
<1> QED
  BY <1>5, <1>6, <1>7

\* The same of the readings themselves, through the counting of elevated
\* signals: with the median unchanged, a wider interval, an anomaly, a shock
\* or a higher probability never lowers the tier of the decision.
THEOREM SynthesisMonotone ==
  ASSUME NEW q \in Request,
         NEW f \in QuantileForecast, NEW g \in QuantileForecast,
         NEW a \in BOOLEAN, NEW b \in BOOLEAN,
         NEW m \in RegimeLabel, NEW n \in RegimeLabel,
         NEW p \in Probability, NEW v \in Probability,
         f.p50 = g.p50, f.interval_width <= g.interval_width,
         a => b, m = "shock" => n = "shock", p <= v
  PROVE  Severity(synthesise(q, f, a, m, p).tier)
           <= Severity(synthesise(q, g, b, n, v).tier)
<1> DEFINE s == signals(f, a, m, p)
           t == signals(g, b, n, v)
<1>0. /\ f.interval_width \in Int /\ g.interval_width \in Int
      /\ 0 <= f.interval_width
      /\ HIGH_UNCERTAINTY_RATIO * Abs(f.p50) \in Int
      /\ NARROW_INTERVAL_RATIO * Abs(f.p50) \in Int
  BY ThresholdAssumption, SMT DEF QuantileForecast, Abs
<1>1. high_uncertainty(f) => high_uncertainty(g)
  <2> DEFINE bound == HIGH_UNCERTAINTY_RATIO * Abs(f.p50)
  <2>1. high_uncertainty(f) = (100 * f.interval_width > bound)
    BY DEF high_uncertainty
  <2>2. high_uncertainty(g) = (100 * g.interval_width > bound)
    BY DEF high_uncertainty
  <2>3. bound \in Int
    BY <1>0
  <2> HIDE DEF bound
  <2>4. 100 * f.interval_width > bound => 100 * g.interval_width > bound
    BY <1>0, <2>3, SMT
  <2> QED
    BY <2>1, <2>2, <2>4, Zenon
<1>2. narrow_interval(g) => narrow_interval(f)
  <2> DEFINE bound == NARROW_INTERVAL_RATIO * Abs(f.p50)
  <2>1. narrow_interval(f) = (f.interval_width = 0 \/ 100 * f.interval_width < bound)
    BY DEF narrow_interval
  <2>2. narrow_interval(g) = (g.interval_width = 0 \/ 100 * g.interval_width < bound)
    BY DEF narrow_interval
  <2>3. bound \in Int
    BY <1>0
  <2> HIDE DEF bound
  <2>4. \/ g.interval_width = 0
        \/ 100 * g.interval_width < bound
        => f.interval_width = 0 \/ 100 * f.interval_width < bound
    BY <1>0, <2>3, SMT
  <2> QED
    BY <2>1, <2>2, <2>4, Zenon
<1>3. /\ p \in Int /\ v \in Int /\ REVIEW_MIN_PROB \in Int
      /\ high_uncertainty(f) \in BOOLEAN /\ high_uncertainty(g) \in BOOLEAN
  BY ThresholdAssumption, ForecastFlags, SMT DEF Probability
<1>4. /\ OneIf(a) \in 0..1 /\ OneIf(b) \in 0..1 /\ OneIf(a) <= OneIf(b)
      /\ OneIf(m = "shock") \in 0..1 /\ OneIf(n = "shock") \in 0..1
      /\ OneIf(m = "shock") <= OneIf(n = "shock")
      /\ OneIf(p >= REVIEW_MIN_PROB) \in 0..1 /\ OneIf(v >= REVIEW_MIN_PROB) \in 0..1
      /\ OneIf(p >= REVIEW_MIN_PROB) <= OneIf(v >= REVIEW_MIN_PROB)
      /\ OneIf(high_uncertainty(f)) \in 0..1 /\ OneIf(high_uncertainty(g)) \in 0..1
      /\ OneIf(high_uncertainty(f)) <= OneIf(high_uncertainty(g))
  BY <1>1, <1>3, SMT DEF OneIf
<1>5. s.signal_count \in 0..4 /\ t.signal_count \in 0..4 /\ s.signal_count <= t.signal_count
  BY <1>4, SMT DEF signals
<1>6. s \in EscalationSignals /\ t \in EscalationSignals
  BY SignalsType
<1>7. Worse(s, t)
  <2>1. /\ s.stockout_probability = p /\ t.stockout_probability = v
        /\ s.forecast = f /\ t.forecast = g
        /\ s.anomaly_flag = a /\ t.anomaly_flag = b
        /\ s.macro_shock = (m = "shock") /\ t.macro_shock = (n = "shock")
        /\ s.missing_signal = FALSE /\ t.missing_signal = FALSE
    BY DEF signals
  <2> QED
    BY <1>1, <1>2, <1>5, <2>1, Zenon DEF Worse
<1> QED
  BY <1>6, <1>7, EscalationMonotone DEF synthesise

-----------------------------------------------------------------------------
\* No forecast is narrow and uncertain at once.
LEMMA UncertainIsNotNarrow ==
  ASSUME NEW f \in QuantileForecast, high_uncertainty(f)
  PROVE  ~narrow_interval(f)
<1> DEFINE w == f.interval_width
           m == Abs(f.p50)
<1>1. w \in Nat /\ m \in Nat
  BY SMT DEF QuantileForecast, Abs
<1>2. NARROW_INTERVAL_RATIO * m <= HIGH_UNCERTAINTY_RATIO * m
  BY <1>1, ThresholdAssumption
<1>3. HIGH_UNCERTAINTY_RATIO * m \in Nat /\ NARROW_INTERVAL_RATIO * m \in Nat
  BY <1>1, ThresholdAssumption
<1>4. 100 * w > HIGH_UNCERTAINTY_RATIO * m
  BY DEF high_uncertainty
<1> HIDE DEF w, m
<1>5. w # 0 /\ ~(100 * w < NARROW_INTERVAL_RATIO * m)
  BY <1>1, <1>2, <1>3, <1>4
<1> QED
  BY <1>5 DEF narrow_interval, w, m

\* A shock that is no longer seen costs one tier at most, and makes no decision
\* routine that was not: what made it count is still elevated by itself.
THEOREM LostShockCostsOneTier ==
  ASSUME NEW q, NEW f \in QuantileForecast, NEW a \in BOOLEAN, NEW p \in Probability
  PROVE  LET seen   == synthesise(q, f, a, "shock", p).tier
             unseen == synthesise(q, f, a, "neutral", p).tier
         IN  /\ Severity(seen) <= Severity(unseen) + 1
             /\ unseen = "routine" => seen = "routine"
<1> DEFINE s == signals(f, a, "shock", p)
           t == signals(f, a, "neutral", p)
           h == high_uncertainty(f)
           high == p >= REVIEW_MIN_PROB
           others == OneIf(a) + OneIf(high) + OneIf(h)
<1>1. /\ s.stockout_probability = p /\ t.stockout_probability = p
      /\ s.forecast = f /\ t.forecast = f
      /\ s.anomaly_flag = a /\ t.anomaly_flag = a
      /\ s.macro_shock = TRUE /\ t.macro_shock = FALSE
      /\ s.missing_signal = FALSE /\ t.missing_signal = FALSE
  BY DEF signals
<1>2. OneIf(a) \in 0..1 /\ OneIf(high) \in 0..1 /\ OneIf(h) \in 0..1
  BY SMT DEF OneIf
<1>3. s.signal_count = others + 1 /\ t.signal_count = others
  <2>1. OneIf("shock" = "shock") = 1 /\ OneIf("neutral" = "shock") = 0
    BY DEF OneIf
  <2>2. /\ s.signal_count = OneIf(a) + OneIf("shock" = "shock") + OneIf(high) + OneIf(h)
        /\ t.signal_count = OneIf(a) + OneIf("neutral" = "shock") + OneIf(high) + OneIf(h)
    BY DEF signals
  <2> HIDE DEF s, t, h, high
  <2> QED
    BY <1>2, <2>1, <2>2
<1>4. /\ a /\ h => others >= 2
      /\ others >= 1 => a \/ high \/ h
  BY <1>2 DEF OneIf
<1>5. /\ synthesise(q, f, a, "shock", p).tier = evaluate_escalation(s)
      /\ synthesise(q, f, a, "neutral", p).tier = evaluate_escalation(t)
  BY DEF synthesise
<1>6. a \/ high \/ h => ~IsRoutine(t)
  <2>1. h => ~narrow_interval(f)
    BY UncertainIsNotNarrow
  <2>2. high => ~(p < ROUTINE_MAX_PROB)
    BY ThresholdAssumption DEF Probability
  <2> QED
    BY <1>1, <2>1, <2>2, Zenon DEF IsRoutine
<1>7. IsRoutine(s) <=> IsRoutine(t)
  BY <1>1, Zenon DEF IsRoutine
<1>8. IsCritical(s) => IsCritical(t) \/ (a /\ h)
  BY <1>1, Zenon DEF IsCritical
<1>9. IsReview(s) => IsReview(t) \/ s.signal_count >= 2
  BY <1>1, Zenon DEF IsReview
<1>10. others \in Int
  BY <1>2
<1>11. t.signal_count >= 2 => IsReview(t)
  BY DEF IsReview
<1> HIDE DEF s, t, h, high, others
<1>12. IsCritical(s) => IsCritical(t) \/ IsReview(t)
  BY <1>3, <1>4, <1>8, <1>11
<1>13. IsReview(s) => IsReview(t) \/ ~IsRoutine(t)
  BY <1>3, <1>4, <1>6, <1>9, <1>10
<1>14. IsCritical(s) \/ IsReview(s) => IsCritical(t) \/ IsReview(t) \/ ~IsRoutine(t)
  BY <1>12, <1>13
<1>15. IsCritical(t) => IsCritical(s)
  BY <1>1, Zenon DEF IsCritical, s, t
<1> QED
  BY <1>5, <1>7, <1>12, <1>13, <1>14, <1>15, SeverityValues DEF evaluate_escalation

\* An anomaly keeps a decision from ROUTINE, whatever else is read.
LEMMA AnomalyIsNotRoutine ==
  ASSUME NEW q, NEW f, NEW m, NEW p
  PROVE  synthesise(q, f, TRUE, m, p).tier # "routine"
BY DEF synthesise, evaluate_escalation, IsRoutine, signals

\* With a wide interval it is two signals, whatever the other two are.
LEMMA UncertainAnomalyIsEscalated ==
  ASSUME NEW q, NEW f, high_uncertainty(f), NEW m, NEW p
  PROVE  Severity("review") <= Severity(synthesise(q, f, TRUE, m, p).tier)
<1> DEFINE s == signals(f, TRUE, m, p)
           i == OneIf(m = "shock")
           j == OneIf(p >= REVIEW_MIN_PROB)
           k == OneIf(TRUE)
           l == OneIf(high_uncertainty(f))
<1>1. i \in 0..1 /\ j \in 0..1 /\ k = 1 /\ l = 1
  BY DEF OneIf
<1>2. s.signal_count = k + i + j + l
  BY DEF signals
<1>3. IsReview(s)
  <2> HIDE DEF s, i, j, k, l
  <2>1. s.signal_count >= 2
    BY <1>1, <1>2
  <2> QED
    BY <2>1 DEF IsReview
<1>4. evaluate_escalation(s) = "critical" \/ evaluate_escalation(s) = "review"
  BY <1>3, Zenon DEF evaluate_escalation
<1> DEFINE tier == synthesise(q, f, TRUE, m, p).tier
<1>5. tier = evaluate_escalation(s)
  BY DEF synthesise
<1>6. tier = "critical" \/ tier = "review"
  BY <1>4, <1>5, Zenon
<1> HIDE DEF tier
<1>7. Severity("review") <= Severity(tier)
  BY <1>6, SeverityValues
<1> QED
  BY <1>7 DEF tier

\* The tier reads the spread relative to the median: a forecast scaled by two
\* yields the same decision.
THEOREM SynthesisScales ==
  ASSUME NEW q, NEW f \in QuantileForecast, NEW a, NEW m, NEW p
  PROVE  synthesise(q, [p50 |-> 2 * f.p50, interval_width |-> 2 * f.interval_width], a, m, p)
           = synthesise(q, f, a, m, p)
<1> DEFINE g == [p50 |-> 2 * f.p50, interval_width |-> 2 * f.interval_width]
           w == f.interval_width
           n == Abs(f.p50)
<1>1. /\ w \in Nat /\ n \in Nat
      /\ g.interval_width = 2 * w
      /\ Abs(g.p50) = 2 * n
  BY SMT DEF QuantileForecast, Abs
<1>2. ASSUME NEW r \in Nat
      PROVE  /\ 100 * (2 * w) > r * (2 * n) <=> 100 * w > r * n
             /\ 100 * (2 * w) < r * (2 * n) <=> 100 * w < r * n
  <2>1. r * (2 * n) = 2 * (r * n) /\ r * n \in Nat
    BY <1>1
  <2> HIDE DEF w, n
  <2> QED
    BY <1>1, <2>1
<1>3. high_uncertainty(g) = high_uncertainty(f)
  <2>1. /\ high_uncertainty(g) = (100 * (2 * w) > HIGH_UNCERTAINTY_RATIO * (2 * n))
        /\ high_uncertainty(f) = (100 * w > HIGH_UNCERTAINTY_RATIO * n)
    BY <1>1, Zenon DEF high_uncertainty
  <2> QED
    BY <1>2, <2>1, ThresholdAssumption
<1>4. narrow_interval(g) = narrow_interval(f)
  <2>1. /\ narrow_interval(g) = (2 * w = 0 \/ 100 * (2 * w) < NARROW_INTERVAL_RATIO * (2 * n))
        /\ narrow_interval(f) = (w = 0 \/ 100 * w < NARROW_INTERVAL_RATIO * n)
    BY <1>1, Zenon DEF narrow_interval
  <2>2. 2 * w = 0 <=> w = 0
    BY <1>1
  <2> QED
    BY <1>2, <2>1, <2>2, ThresholdAssumption
<1> HIDE DEF g
<1> DEFINE s == signals(g, a, m, p)
           t == signals(f, a, m, p)
<1>5. /\ s.stockout_probability = t.stockout_probability
      /\ s.anomaly_flag = t.anomaly_flag
      /\ s.macro_shock = t.macro_shock
      /\ s.missing_signal = t.missing_signal
      /\ s.signal_count = t.signal_count
      /\ s.forecast = g /\ t.forecast = f
  BY <1>3 DEF signals
<1>6. evaluate_escalation(s) = evaluate_escalation(t)
  <2> HIDE DEF s, t
  <2>1. (IsCritical(s) <=> IsCritical(t)) /\ (IsReview(s) <=> IsReview(t)) /\ (IsRoutine(s) <=> IsRoutine(t))
    BY <1>3, <1>4, <1>5, Zenon DEF IsCritical, IsReview, IsRoutine
  <2> QED
    BY <2>1, Zenon DEF evaluate_escalation
<1> QED
  BY <1>6, Zenon DEF synthesise, g
=============================================================================
