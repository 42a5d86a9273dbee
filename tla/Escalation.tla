----------------------------- MODULE Escalation -----------------------------
(***************************************************************************)
(* The deterministic escalation policy, governance/escalation.py: a pure   *)
(* function from the conjoint signals of one decision to one of four       *)
(* tiers, and the rule that only the two lower tiers may act without a     *)
(* planner.                                                                *)
(*                                                                         *)
(* Probabilities are whole percents, so that every threshold the code      *)
(* compares with (0.30, 0.55, 0.75) and both of its neighbours are         *)
(* representable.  The uncertainty ratio is kept as the two numbers it is  *)
(* the quotient of, because neither comparison with a threshold survives   *)
(* rounding the quotient.                                                  *)
(***************************************************************************)
EXTENDS Integers

CONSTANTS
  ROUTINE_MAX_PROB,        \* 30 in the code
  REVIEW_MIN_PROB,         \* 55
  CRITICAL_MIN_PROB,       \* 75
  NARROW_INTERVAL_RATIO,   \* 20
  HIGH_UNCERTAINTY_RATIO   \* 50

\* The thresholds are tunable; only their order is relied upon.
ASSUME ThresholdAssumption ==
  /\ ROUTINE_MAX_PROB \in Nat
  /\ REVIEW_MIN_PROB \in Nat
  /\ CRITICAL_MIN_PROB \in Nat
  /\ NARROW_INTERVAL_RATIO \in Nat
  /\ HIGH_UNCERTAINTY_RATIO \in Nat
  /\ ROUTINE_MAX_PROB <= REVIEW_MIN_PROB
  /\ REVIEW_MIN_PROB <= CRITICAL_MIN_PROB
  /\ NARROW_INTERVAL_RATIO <= HIGH_UNCERTAINTY_RATIO

Probability == 0..100
EscalationTier == {"routine", "monitor", "review", "critical"}

\* A forecast as the policy sees it: the median and the P90 - P10 width.
QuantileForecast == [p50 : Int, interval_width : Nat]

EscalationSignals ==
  [ stockout_probability : Probability,
    forecast             : QuantileForecast,
    anomaly_flag         : BOOLEAN,
    macro_shock          : BOOLEAN,
    signal_count         : 0..4,
    missing_signal       : BOOLEAN ]

-----------------------------------------------------------------------------
\* width / max(|p50|, 1e-9) against a percentage.  With a zero median the
\* quotient is zero for a zero width and beyond every threshold otherwise.
Abs(n) == IF n < 0 THEN -n ELSE n

narrow_interval(f) ==
  \/ f.interval_width = 0
  \/ 100 * f.interval_width < NARROW_INTERVAL_RATIO * Abs(f.p50)

high_uncertainty(f) ==
  100 * f.interval_width > HIGH_UNCERTAINTY_RATIO * Abs(f.p50)

-----------------------------------------------------------------------------
\* The four bands of evaluate_escalation, in the order of its branches; the
\* monitor band and the lone anomaly fall together with the default branch.
IsCritical(s) ==
  \/ s.missing_signal
  \/ s.stockout_probability > CRITICAL_MIN_PROB
  \/ s.anomaly_flag /\ s.macro_shock /\ high_uncertainty(s.forecast)

\* Mutant: the lower end of the review band is left out.
IsReview_open(s) ==
  \/ /\ REVIEW_MIN_PROB < s.stockout_probability
     /\ s.stockout_probability <= CRITICAL_MIN_PROB
  \/ s.signal_count >= 2

IsReview(s) ==
  \/ /\ REVIEW_MIN_PROB <= s.stockout_probability
     /\ s.stockout_probability <= CRITICAL_MIN_PROB
  \/ s.signal_count >= 2

\* Mutant: an anomaly is taken for covered by the signal count.
IsRoutine_anomalous(s) ==
  /\ s.stockout_probability < ROUTINE_MAX_PROB
  /\ narrow_interval(s.forecast)

IsRoutine(s) ==
  /\ s.stockout_probability < ROUTINE_MAX_PROB
  /\ narrow_interval(s.forecast)
  /\ ~s.anomaly_flag

evaluate_escalation(s) ==
  IF IsCritical(s) THEN "critical"
  ELSE IF IsReview(s) THEN "review"
  ELSE IF IsRoutine(s) THEN "routine"
  ELSE "monitor"

AutonomousTier(tier) == tier \in {"routine", "monitor"}

-----------------------------------------------------------------------------
\* How grave a tier is: the order in which the branches take precedence.
Severity(tier) ==
  CASE tier = "routine"  -> 0
    [] tier = "monitor"  -> 1
    [] tier = "review"   -> 2
    [] tier = "critical" -> 3
=============================================================================
