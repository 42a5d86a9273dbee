-------------------------------- MODULE Drift --------------------------------
(***************************************************************************)
(* Drift detection, monitoring/drift.py: from a window of predictions with *)
(* their observed outcomes to whether the models count as degraded.        *)
(*                                                                         *)
(* A window pairs each prediction with its outcome, the zip of the code    *)
(* (which raises on sequences of different lengths).  Scores are kept as   *)
(* the numbers they are the quotient of, and relative errors as whole      *)
(* numbers over a common denominator.                                      *)
(***************************************************************************)
EXTENDS Sums, FiniteSets

CONSTANTS
  max_mape,   \* in percent, 20 in the code
  min_f1,     \* 70
  Scale       \* a common multiple of the actual demands

ASSUME DriftAssumption ==
  /\ max_mape \in Nat
  /\ min_f1 \in 0..100
  /\ Scale \in Nat \ {0}

\* A window: demand with its forecast per period, and stockout events with
\* what the classifier said of them.
Pair(S) == [actual : S, predicted : S]

Error(p) ==
  IF p.actual < p.predicted THEN p.predicted - p.actual ELSE p.actual - p.predicted

\* |(a - p) / a| in units of 1 / Scale, where there was demand.
RelativeError(p) ==
  IF p.actual = 0 THEN 0 ELSE (Scale * Error(p)) \div p.actual

\* Mutant: the mean is taken over the periods that were mispredicted.
mape_degraded_of_errors(demand) ==
  100 * Total([i \in DOMAIN demand |-> RelativeError(demand[i])])
    > max_mape * (Scale * Cardinality({i \in DOMAIN demand : RelativeError(demand[i]) # 0}))

\* rolling_mape against its threshold: the mean over the periods of non-zero
\* demand.
mape_degraded(demand) ==
  100 * Total([i \in DOMAIN demand |-> RelativeError(demand[i])])
    > max_mape * (Scale * Cardinality({i \in DOMAIN demand : demand[i].actual # 0}))

Count(events, actual, predicted) ==
  Cardinality({i \in DOMAIN events :
                 events[i] = [actual |-> actual, predicted |-> predicted]})

\* Mutant: F1 is one where it is undefined.
rolling_f1_defined(tp, fp, fn) ==
  IF tp + fp + fn = 0 THEN <<1, 1>> ELSE <<2 * tp, 2 * tp + fp + fn>>

\* 2 P R / (P + R) as a quotient of counts; zero without a true positive.
rolling_f1(tp, fp, fn) ==
  IF tp = 0 THEN <<0, 1>> ELSE <<2 * tp, 2 * tp + fp + fn>>

f1_degraded(events) ==
  LET f1 == rolling_f1(Count(events, 1, 1), Count(events, 0, 1), Count(events, 1, 0))
  IN  100 * f1[1] < min_f1 * f1[2]

\* What the cycle is called with has a prediction for each outcome.
assess_drift(window) == mape_degraded(window.demand) \/ f1_degraded(window.events)

-----------------------------------------------------------------------------
Corrected(pairs, i) == [pairs EXCEPT ![i].predicted = pairs[i].actual]

Corrections(window) ==
  {[window EXCEPT !.demand = Corrected(@, i)] : i \in DOMAIN window.demand}
    \cup {[window EXCEPT !.events = Corrected(@, i)] : i \in DOMAIN window.events}

IsExact(pairs) == \A i \in DOMAIN pairs : pairs[i].predicted = pairs[i].actual
=============================================================================
