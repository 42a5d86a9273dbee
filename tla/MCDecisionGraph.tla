--------------------------- MODULE MCDecisionGraph ---------------------------
(***************************************************************************)
(* Instances of DecisionGraph for TLC: the values of the constants that a  *)
(* .cfg cannot spell.                                                      *)
(***************************************************************************)
EXTENDS DecisionGraph, TLC

\* A narrow and a highly uncertain interval around the same median, and one
\* between the two thresholds.
NarrowForecast    == [p50 |-> 20, interval_width |-> 1]
MiddlingForecast  == [p50 |-> 20, interval_width |-> 6]
UncertainForecast == [p50 |-> 20, interval_width |-> 30]

AllForecasts == {NarrowForecast, MiddlingForecast, UncertainForecast}
OneForecast  == {NarrowForecast}

Symmetry == Permutations(Run) \cup Permutations(Delivery)
=============================================================================
