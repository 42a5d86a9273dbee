------------------------------ MODULE Pipeline ------------------------------
(***************************************************************************)
(* The framework-agnostic runner, orchestration/portable.py: the five      *)
(* agents one after the other, a failure of any of the first four being a  *)
(* missing signal.  It is a function of what the agents give for a         *)
(* request, NoValue standing for one that raises.                          *)
(***************************************************************************)
EXTENDS Supervisor

CONSTANTS
  Ported,     \* the requests that name at least one port
  NoValue     \* Python's None, and an agent that raises

ASSUME PipelineAssumption ==
  /\ Ported \subseteq Request
  /\ NoValue \notin Request
  /\ NoValue \notin QuantileForecast
  /\ NoValue \notin BOOLEAN
  /\ NoValue \notin RegimeLabel
  /\ NoValue \notin Probability
  /\ NoValue \notin SupervisorDecision

Opt(S) == S \cup {NoValue}

\* Any agent that is reached raises.
SomeRaises(x) == NoValue \in {x.forecast, x.anomaly, x.macro, x.stockout}

\* Mutant: a macro agent that raises counts as a neutral regime.
run_pipeline_neutral(x) ==
  IF NoValue \in {x.forecast, x.anomaly, x.stockout}
    THEN escalate_missing(x.request)
    ELSE synthesise(x.request, x.forecast, x.anomaly,
                    IF x.macro = NoValue THEN "neutral" ELSE x.macro, x.stockout)

run_pipeline(x) ==
  IF SomeRaises(x)
    THEN escalate_missing(x.request)
    ELSE synthesise(x.request, x.forecast, x.anomaly, x.macro, x.stockout)
=============================================================================
