------------------------------ MODULE EvalGate ------------------------------
(***************************************************************************)
(* The evaluation harness and the release gate: every golden case is       *)
(* decided several times, the first tier is compared with the expected one *)
(* and the repeats with each other, and the scores let a release through   *)
(* or not.                                                                 *)
(*                                                                         *)
(* The harness takes its decision function as a parameter.  The gate runs  *)
(* it over the disruption replay, whose agents are the real ones with      *)
(* scripted models; any other bundle may decide anything, and differently  *)
(* each time.  The requests are the names of the golden cases.             *)
(***************************************************************************)
EXTENDS Specialists, FiniteSets

CONSTANTS
  repeats,              \* how often a case is decided
  min_reproducibility,  \* in percent
  min_accuracy

ASSUME EvalAssumption ==
  /\ repeats \in Nat \ {0}
  /\ min_reproducibility \in Nat
  /\ min_accuracy \in Nat

\* The scripted readings of the disruption replay: the three quantiles, the
\* anomaly flag, the consumer sentiment of the macro row, the probability.
disruption_cases ==
  << [name |-> "baseline", quantiles |-> <<98, 100, 104>>, flag |-> FALSE,
      sentiment |-> NoValue, prob |-> 10, expected_tier |-> "routine"],
     [name |-> "covid", quantiles |-> <<80, 120, 180>>, flag |-> TRUE,
      sentiment |-> 40, prob |-> 90, expected_tier |-> "critical"],
     [name |-> "suez_2021", quantiles |-> <<90, 100, 115>>, flag |-> TRUE,
      sentiment |-> NoValue, prob |-> 60, expected_tier |-> "review"],
     [name |-> "red_sea_2024", quantiles |-> <<60, 100, 140>>, flag |-> TRUE,
      sentiment |-> 40, prob |-> 50, expected_tier |-> "critical"] >>

CaseCount == Len(disruption_cases)

\* Mutant: the forecast is collapsed to a point estimate.
scripted_forecast_point(q) == [p50 |-> q[2], interval_width |-> 0]

scripted_forecast(q) == [p50 |-> q[2], interval_width |-> q[3] - q[1]]

scenario_decision_fn(case) ==
  run_pipeline(
    [ request  |-> case.name,
      forecast |-> scripted_forecast(case.quantiles),
      anomaly  |-> case.flag,
      macro    |-> assess_macro([x \in {"consumer_sentiment"} |-> case.sentiment]),
      stockout |-> case.prob ])

-----------------------------------------------------------------------------
VARIABLES
  scripted,       \* the decision function is the disruption replay's
  results,        \* how many cases have their result
  matched,        \* how many of them matched their expected tier
  reproducible,   \* how many of them were reproducible
  missed,         \* history: some call did not give its case's tier
  gate            \* "open" while cases are left, then "PASS" or "FAIL"

evalVars == <<scripted, results, matched, reproducible, missed, gate>>

EvalTypeOK ==
  /\ scripted \in BOOLEAN
  /\ results \in 0..CaseCount
  /\ matched \in 0..results
  /\ reproducible \in 0..results
  /\ missed \in BOOLEAN
  /\ gate \in {"open", "PASS", "FAIL"}
  /\ gate # "open" => results = CaseCount

EvalInit ==
  /\ scripted \in BOOLEAN
  /\ results = 0
  /\ matched = 0
  /\ reproducible = 0
  /\ missed = FALSE
  /\ gate = "open"

\* Mutant: only the last tier is compared with the first.
CaseResult_last(tiers) ==
  [observed |-> tiers[1], reproducible |-> tiers[repeats] = tiers[1]]

CaseResult(tiers) ==
  [observed |-> tiers[1], reproducible |-> \A i \in 1..repeats : tiers[i] = tiers[1]]

\* One round of the loop of run_routing_eval, all its calls of the decision
\* function at once: nothing else reads or writes what they do.
run_routing_eval ==
  LET case == disruption_cases[results + 1] IN
  /\ results < CaseCount
  /\ \E tiers \in [1..repeats -> EscalationTier] :
       LET result == CaseResult(tiers) IN
       /\ scripted => \A i \in 1..repeats : tiers[i] = scenario_decision_fn(case).tier
       /\ matched' = matched + OneIf(result.observed = case.expected_tier)
       /\ reproducible' = reproducible + OneIf(result.reproducible)
       /\ missed' = (missed \/ \E i \in 1..repeats : tiers[i] # case.expected_tier)
  /\ results' = results + 1
  /\ UNCHANGED <<scripted, gate>>

passes_gate ==
  /\ 100 * reproducible >= min_reproducibility * CaseCount
  /\ 100 * matched >= min_accuracy * CaseCount

\* Mutant: the gate is asked before the last case is in.
main_early ==
  /\ gate = "open"
  /\ results >= CaseCount - 1
  /\ gate' = IF passes_gate THEN "PASS" ELSE "FAIL"
  /\ UNCHANGED <<scripted, results, matched, reproducible, missed>>

main ==
  /\ gate = "open"
  /\ results = CaseCount
  /\ gate' = IF passes_gate THEN "PASS" ELSE "FAIL"
  /\ UNCHANGED <<scripted, results, matched, reproducible, missed>>

EvalNext == run_routing_eval \/ main

EvalSpec == EvalInit /\ [][EvalNext]_evalVars

-----------------------------------------------------------------------------
\* The gate lets a release through only if no call of any golden case missed
\* its tier, although it looks at the first tier of each alone and asks for
\* 95% reproducibility (passes_gate).  From twenty cases on that is one case
\* that may be flaky, and no longer true.
PassMeansNoMiss == gate = "PASS" => ~missed

\* The code passes its own gate: over the macro tool, the pipeline, the
\* signals and the policy, every disruption of the replay gets the tier its
\* case expects (scenario_decision_fn).
ReplayPasses == scripted => gate # "FAIL"
=============================================================================
