# Verification of the Supply Chain Resilience Co-Pilot

TLA+ modules of the co-pilot under `packages/scrc` and `pipelines`, the TLC
configurations that check them on small instances, and theorems that TLAPS
checks for every value of the constants. Paths below are relative to
`packages/scrc` unless they begin with `pipelines` or `docs`.

## 1. The system

A client posts a decision request for a SKU, a store, a horizon and some ports.
Three specialist agents read the feature store and their models in parallel, a
fourth combines them into a stockout probability, and the Supervisor maps the
joint signals to one of four tiers. The two milder tiers may act by themselves,
after the decision has been written to an audit store; the others pause until a
planner answers. Around this core stand a circuit breaker, the data pipelines
that fill the feature store, a second orchestration of the same agents, and an
evaluation harness that gates releases.

### Inventory

| Component | State it keeps | Operations | What it touches | What is hard | What makes it correct |
|---|---|---|---|---|---|
| Escalation policy, `governance/escalation.py` | none | `evaluate_escalation` | called by the Supervisor | boundaries, order of the branches | gravest row of the policy table wins; monotone |
| Supervisor, `agents/supervisor.py` | none | `synthesise`, `escalate_missing`, `build_review_request` | policy, language model | the same threshold in two modules; a model that raises | an autonomous decision is reversible; a missing signal escalates |
| Specialists, `agents/`, `tools/`, `app/feast_provider.py` | none | `run` of each | feature store, endpoint, two models | nulls, malformed answers, defaults | the loss of a source never eases the tier, a lost macro row excepted |
| Decision graph, `orchestration/graph.py`, `runner.py` | the channels of a thread, its checkpoint | the nodes, `start_decision`, `resume_decision` | all agents, audit store, registry | fan-out and join, failures, pause and replay, restarts | no audit no autonomy; human gate; every request answered |
| HTTP surface, `api/app.py` | none | two POST handlers | the graph | repeated and overlapping calls | an outcome belongs to the call that named its thread |
| Audit gate, `governance/audit.py`, `observability/audit_mlflow.py` | the audit store | `enforce_audit`, `log_decision` | the graph | a write that fails after it has recorded | a decision only loses autonomy |
| Rollback registry, `governance/rollback.py` | entries of the process | `register_reversible_actions` | the graph | lost at a restart | registered before the client is told |
| Breaker, `governance/breaker.py` | failure count, time of the trip | `call`, `is_open`, `call_with_timeout` | wraps an agent, not wired yet | unlocked state shared by threads; a timeout that waits | no due trip is lost; it half-opens, and only a call from before the trip closes it early |
| Port to the Agent Framework, `orchestration/maf/workflow.py` | messages under way | executors | the same agents | order of arrival, no join over a missing value | agrees with `orchestration/portable.py` |
| Feature pipelines, `pipelines/` | parquet files, online store, windows | three ingest DAGs, one materialisation | Airflow, Feast | no order between them, files replaced in place | only validated rows; fresh after good days |
| Evaluation gate, `eval/` | the results so far | `run_routing_eval`, `passes_gate` | specialists, pipeline, policy | flaky decisions | a passed gate hides no miss |
| Monitoring and registry, `monitoring/`, `ml/registry.py` | model versions, an alias | drift, retraining, promotion | model files | a comparison made long before the alias moves, overlapping cycles, undefined scores | an automatic promotion improves; better predictions never retrain |
| Start of the service, `app/composition.py`, `app/production.py`, `app/model_store.py` | the models it loaded | `build_app` | artifact directory, environment | an alias that nothing follows once the models are loaded | comes up only with what its profile needs |
| Metrics, `observability/metrics.py` | a lazily built registry | `record_decision` | every run | unlocked initialisation by two threads | an error answer leaves no action behind |

`PROJECT.json` has the same list with what is left out of each part, and under
"hazards" what is hard to test, each at its line and with the properties for it.

## 2. The modules

```
Escalation <- Supervisor <- Pipeline <- DecisionGraph <- MCDecisionGraph   (implements GovernedDecision)
                   ^           ^  ^          ^---------- DecisionGraphProofs
                   |           |  |-- MafWorkflow <- MCMafWorkflow, MafWorkflowProofs
                   |           |-- Specialists <- MCSupervisor <- MCSupervisorProofs
                   |                    ^----- EvalGate --+
                   |     Drift <- ModelLifecycle ---------+-> Release <- MCRelease, ReleaseProofs
                   |-------- SupervisorProofs <- DecisionGraphProofs, MafWorkflowProofs, MCSupervisorProofs
Sums <- Specialists, Drift            Sums <- SumLemmas <- MCSupervisorProofs, ReleaseProofs
Breaker <- BreakerProofs              Features <- MCFeatures, FeaturesProofs
```

**Escalation** is `evaluate_escalation`. Probabilities are whole percents, so
that each threshold and both its neighbours exist; the uncertainty ratio stays a
pair of numbers because its comparisons do not survive rounding. The thresholds
are constants of which only the order is assumed.

**Supervisor** is the signals, the proposed actions and the stamped decision. A
request stands for its hash. Ranks, rationale and wording are left out, and so
is the difference between the three regimes that are not a shock.

**DecisionGraph** has one run per thread id. `pc` is the node the last
checkpoint leads to, `request` to `human` are the channels of `GraphState`. Each
node is an action (`demand_node`, `logistics_node`, `macro_node`,
`stockout_node`, `supervisor_node`, `review_node`); `audit_node` is cut in two
where the registry begins (`register_reversible_actions`), because a process can
die in between. A specialist returns a value or None. An audit write succeeds,
raises, or raises after it has recorded. A resume call loads the thread
(`resume_decision`, `resume_ended`, `resume_unknown`) and finishes later
(`resume_finish`, `resume_raises`), so two can overlap on one thread. `Crash`
empties the process: the registry, the threads that no durable checkpointer
holds, and the calls that were waiting. The audit store survives, as the MLflow
server does. The field `run` of records and entries is the model's own. Between
the write and the registration stands `record_decision`, which counts the
decision: where the metrics registry is still unset (`registry_unset`), the
thread builds it (`build_registry`), and one that finds it built by another in
the meantime registers a duplicate counter and raises (`build_registry_raises`).

**GovernedDecision** is what the system promises, with nothing of how: open,
trace, act; or escalate, resolve; or close. `GovernedSpec` of DecisionGraph is
its specification under a refinement mapping from program counters and answers
to phases.

**Pipeline** is `run_pipeline`, a function of what the agents give, and the
reference both orchestrations are compared with: the graph by GraphAgrees, the
port by PortAgrees. **Sums** is Python's `sum`, a recursive function over the
prefixes of a sequence, so that what it computes can be proved.
**Specialists** is what the agents give, from the rows of the online store and
the endpoint's answer: nulls are dropped, a model refuses an incomplete row, an
answer is refused when a quantile is missing, lengths differ or totals cross.
The stockout agent joins what the three others said with the base row
(`assemble_features`), and the classifier reads the whole vector. What the forest
and the booster compute of a complete row is an input, the booster's for the
vector at hand.
**MCSupervisor** walks over the states of the world, each step making one thing
worse; where that changes the classifier's vector (the interval, the anomaly, the
regime), its probability may become any other one in the same step.

**MafWorkflow** is the port: executors send tagged messages, the fan-in waits
for three of them, an executor that raises fails the workflow.

**Breaker** has one action per stretch between two thread switches of
`CircuitBreaker.call`, `is_open`, `_record_failure`, `_reset` and of the `with`
block of `call_with_timeout`. CPython switches at calls, and not between the
plain loads and stores of these methods. `users` is the set of callers that
share it, one or several. Time is the age of the trip. `early` is a history variable: the calls
that were under way when the breaker tripped.

**Features** has, per view, the run of its ingest DAG, the parquet file and the
online row, and the one materialisation DAG. Timestamps are ages in days: a row
stamped at today's midnight has age 0. The window of `materialize-incremental` ends
at midnight of the logical date, which is yesterday, and begins where the last one
ended; Feast's file store reads the rows from its start on and strictly before its
end, so that the newest row it takes has age 2 (`NewestRow`, `InWindow`). What
`scrc.data` builds is not in the repository: a frame is valid or not, and its
newest row is as far behind as `Lag` allows.

**EvalGate** is the harness over the disruption replay, or over any other
decision function, and the gate.

**Drift** is `assess_drift` on a window of predictions with their outcomes, its
scores kept as quotients: a relative error is an integer in units of one over
`Scale`, a number every actual demand of the windows divides, so that the sum of
`rolling_mape` is exact. **ModelLifecycle** is what follows from it. A cycle is
one call of `MonitoringAgent.run`: it is called with a window and the score of
the version in production then (`schedule`), finds drift or none (`run_degraded`,
`run_healthy`), searches and compares (`run_ends`) or raises (`run_raises`).
What its caller does with the outcome is in the docstrings only and marked
external: it registers the candidate (`log_and_register`), promotes it or waits
for approval; an operator may flip the alias back; a deployment brings a
version to `SCRC_MODEL_DIR` (`materialise`), any one, because nothing in the
repository ties that directory to the alias; the service loads what is
there when it starts (`build_production_graph`; `from_env_raises` and
`load_raises` are its failures, `build_demo_bundle` the demo profile). Cycles
overlap, since an approval may take days. **Release** puts the two in order: what the gate lets
through is deployed, and only then has the model its life (ADR-0007).

A definition whose name ends in a suffix after that of another (`IsReview_open`,
`NewestRow_late`) and whose comment begins with "Mutant" is that definition
with a plausible bug. No specification uses it; each was put in place of the
original, and the property it is listed with in `PROJECT.json` failed.

## 3. The runs

Passing runs:

| Run | Question | Bounds |
|---|---|---|
| `supervisor_table` | Does the decision follow the policy table of PRD 6.3 (`GravestRowWins`), only ever act reversibly (`AutonomyIsReversible`), and never ease as the world worsens while the classifier does not answer a lower probability (`TierNeverEases`)? A lost macro row is the exception: what is left of the decision then (`LostRegimeKeepsTheRest`)? | every threshold with both neighbours; medians negative, zero, tiny, usual; six kinds of answer; any subset of the freight columns; one lost source at a time, because a second changes nothing |
| `decision_data` | What does a decision rest on (`AutonomyNeedsFullPicture`), is it the framework-free runner's on the same agent results, less the autonomy its audit did not leave it (`GraphAgrees`), what may it do, what may change it later, and is it always answered (`EveryRunIsAnswered`)? | demo profile, in-memory checkpoints; one run over four probabilities, one per band, and three forecasts, one per side of both ratios; two resume calls; a restart |
| `decision_concurrent` | Do the gates hold under interleaving, failure and restart, is nothing done for a client that was told of an error (`ErrorMeansNoAction`), is one told of an error before a restart only over a failing language model or a lost race for the metrics (`OnlyModelOrRaceRefuses`), and does the graph implement GovernedDecision? | durable checkpoints, which a caller of `build_production_graph` may pass and nothing in the repository does, and a language model; two runs, so that both are in `_registry` at once, two calls, a restart; one autonomous and one escalated probability, because the gates look at the flag only; symmetric in runs and calls |
| `breaker` | Does the breaker keep its word, shared or not? | two callers, threshold 2, window of 2 ticks: one failure below the threshold, one age inside the window |
| `maf_port` | Does the port agree with the reference in every order (`PortAgrees`), fail only where it escalates (`FailsOnlyWhereEscalated`) and always end (`PortAnswers`)? | every subset of raising agents, a request with and one without ports, two forecasts, four bands |
| `features_daily` | Are only validated rows served (`OnlineIsValidated`), does an older row never replace a newer one (`NeverStepsBack`), and does the store recover in two good days whatever failed or came late before (`FreshAfterGoodDays`)? | two views, one whose ttl is longer than a daily window and one whose is shorter; sources one day behind, as punctual ones are, or four, beyond the three days FreshAfterGoodDays allows; an age that saturates at 6 |
| `eval_gate` | Does a passed gate hide a miss (`PassMeansNoMiss`), does the code pass its own gate (`ReplayPasses`), does an automatic promotion improve (`AutoPromotionImproves`), and do only worse predictions, or quiet windows, retrain (`CorrectionHeals`, `ExactWindowRetrainsIfQuiet`)? | the four golden cases, three repeats instead of five: a first, a middle and a last; two cycles, three versions: one in production and one of each cycle; two scores just the margin apart; windows at, above and below each threshold, with a period without demand and one without stockouts |

Deadlock is not checked where the system may rest: all runs ended, a port that
has answered, the gate decided, a world that cannot become worse.

Violation runs, each a disagreement between the code and a sentence of the
repository:

| Run | The repository says | The code does |
|---|---|---|
| `retry_acts_once` | docs/architecture.md:775: idempotency keys, a retried run cannot double-act | a repeated request is a new thread with new entry ids; one action of one decision is registered twice |
| `reviewed_is_logged` | `governance/audit.py:94`: the review workflow logs an escalated decision whose write failed | nothing writes to the audit store after the gate |
| `llm_failure_refuses` | `llm/azure.py:4`: the caller degrades to the deterministic brief | `build_review_request` lets the exception through and the client gets an error |
| `timeout_waits` | `governance/breaker.py:26`: the worker is abandoned on timeout | leaving the executor's `with` block joins it |
| `features_lagging` | `pipelines/airflow_dags/materialize_features_dag.py:3`: runs after the three ingest DAGs | depends on none of them; with a source two days behind, the refreshed row misses its window for good |

### Fairness

`RunStep` and `CallStep` are weakly fair: the server goes on executing calls it
has accepted. This takes it that an agent a node has called returns or raises in
the end; the forecast client has a timeout of 60 seconds, the models are local,
and for the others nothing in the code enforces it (the breaker, which would, is
not wired). Nothing makes a
client submit, a planner decide, or a process crash. In Breaker the callers'
threads run and time passes, and no agent is made to return: `worker_ends` has no
fairness, so HalfOpens holds although agents hang, and `timeout_waits` is a
violation under the same fairness. The Agent Framework delivers its messages
(MafWorkflow). The other runs check safety only.

### Abstractions to keep in mind

- Of the metrics only the first call of `record_decision` is kept, which may
  raise; what is counted is not. Other `record_*` calls find the registry built.
- The error list of the graph state is left out: nothing reads it.
- A lost macro row is classified as NEUTRAL, which hides a shock from the policy
  and gives the classifier another vector: TierNeverEases leaves out that step, and
  LostRegimeKeepsTheRest says what an anomaly and a wide interval still count for.
- The booster is not monotone, and nothing in the code makes it so. A wider
  interval or an anomaly may lower its probability, and then the tier may ease:
  TierNeverEases is about the steps where it does not.
- That a window of the file store is half open is known of Feast and not of the
  repository. The end of the window is in the DAG, its first start in the ttl.
- A run of a DAG is taken to end within its day, and a run that was not started
  is not made up for (`catchup=False`).
- The harness takes its cases in a fixed order; the model in any.
- What makes the `is_open` of a *shared* breaker raise (a reset between its two
  readings) and takes its failure count away (the success of another trial) does
  happen: AnswersBool and FailedTrialReopens are claimed of an unshared breaker.
- The lifecycle has one model, the stockout classifier that is retrained; the
  directory with its two artifacts is filled in one step. A candidate and the
  version that was logged with its score are taken for the same model.
- AutoPromotionImproves speaks of a promotion over the version its cycle was
  called about. When the alias has moved meanwhile the candidate may be worse
  than what it replaces: the code compares once, before the search.

## 4. The proofs

All are checked by TLAPS for every value of the constants that satisfies the
named assumptions, which TLC evaluates in the runs: ThresholdAssumption (order
of the thresholds), GraphAssumption, PipelineAssumption, NoValueAssumption and
PortAssumption (subsets; None is no value), AnswerAssumption (None is neither a
number, nor an array, nor an answer), WorldAssumption (probabilities are percents, medians
integers, widths natural numbers, faults those of the model), BreakerAssumption
(a positive threshold), FeatureAssumption (ages that reach past the windows),
EvalAssumption (a case is decided at least once), DriftAssumption and
LifecycleAssumption (scores are percents; a window is two sequences of any
length, and each of its non-zero demands divides `Scale`).

Five theorems have hypotheses of their own, each true of the code's values:
PassMeansNoMissHolds (thresholds that forgive no case), ReplayPassesHolds and
GravestRowWinsHolds (the thresholds of `governance/escalation.py` and
`agents/supervisor.py`, because the golden cases and PRD 6.3 name those numbers),
LostRegimeKeepsTheRestHolds (the ratio for a wide interval, the property's own
number), ExactWindowRetrainsIfQuietHolds (an F1 threshold that is not zero: no
score is below zero). AloneAnswers and
AloneReopens are of an unshared breaker, as the properties say themselves.

- **SumLemmas**: what the other modules use of `Total`: it exists, unfolds, is an
  integer, is monotone in its terms, and the total of a concatenation is the sum
  of the totals. The library's induction theorems take an operator as parameter,
  which the provers cannot instantiate; PrefixInduction has a *set* of prefixes
  instead, and rests on LeastNumber, that a non-empty set of natural numbers has
  a least element. What a fold computes for sequences of any length can be
  proved that way.
- **SupervisorProofs**: EscalationMonotone and SynthesisMonotone, no worse
  evidence gives a milder tier; AutonomousActionsAreReversible;
  MissingIsCritical; AutonomyCharacterised, a decision is autonomous exactly
  below the review band with at most one elevated signal; LostShockCostsOneTier;
  SynthesisScales, the tier reads the spread relative to the median. Case
  analysis over linear arithmetic.
- **MCSupervisorProofs** goes from the raw rows and answers to the decision.
  ForecastType: whatever is malformed misses, and what is parsed satisfies its
  contract. With it, WorldInv (the type of the world) gives each reading its
  type, and the results of SupervisorProofs carry over:
  AutonomyIsReversibleHolds; GravestRowWinsHolds, where the policy table is
  written with the totals of the answer and the policy with counted signals;
  TierNeverEasesHolds, from SynthesisMonotone where evidence worsens and from
  MissingIsCritical where a source is lost; LostRegimeKeepsTheRestHolds, from
  AnomalyIsNotRoutine and UncertainAnomalyIsEscalated at whatever probability and
  from LostShockCostsOneTier at one that is no lower. TwiceIsParsed, from
  TotalConcat, with SynthesisScales: at one probability the policy does not see
  that an answer stops at half the horizon. The classifier, which reads the sums,
  may.
- **DecisionGraphProofs**: TypeCorrect, then GovernCorrect, `Spec => []GraphInv`,
  with NoAuditNoAutonomyHolds, HumanGateHolds, OutcomeIsThePlannersHolds,
  ErrorMeansNoActionHolds and UndoableWhenCompletedHolds as its
  consequences, and beside it AutonomyNeedsFullPictureHolds, GraphAgreesHolds
  (inductive over the types: the gate is the formula `autonomous /\ audit_id`, and
  no other step writes to what a run's agreement depends on),
  AutonomyOnlyShrinksHolds (from the types: the steps after the Supervisor write
  decisions through `enforce_audit` alone) and
  OnlyModelOrRaceRefusesHolds (RefusalInv: until a restart a thread that raised
  has its excuse, and keeps it, since channels are written once and a thread that
  has left the metrics does not come back). GraphInv has several parts because none of the gates is
  inductive alone. ChannelsInv says which channels a run has filled, and that a
  running resume call is on a paused or ended thread: without it
  `decision[r].autonomous` means nothing. GateInv carries
  "the store has this run's record" from the audit node to the answer through
  the `register` step. PlannerInv adds that no run has an outcome before it ends
  and that a running call was announced as a review: without it two overlapping
  calls could put an outcome on an autonomous run. UndoInv says that the entries
  of a run that has ended are in the registry until its client is told; a
  restart makes the answer an error, which is why it survives one.
  Last, GovernedImplemented, `Spec => GovernedSpec`: every initial
  state maps to one of GovernedDecision and every step to one of its
  steps or a stutter, under GraphInv. A run that is registering its actions is
  still open to the client, and a crash maps to closing it; GateInv gives the
  guard of the abstract act, PlannerInv that of the abstract resolve.
- **BreakerProofs**: BreakerTypes, TripsWhenDue for any number of
  callers; StaysOpen, from an invariant that puts every call about to reset an
  open breaker inside its window in `early`, and for a breaker that is not shared
  leaves none; AloneAnswers and AloneReopens of an unshared breaker, from an
  invariant that relates the place of the one caller to the state of the breaker:
  a caller past `is_open` has seen it closed or its window over.
- **MafWorkflowProofs**: PortTypes, PortAgreesHolds and
  FailsOnlyWhereEscalatedHolds, from PortInv: every message under way is the
  agent's own value under its own tag, and what left the join had all three.
- **FeaturesProofs**: FeatureTypes, OnlineIsValidatedHolds (ValidInv carries
  validity from the report to the file to the row), FreshAfterGoodDaysHolds
  (FreshInv says what one good day leaves for the next: the age of the file until
  its next ingest, where the window closed, and the age of what was loaded) and
  NeverStepsBackHolds (WindowInv: no row of a window still to come is older than
  the online row). They hold for any lags.
- **ReleaseProofs**: ReleaseTypes; PassMeansNoMissHolds for any repeats, from
  EvalInv (a miss leaves one of the two counts behind the number of cases) under
  the hypothesis that the thresholds forgive no case, which the code's do for up
  to nineteen cases; AutoPromotionImprovesHolds, from CycleInv (what a
  cycle knows of its candidate at each stage, and that a version keeps the score
  it was logged with however many are registered meanwhile). ReplayPassesHolds,
  from ReplayInv (while the replay runs, matched and reproducible equal the cases
  done), which rests on ReplayTier: each golden case, through the macro tool, the
  pipeline, the signals and the policy, gets the tier it expects.
  CorrectionHealsHolds, for windows of any length, by the monotonicity of Total
  for the percentage error and by counting for F1: a corrected prediction adds a
  hit or takes a false alarm or a miss away. ExactWindowRetrainsIfQuietHolds: of
  right predictions the error is zero, and F1 is one or undefined.

Only model-checked: liveness (EveryRunIsAnswered, HalfOpens, PortAnswers), which
is beyond the prover. Every invariant and action property the passing runs check
is also a theorem; those with a hypothesis are named above.

## 5. Noted while reading, without a run

- The input hash covers the request alone (`agents/supervisor.py:169`), where
  `contracts/provenance.py:3` has the same hash and versions yield the same
  tier; the features read meanwhile are in neither.
- A second resume of an answered thread is reported as resolved though its
  outcome is dropped (`api/app.py:56`). DecisionGraph has it (`resume_ended`).
- The rollback registry is lost at a restart, and production passes none
  (`app/production.py:167`).
- `orchestration/graph.py:126-128` says that the pause is durable. The checkpointer
  defaults to memory (`orchestration/graph.py:46`), and `build_app` passes none to
  the production graph either (`app/composition.py:64`), where
  `app/production.py:154` asks for a durable saver: a restart between the pause and
  the planner's answer loses the review. DecisionGraph has it without
  DurableCheckpoints: `Crash` leaves the thread "lost", and the planner's call is
  answered with an error (`resume_unknown`).
- Where the pipeline and the graph escalate, the Agent Framework port yields
  nothing.
- docs/architecture.md:767 asks for escalation when features are stale; the code
  never compares an age with a ttl at inference, and an absent macro row is
  NEUTRAL.
- `ml/registry.py:4` says that serving resolves the alias at call time, so that
  promotion and rollback are a flip and not a redeploy; the models are loaded
  once at startup (`app/production.py:143`) and `load_production_model` has no
  caller. ModelLifecycle has it: `rollback` leaves `served` alone, and a version that was
  rolled back goes on serving until another one is in `SCRC_MODEL_DIR` and the
  process has been restarted.
- The audit store may keep a record with `autonomous=True` of a decision that was
  downgraded, when the write fails after its parameters are logged
  (`observability/audit_mlflow.py:33`). `AuditWrite` has it.
- An unknown SKU has an empty context, for which the demo forecaster assumes a
  mean of 100 (`app/local_models.py:51`).

## 6. Not modelled

Training, calibration, SHAP and hyperparameter search (numerical); texts of
briefs and rationales, traces and Opik logging (no effect on state); the counts
behind the metrics; pydantic validation other than the forecast's; the demo's
synthetic data; deployment files. `pending` and `mark_rolled_back` of the
rollback registry, `load_production_model` and `get_port_congestion` have no
caller in the repository.

## 7. Plan

Done, in this order: the policy and the Supervisor, the graph with its gates,
failures and restarts, its abstract specification, the breaker, the feature
pipelines, the port, the specialists and the evaluation gate; then the metrics
registry, the shared breaker, the lost macro row, the model lifecycle behind the
gate, and the proof of the refinement; then the sums, with what follows from
them for the forecast and for drift, and the graph against the reference runner.

Left:

1. Specialists composed with Features: what a stale row does to a decision, and
   two reads of one decision with a materialisation in between.
2. The breaker around a specialist, as the comments of `governance/breaker.py`
   intend it.
3. The classifier's own answers: with a calibrated table of them in place of any
   probability, whether a wider interval or a lost macro row can ease a tier.
4. Proofs: freshness of lagging sources if the DAGs were ordered; what a shared
   breaker promises of a failed trial; GraphAgrees and PortAgrees joined into one
   statement that the two orchestrations agree with each other.
