--------------------------- MODULE ModelLifecycle ---------------------------
(***************************************************************************)
(* The life of the stockout model: monitoring cycles that find drift,      *)
(* retrain and ask for promotion, the MLflow registry with its production  *)
(* alias, the artifact a deployment brings to the service, and the process *)
(* that loads the artifact once, when it starts.                           *)
(*                                                                         *)
(* MonitoringAgent.run and the registry helpers are in the repository; who *)
(* calls them, approves a candidate, rolls back or materialises is not,    *)
(* and is taken from their docstrings.  Cycles overlap: a candidate waits  *)
(* for its approval while the schedule goes on.                            *)
(***************************************************************************)
EXTENDS Drift

CONSTANTS
  Cycle,        \* monitoring cycles that may be under way at once
  Window,       \* the windows of outcomes a cycle may look at
  AUC,          \* the scores a model may get, in percent
  margin,       \* 2 in the code
  MaxVersion,   \* bound: versions the registry may hold
  None

ASSUME LifecycleAssumption ==
  /\ Window \subseteq [demand : Seq(Pair(Nat)), events : Seq(Pair({0, 1}))]
  /\ \A w \in Window : \A i \in DOMAIN w.demand :
       w.demand[i].actual # 0 => Scale % w.demand[i].actual = 0
  /\ AUC \subseteq 0..100
  /\ margin \in Nat
  /\ MaxVersion \in Nat \ {0}
  /\ None \notin 0..MaxVersion

Version == 1..MaxVersion

VARIABLES
  auc,          \* the registered versions with the score each was logged with
  alias,        \* the version the production alias points to
  promoted,     \* history: the versions promote_to_production has been called on
  model_dir,    \* the version in SCRC_MODEL_DIR
  profile,      \* SCRC_PROFILE and whether its environment is complete
  process,      \* the service: "down", "up", or "failed" to start
  served,       \* the version its stockout tool was given
  phase,        \* where each cycle stands
  window,       \* the drift inputs it was called with, until it has assessed them
  production,   \* the version in production when the cycle was called
  candidate,    \* the score of its candidate
  version       \* the version its candidate was registered as

registry == <<auc, alias, promoted>>
service == <<profile, process, served>>
cycles == <<phase, window, production, candidate, version>>
lifeVars == <<registry, model_dir, service, cycles>>

Registered == DOMAIN auc

LifeTypeOK ==
  /\ \E n \in Version : auc \in [1..n -> AUC]
  /\ alias \in Registered
  /\ promoted \subseteq Registered
  /\ model_dir \in Registered \cup {None}
  /\ profile \in {"demo", "production", "unconfigured"}
  /\ process \in {"down", "up", "failed"}
  /\ served \in Registered \cup {None, 0}
  /\ phase \in [Cycle -> {"idle", "assessing", "searching", "auto_promote",
                          "requires_approval", "registered", "approval"}]
  /\ window \in [Cycle -> Window \cup {None}]
  /\ production \in [Cycle -> Registered \cup {None}]
  /\ candidate \in [Cycle -> AUC \cup {None}]
  /\ version \in [Cycle -> Registered \cup {None}]

LifeInit ==
  /\ \E a \in AUC : auc = [v \in {1} |-> a]
  /\ alias = 1
  /\ promoted = {1}
  /\ model_dir = None
  /\ profile \in {"demo", "production", "unconfigured"}
  /\ process = "down"
  /\ served = None
  /\ phase = [m \in Cycle |-> "idle"]
  /\ window = [m \in Cycle |-> None]
  /\ production = [m \in Cycle |-> None]
  /\ candidate = [m \in Cycle |-> None]
  /\ version = [m \in Cycle |-> None]

-----------------------------------------------------------------------------
Goes(m, from, to) == phase[m] = from /\ phase' = [phase EXCEPT ![m] = to]

Forgets(m) ==
  /\ window' = [window EXCEPT ![m] = None]
  /\ production' = [production EXCEPT ![m] = None]
  /\ candidate' = [candidate EXCEPT ![m] = None]
  /\ version' = [version EXCEPT ![m] = None]

\* The scheduler calls run with recent predictions and their outcomes and the
\* score of the version now in production.
schedule(m) ==
  /\ Goes(m, "idle", "assessing")
  /\ \E w \in Window : window' = [window EXCEPT ![m] = w]
  /\ production' = [production EXCEPT ![m] = alias]
  /\ UNCHANGED <<registry, model_dir, service, candidate, version>>

\* No drift: the outcome says that nothing was retrained.
run_healthy(m) ==
  /\ Goes(m, "assessing", "idle")
  /\ ~assess_drift(window[m])
  /\ Forgets(m)
  /\ UNCHANGED <<registry, model_dir, service>>

run_degraded(m) ==
  /\ Goes(m, "assessing", "searching")
  /\ assess_drift(window[m])
  /\ window' = [window EXCEPT ![m] = None]
  /\ UNCHANGED <<registry, model_dir, service, production, candidate, version>>

\* A prediction without its outcome, or data with events of one class only
\* that can be neither split nor scored: ValueError.
run_raises(m) ==
  /\ Goes(m, "assessing", "idle") \/ Goes(m, "searching", "idle")
  /\ Forgets(m)
  /\ UNCHANGED <<registry, model_dir, service>>

\* Mutant: any improvement will do.
decide_promotion_any(candidate_auc, production_auc) ==
  IF candidate_auc >= production_auc THEN "auto_promote" ELSE "requires_approval"

decide_promotion(candidate_auc, production_auc) ==
  IF candidate_auc >= production_auc + margin THEN "auto_promote" ELSE "requires_approval"

\* Search, training and evaluation are over: the candidate is compared with
\* the score the cycle was called with.
run_ends(m) ==
  /\ \E a \in AUC :
       /\ Goes(m, "searching", decide_promotion(a, auc[production[m]]))
       /\ candidate' = [candidate EXCEPT ![m] = a]
  /\ UNCHANGED <<registry, model_dir, service, window, production, version>>

\* The caller registers the candidate.  That is all log_and_register does: the
\* alias stays where it is.
log_and_register(m) ==
  LET v == Cardinality(Registered) + 1 IN
  /\ v <= MaxVersion
  /\ \/ Goes(m, "auto_promote", "registered")
     \/ Goes(m, "requires_approval", "approval")
  /\ auc' = [w \in 1..v |-> IF w = v THEN candidate[m] ELSE auc[w]]
  /\ version' = [version EXCEPT ![m] = v]
  /\ UNCHANGED <<alias, promoted, model_dir, service, window, production, candidate>>

promote_to_production(v) ==
  /\ alias' = v
  /\ promoted' = promoted \cup {v}
  /\ UNCHANGED auc

auto_promote(m) ==
  /\ Goes(m, "registered", "idle")
  /\ promote_to_production(version[m])
  /\ Forgets(m)
  /\ UNCHANGED <<model_dir, service>>

approve(m) ==
  /\ Goes(m, "approval", "idle")
  /\ promote_to_production(version[m])
  /\ Forgets(m)
  /\ UNCHANGED <<model_dir, service>>

reject(m) ==
  /\ Goes(m, "approval", "idle")
  /\ Forgets(m)
  /\ UNCHANGED <<registry, model_dir, service>>

\* An operator flips the alias back to a version that was in production.
rollback ==
  /\ \E v \in promoted \ {alias} : promote_to_production(v)
  /\ UNCHANGED <<model_dir, service, cycles>>

-----------------------------------------------------------------------------
\* A deployment fills SCRC_MODEL_DIR.  Nothing in the repository ties what it
\* brings there to the alias, so it may be any version.
materialise ==
  /\ model_dir' \in Registered
  /\ UNCHANGED <<registry, service, cycles>>

\* build_app of the demo profile trains models of its own (0 stands for them).
build_demo_bundle ==
  /\ profile = "demo"
  /\ process # "up"
  /\ process' = "up"
  /\ served' = 0
  /\ UNCHANGED <<registry, model_dir, profile, cycles>>

\* build_app of the production profile loads the artifact that is there now,
\* and the process keeps it.
build_production_graph ==
  /\ profile = "production"
  /\ process # "up"
  /\ model_dir # None
  /\ process' = "up"
  /\ served' = model_dir
  /\ UNCHANGED <<registry, model_dir, profile, cycles>>

\* The service does not come up at all.
Fails ==
  /\ process = "down"
  /\ process' = "failed"
  /\ UNCHANGED <<registry, model_dir, profile, served, cycles>>

\* ProductionConfigError.
from_env_raises == profile = "unconfigured" /\ Fails

\* FileNotFoundError.
load_raises == profile = "production" /\ model_dir = None /\ Fails

stop ==
  /\ process = "up"
  /\ process' = "down"
  /\ served' = None
  /\ UNCHANGED <<registry, model_dir, profile, cycles>>

CycleStep(m) ==
  \/ schedule(m) \/ run_healthy(m) \/ run_degraded(m) \/ run_raises(m) \/ run_ends(m)
  \/ log_and_register(m) \/ auto_promote(m) \/ approve(m) \/ reject(m)

LifeNext ==
  \/ \E m \in Cycle : CycleStep(m)
  \/ rollback \/ materialise \/ stop
  \/ build_demo_bundle \/ build_production_graph \/ from_env_raises \/ load_raises

LifeSpec == LifeInit /\ [][LifeNext]_lifeVars

-----------------------------------------------------------------------------
\* An automatic promotion improves production by the margin (decide_promotion,
\* evaluated long before the alias is moved), unless another cycle, a planner
\* or a rollback has moved the alias since the cycle was called.
AutoPromotionImproves ==
  [][\A m \in Cycle :
       phase[m] = "registered" /\ alias' # alias /\ phase'[m] = "idle"
         /\ production[m] = alias
       => auc'[alias'] >= auc[alias] + margin]_lifeVars

\* Better predictions never start a retraining: a window that passes would
\* pass with any one of its predictions corrected (assess_drift, whose means
\* run over different periods for the two models).
CorrectionHeals ==
  \A m \in Cycle : phase[m] = "assessing" =>
    \A c \in Corrections(window[m]) : assess_drift(c) => assess_drift(window[m])

\* A cycle that was called with nothing but right predictions retrains just
\* when there was no stockout to predict: F1 is then undefined and taken as
\* zero, so that each quiet window retrains (rolling_f1).
ExactWindowRetrainsIfQuiet ==
  \A m \in Cycle :
    phase[m] = "assessing" /\ IsExact(window[m].demand) /\ IsExact(window[m].events)
      => (assess_drift(window[m])
            <=> \A i \in DOMAIN window[m].events : window[m].events[i].actual = 0)
=============================================================================
