---------------------------- MODULE ReleaseProofs ----------------------------
(***************************************************************************)
(* Proofs about Release: its types, what a passed gate says of the calls   *)
(* behind it, that an automatic promotion improves what it replaces, and   *)
(* which windows retrain.                                                  *)
(***************************************************************************)
EXTENDS Release, SumLemmas, FiniteSetTheorems, TLAPS

(***************************************************************************)
(* The evaluation.                                                         *)
(***************************************************************************)
\* A miss leaves its mark in one of the two counts.
EvalInv ==
  /\ EvalTypeOK
  /\ missed => matched < results \/ reproducible < results
  /\ gate = "PASS" => passes_gate

LEMMA FourCases == CaseCount = 4
  BY DEF CaseCount, disruption_cases

LEMMA EvalInvInit == EvalInit => EvalInv
<1> SUFFICES ASSUME EvalInit
             PROVE  EvalInv
  OBVIOUS
<1>1. EvalTypeOK
  <2>1. scripted \in BOOLEAN /\ missed \in BOOLEAN
    BY DEF EvalInit
  <2>2. results = 0 /\ matched = 0 /\ reproducible = 0 /\ gate = "open"
    BY DEF EvalInit
  <2> QED
    BY <2>1, <2>2, FourCases DEF EvalTypeOK
<1>2. ~missed /\ gate # "PASS"
  BY DEF EvalInit
<1> QED
  BY <1>1, <1>2 DEF EvalInv

\* One round of the loop: if some call missed, the first one did or it differs
\* from the first.
LEMMA RoundKeepsEvalInv ==
  EvalInv /\ gate = "open" /\ run_routing_eval => EvalInv'
<1> SUFFICES ASSUME EvalInv, gate = "open", run_routing_eval
             PROVE  EvalInv'
  OBVIOUS
<1> DEFINE case == disruption_cases[results + 1]
<1>1. PICK tiers \in [1..repeats -> EscalationTier] :
        LET result == CaseResult(tiers) IN
        /\ matched' = matched + OneIf(result.observed = case.expected_tier)
        /\ reproducible' = reproducible + OneIf(result.reproducible)
        /\ missed' = (missed \/ \E i \in 1..repeats : tiers[i] # case.expected_tier)
  BY DEF run_routing_eval
<1>2. /\ results < CaseCount
      /\ results' = results + 1
      /\ scripted' = scripted
      /\ gate' = gate
  BY DEF run_routing_eval
<1>3. /\ results \in 0..4 /\ matched \in 0..results /\ reproducible \in 0..results
      /\ missed \in BOOLEAN /\ scripted \in BOOLEAN
  BY FourCases DEF EvalInv, EvalTypeOK
<1> DEFINE hit == tiers[1] = case.expected_tier
           same == \A i \in 1..repeats : tiers[i] = tiers[1]
<1>4. /\ matched' = matched + IF hit THEN 1 ELSE 0
      /\ reproducible' = reproducible + IF same THEN 1 ELSE 0
  BY <1>1 DEF CaseResult, OneIf
<1>5. hit /\ same => (missed' <=> missed)
  BY <1>1
<1> HIDE DEF hit, same
<1>6. EvalTypeOK'
  <2>1. missed' \in BOOLEAN
    BY <1>1, <1>3
  <2> QED
    BY <2>1, <1>2, <1>3, <1>4, FourCases DEF EvalTypeOK
<1>7. (missed => matched < results \/ reproducible < results)'
  <2>1. CASE hit /\ same
    BY <2>1, <1>2, <1>3, <1>4, <1>5 DEF EvalInv
  <2>2. CASE ~hit
    BY <2>2, <1>2, <1>3, <1>4
  <2>3. CASE ~same
    BY <2>3, <1>2, <1>3, <1>4
  <2> QED
    BY <2>1, <2>2, <2>3
<1> QED
  BY <1>2, <1>6, <1>7 DEF EvalInv

LEMMA EvalInvStep == EvalInv /\ EvalNext => EvalInv'
<1> SUFFICES ASSUME EvalInv, EvalNext
             PROVE  EvalInv'
  OBVIOUS
<1>1. CASE run_routing_eval
  <2>1. gate = "open"
    BY <1>1, FourCases DEF EvalInv, EvalTypeOK, run_routing_eval
  <2> QED
    BY <1>1, <2>1, RoundKeepsEvalInv
<1>2. CASE main
  BY <1>2 DEF main, EvalInv, EvalTypeOK, passes_gate
<1> QED
  BY <1>1, <1>2 DEF EvalNext

LEMMA EvalInvStutter == EvalInv /\ UNCHANGED evalVars => EvalInv'
  BY DEF EvalInv, EvalTypeOK, evalVars, passes_gate

(***************************************************************************)
(* The life of the model.                                                  *)
(***************************************************************************)
\* What a cycle knows at each stage: the window it was called with, the version
\* it was called about, the score of its candidate, and the version that was
\* logged with that score.
CycleInv(m) ==
  /\ phase[m] = "assessing" => window[m] \in Window
  /\ phase[m] # "idle" => production[m] \in Registered
  /\ phase[m] \in {"auto_promote", "requires_approval", "registered", "approval"}
       => candidate[m] \in AUC
  /\ phase[m] \in {"registered", "approval"}
       => version[m] \in Registered /\ auc[version[m]] = candidate[m]
  /\ phase[m] \in {"auto_promote", "registered"}
       => candidate[m] >= auc[production[m]] + margin

LifeInv ==
  /\ LifeTypeOK
  /\ \A m \in Cycle : CycleInv(m)

\* The registered versions are numbered from one on, so that the next one is
\* known from their number.
LEMMA NextVersion ==
  ASSUME NEW n \in Version, DOMAIN auc = 1..n
  PROVE  Registered = 1..n /\ Cardinality(Registered) = n
  BY FS_Interval, LifecycleAssumption DEF Registered, Version

LEMMA LifeInvInit == LifeInit => LifeInv
<1> SUFFICES ASSUME LifeInit
             PROVE  LifeInv
  OBVIOUS
<1>1. PICK a \in AUC : auc = [v \in {1} |-> a]
  BY DEF LifeInit
<1>2. Registered = {1} /\ 1 \in Version /\ auc \in [1..1 -> AUC]
  BY <1>1, LifecycleAssumption DEF Registered, Version
<1>3. LifeTypeOK
  BY <1>2 DEF LifeInit, LifeTypeOK
<1>4. \A m \in Cycle : CycleInv(m)
  BY DEF LifeInit, CycleInv
<1> QED
  BY <1>3, <1>4 DEF LifeInv

\* A new version leaves the scores of the others as they are, and what every
\* cycle knows of them.
LEMMA RegisterKeeps ==
  ASSUME LifeInv, NEW m \in Cycle, log_and_register(m)
  PROVE  LifeInv'
<1> DEFINE v == Cardinality(Registered) + 1
<1>1. PICK n \in Version : auc \in [1..n -> AUC]
  BY DEF LifeInv, LifeTypeOK
<1>2. /\ n \in Nat
      /\ Registered = 1..n
      /\ v = n + 1
  BY <1>1, NextVersion DEF Registered, Version
<1>3. /\ v <= MaxVersion
      /\ auc' = [w \in 1..v |-> IF w = v THEN candidate[m] ELSE auc[w]]
      /\ version' = [version EXCEPT ![m] = v]
      /\ UNCHANGED <<alias, promoted, model_dir, service, window, production, candidate>>
      /\ phase[m] \in {"auto_promote", "requires_approval"}
      /\ phase' = [phase EXCEPT ![m] = phase'[m]]
      /\ phase[m] = "auto_promote" => phase'[m] = "registered"
      /\ phase[m] = "requires_approval" => phase'[m] = "approval"
  BY DEF log_and_register, Goes, LifeInv, LifeTypeOK
<1> HIDE DEF v
<1>4. candidate[m] \in AUC /\ production[m] \in Registered
  BY <1>3 DEF LifeInv, CycleInv
<1>5. /\ v \in Version
      /\ auc' \in [1..v -> AUC]
      /\ Registered' = 1..v
      /\ Registered \subseteq Registered'
      /\ auc'[v] = candidate[m]
      /\ \A w \in Registered : auc'[w] = auc[w]
  BY <1>1, <1>2, <1>3, <1>4, LifecycleAssumption DEF Registered, Version
<1>6. LifeTypeOK'
  <2>1. phase'[m] \in {"registered", "approval"}
    BY <1>3
  <2>2. phase' \in [Cycle -> {"idle", "assessing", "searching", "auto_promote",
                              "requires_approval", "registered", "approval"}]
    BY <1>3, <2>1 DEF LifeInv, LifeTypeOK
  <2>3. version' \in [Cycle -> Registered' \cup {None}]
    <3>1. v \in Registered'
      BY <1>2, <1>5
    <3> QED
      BY <1>3, <1>5, <3>1 DEF LifeInv, LifeTypeOK
  <2> QED
    BY <1>3, <1>5, <2>2, <2>3 DEF LifeInv, LifeTypeOK, service
<1>7. ASSUME NEW k \in Cycle
      PROVE  CycleInv(k)'
  <2>1. CASE k = m
    <3>1. phase'[m] \in {"registered", "approval"} /\ version'[m] = v
      BY <1>3 DEF LifeInv, LifeTypeOK
    <3>2. phase'[m] = "registered" => candidate[m] >= auc[production[m]] + margin
      BY <1>3 DEF LifeInv, CycleInv
    <3>3. production' = production /\ candidate' = candidate
      BY <1>3
    <3>4. /\ production[m] \in Registered' /\ v \in Registered'
          /\ auc'[production[m]] = auc[production[m]]
      <4>1. v \in 1..v
        BY <1>2
      <4> QED
        BY <1>4, <1>5, <4>1
    <3>5. /\ production'[m] \in Registered'
          /\ candidate'[m] \in AUC
          /\ version'[m] \in Registered' /\ auc'[version'[m]] = candidate'[m]
          /\ phase'[m] = "registered" => candidate'[m] >= auc'[production'[m]] + margin
      BY <1>4, <1>5, <3>1, <3>2, <3>3, <3>4
    <3> QED
      BY <2>1, <3>1, <3>5 DEF CycleInv
  <2>2. CASE k # m
    <3>1. phase'[k] = phase[k] /\ version'[k] = version[k]
      BY <1>3, <2>2 DEF LifeInv, LifeTypeOK
    <3> QED
      BY <1>3, <1>5, <3>1 DEF LifeInv, LifeTypeOK, CycleInv
  <2> QED
    BY <2>1, <2>2
<1> QED
  BY <1>6, <1>7 DEF LifeInv

\* Whoever moves the alias moves it to a registered version.
LEMMA PromoteKeeps ==
  ASSUME LifeInv, NEW w \in Registered, promote_to_production(w),
         UNCHANGED <<model_dir, service, cycles>>
  PROVE  LifeInv'
<1>1. /\ alias' = w
      /\ promoted' = promoted \cup {w}
      /\ auc' = auc
      /\ Registered' = Registered
  BY DEF promote_to_production, Registered
<1>2. LifeTypeOK'
  BY <1>1 DEF LifeInv, LifeTypeOK, service, cycles
<1>3. ASSUME NEW k \in Cycle
      PROVE  CycleInv(k)'
  BY <1>1 DEF LifeInv, CycleInv, cycles
<1> QED
  BY <1>2, <1>3 DEF LifeInv

\* A cycle that ends forgets what it knew, whatever happened to the registry.
LEMMA EndKeeps ==
  ASSUME LifeInv, NEW m \in Cycle, NEW from, Goes(m, from, "idle"), Forgets(m),
         UNCHANGED <<model_dir, service>>,
         \/ UNCHANGED registry
         \/ \E w \in Registered : promote_to_production(w)
  PROVE  LifeInv'
<1>1. /\ auc' = auc
      /\ Registered' = Registered
      /\ alias' \in Registered
      /\ promoted \subseteq promoted'
      /\ promoted' \subseteq Registered
  BY DEF registry, promote_to_production, Registered, LifeInv, LifeTypeOK
<1>2. /\ phase' = [phase EXCEPT ![m] = "idle"]
      /\ window' = [window EXCEPT ![m] = None]
      /\ production' = [production EXCEPT ![m] = None]
      /\ candidate' = [candidate EXCEPT ![m] = None]
      /\ version' = [version EXCEPT ![m] = None]
  BY DEF Goes, Forgets
<1>3. LifeTypeOK'
  BY <1>1, <1>2 DEF LifeInv, LifeTypeOK, service
<1>4. ASSUME NEW k \in Cycle
      PROVE  CycleInv(k)'
  <2>1. CASE k = m
    <3>1. phase'[k] = "idle"
      BY <1>2, <2>1 DEF LifeInv, LifeTypeOK
    <3> QED
      BY <3>1 DEF CycleInv
  <2>2. CASE k # m
    <3>1. /\ phase'[k] = phase[k]
          /\ window'[k] = window[k]
          /\ production'[k] = production[k]
          /\ candidate'[k] = candidate[k]
          /\ version'[k] = version[k]
      BY <1>2, <2>2 DEF LifeInv, LifeTypeOK
    <3> QED
      BY <1>1, <3>1 DEF LifeInv, CycleInv
  <2> QED
    BY <2>1, <2>2
<1> QED
  BY <1>3, <1>4 DEF LifeInv

LEMMA LifeInvStep ==
  ASSUME LifeInv, LifeNext
  PROVE  LifeInv'
<1>1. ASSUME NEW m \in Cycle, schedule(m)
      PROVE  LifeInv'
  <2>0. PICK w \in Window : window' = [window EXCEPT ![m] = w]
    BY <1>1 DEF schedule
  <2>1. /\ phase' = [phase EXCEPT ![m] = "assessing"]
        /\ window' \in [Cycle -> Window \cup {None}]
        /\ production' = [production EXCEPT ![m] = alias]
        /\ UNCHANGED <<registry, model_dir, service, candidate, version>>
    BY <1>1 DEF schedule, Goes, LifeInv, LifeTypeOK
  <2>2. alias \in Registered /\ Registered' = Registered /\ auc' = auc
    BY <2>1 DEF LifeInv, LifeTypeOK, registry, Registered
  <2>3. LifeTypeOK'
    BY <2>1, <2>2 DEF LifeInv, LifeTypeOK, registry, service
  <2>4. ASSUME NEW k \in Cycle
        PROVE  CycleInv(k)'
    <3>1. CASE k = m
      <4>1. phase'[k] = "assessing" /\ window'[k] = w /\ production'[k] = alias
        BY <2>0, <2>1, <3>1 DEF LifeInv, LifeTypeOK
      <4> QED
        BY <2>2, <4>1 DEF CycleInv
    <3>2. CASE k # m
      <4>1. /\ phase'[k] = phase[k] /\ window'[k] = window[k]
            /\ production'[k] = production[k] /\ candidate'[k] = candidate[k]
            /\ version'[k] = version[k]
        BY <2>0, <2>1, <3>2 DEF LifeInv, LifeTypeOK
      <4> QED
        BY <2>2, <4>1 DEF LifeInv, CycleInv
    <3> QED
      BY <3>1, <3>2
  <2> QED
    BY <2>3, <2>4 DEF LifeInv
<1>2. ASSUME NEW m \in Cycle, run_healthy(m) \/ run_raises(m) \/ reject(m)
      PROVE  LifeInv'
  BY <1>2, EndKeeps DEF run_healthy, run_raises, reject
<1>3. ASSUME NEW m \in Cycle, run_degraded(m)
      PROVE  LifeInv'
  <2>1. /\ phase[m] = "assessing"
        /\ phase' = [phase EXCEPT ![m] = "searching"]
        /\ window' = [window EXCEPT ![m] = None]
        /\ UNCHANGED <<registry, model_dir, service, production, candidate, version>>
    BY <1>3 DEF run_degraded, Goes
  <2>2. Registered' = Registered /\ auc' = auc
    BY <2>1 DEF registry, Registered
  <2>3. LifeTypeOK'
    BY <2>1, <2>2 DEF LifeInv, LifeTypeOK, registry, service
  <2>4. \A k \in Cycle : CycleInv(k)'
    BY <2>1, <2>2 DEF LifeInv, LifeTypeOK, CycleInv
  <2> QED
    BY <2>3, <2>4 DEF LifeInv
<1>4. ASSUME NEW m \in Cycle, run_ends(m)
      PROVE  LifeInv'
  <2>1. PICK a \in AUC :
          /\ Goes(m, "searching", decide_promotion(a, auc[production[m]]))
          /\ candidate' = [candidate EXCEPT ![m] = a]
    BY <1>4 DEF run_ends
  <2>2. UNCHANGED <<registry, model_dir, service, window, production, version>>
    BY <1>4 DEF run_ends
  <2> DEFINE mode == decide_promotion(a, auc[production[m]])
  <2>3. /\ mode \in {"auto_promote", "requires_approval"}
        /\ mode = "auto_promote" => a >= auc[production[m]] + margin
    BY DEF decide_promotion
  <2>4. /\ phase[m] = "searching"
        /\ phase' = [phase EXCEPT ![m] = mode]
        /\ production[m] \in Registered
    BY <2>1 DEF Goes, LifeInv, CycleInv
  <2> HIDE DEF mode
  <2>5. Registered' = Registered /\ auc' = auc
    BY <2>2 DEF registry, Registered
  <2>6. LifeTypeOK'
    BY <2>1, <2>2, <2>3, <2>4, <2>5 DEF LifeInv, LifeTypeOK, registry, service
  <2>7. ASSUME NEW k \in Cycle
        PROVE  CycleInv(k)'
    <3>1. CASE k = m
      <4>1. phase'[k] = mode /\ candidate'[k] = a /\ production'[k] = production[k]
        BY <2>1, <2>2, <2>4, <3>1 DEF LifeInv, LifeTypeOK
      <4> QED
        BY <2>3, <2>4, <2>5, <3>1, <4>1 DEF CycleInv
    <3>2. CASE k # m
      <4>1. /\ phase'[k] = phase[k] /\ candidate'[k] = candidate[k]
            /\ production'[k] = production[k] /\ version'[k] = version[k]
            /\ window'[k] = window[k]
        BY <2>1, <2>2, <2>4, <3>2 DEF LifeInv, LifeTypeOK
      <4> QED
        BY <2>5, <4>1 DEF LifeInv, CycleInv
    <3> QED
      BY <3>1, <3>2
  <2> QED
    BY <2>6, <2>7 DEF LifeInv
<1>5. ASSUME NEW m \in Cycle, log_and_register(m)
      PROVE  LifeInv'
  BY <1>5, RegisterKeeps
<1>6. ASSUME NEW m \in Cycle, auto_promote(m) \/ approve(m)
      PROVE  LifeInv'
  <2>1. version[m] \in Registered
    BY <1>6 DEF auto_promote, approve, Goes, LifeInv, CycleInv
  <2> QED
    BY <1>6, <2>1, EndKeeps DEF auto_promote, approve
<1>7. CASE rollback
  <2>1. PICK v \in promoted : promote_to_production(v)
    BY <1>7 DEF rollback
  <2>2. v \in Registered
    BY DEF LifeInv, LifeTypeOK
  <2> QED
    BY <1>7, <2>1, <2>2, PromoteKeeps DEF rollback
<1>8. CASE materialise
  <2>1. Registered' = Registered /\ UNCHANGED <<registry, service, cycles>> /\ model_dir' \in Registered
    BY <1>8 DEF materialise, registry, Registered
  <2>2. LifeTypeOK'
    BY <2>1 DEF LifeInv, LifeTypeOK, registry, service, cycles
  <2>3. \A k \in Cycle : CycleInv(k)'
    BY <2>1 DEF LifeInv, CycleInv, registry, cycles
  <2> QED
    BY <2>2, <2>3 DEF LifeInv
<1>9. CASE \/ build_demo_bundle \/ build_production_graph
           \/ from_env_raises \/ load_raises \/ stop
  <2>1. /\ UNCHANGED <<registry, model_dir, profile, cycles>>
        /\ Registered' = Registered
    BY <1>9 DEF build_demo_bundle, build_production_graph, from_env_raises, load_raises,
       Fails, stop, registry, Registered
  <2>2. /\ process' \in {"down", "up", "failed"}
        /\ served' \in {served, 0, model_dir, None}
    BY <1>9 DEF build_demo_bundle, build_production_graph, from_env_raises, load_raises,
       Fails, stop
  <2>3. LifeTypeOK'
    BY <2>1, <2>2 DEF LifeInv, LifeTypeOK, registry, cycles
  <2>4. \A k \in Cycle : CycleInv(k)'
    BY <2>1 DEF LifeInv, CycleInv, registry, cycles
  <2> QED
    BY <2>3, <2>4 DEF LifeInv
<1> QED
  BY <1>1, <1>2, <1>3, <1>4, <1>5, <1>6, <1>7, <1>8, <1>9, LifeNext DEF LifeNext, CycleStep

LEMMA LifeInvStutter ==
  ASSUME LifeInv, UNCHANGED lifeVars
  PROVE  LifeInv'
<1>1. UNCHANGED <<registry, model_dir, service, cycles>> /\ Registered' = Registered
  BY DEF lifeVars, registry, Registered
<1>2. LifeTypeOK'
  BY <1>1 DEF LifeInv, LifeTypeOK, registry, service, cycles
<1>3. \A k \in Cycle : CycleInv(k)'
  BY <1>1 DEF LifeInv, CycleInv, registry, cycles
<1> QED
  BY <1>2, <1>3 DEF LifeInv

(***************************************************************************)
(* The theorems of the composition.                                        *)
(***************************************************************************)
LEMMA Invariance == Spec => [](EvalInv /\ LifeInv)
<1>1. Init => EvalInv /\ LifeInv
  BY EvalInvInit, LifeInvInit DEF Init
<1>2. EvalInv /\ LifeInv /\ [Next]_vars => (EvalInv /\ LifeInv)'
  <2> SUFFICES ASSUME EvalInv, LifeInv, [Next]_vars
               PROVE  EvalInv' /\ LifeInv'
    OBVIOUS
  <2>1. CASE EvalNext /\ UNCHANGED lifeVars
    BY <2>1, EvalInvStep, LifeInvStutter
  <2>2. CASE LifeNext /\ UNCHANGED evalVars
    BY <2>2, EvalInvStutter, LifeInvStep
  <2>3. CASE UNCHANGED vars
    BY <2>3, EvalInvStutter, LifeInvStutter DEF vars
  <2> QED
    BY <2>1, <2>2, <2>3 DEF Next
<1> QED
  BY <1>1, <1>2, PTL DEF Spec

\* The type invariant, for any number of repeats, cycles, scores and versions.
THEOREM ReleaseTypes == Spec => []TypeOK
<1>1. EvalInv /\ LifeInv => TypeOK
  BY DEF EvalInv, LifeInv, TypeOK
<1> QED
  BY <1>1, Invariance, PTL

\* A gate that wants every tier right, and reproducibility of more than all
\* cases but one, lets through no miss, however often a case is decided.
THEOREM PassMeansNoMissHolds ==
  ASSUME min_accuracy = 100, min_reproducibility * CaseCount > 100 * (CaseCount - 1)
  PROVE  Spec => []PassMeansNoMiss
<1>1. EvalInv => PassMeansNoMiss
  <2> SUFFICES ASSUME EvalInv, gate = "PASS", missed
               PROVE  FALSE
    BY DEF PassMeansNoMiss
  <2>1. results = 4 /\ matched \in 0..4 /\ reproducible \in 0..4
    BY FourCases DEF EvalInv, EvalTypeOK
  <2>2. 100 * reproducible >= min_reproducibility * 4 /\ 100 * matched >= min_accuracy * 4
    BY FourCases DEF EvalInv, passes_gate
  <2>3. matched < 4 \/ reproducible < 4
    BY <2>1 DEF EvalInv
  <2> QED
    BY <2>1, <2>2, <2>3, FourCases, EvalAssumption
<1> QED
  BY <1>1, Invariance, PTL

\* However the cycles overlap, an automatic promotion over the version its
\* cycle was called about improves on it by the margin.
THEOREM AutoPromotionImprovesHolds == Spec => AutoPromotionImproves
<1>1. LifeInv /\ [Next]_vars =>
        [\A m \in Cycle :
           phase[m] = "registered" /\ alias' # alias /\ phase'[m] = "idle"
             /\ production[m] = alias
           => auc'[alias'] >= auc[alias] + margin]_lifeVars
  <2> SUFFICES ASSUME LifeInv, [Next]_vars, NEW m \in Cycle,
                      phase[m] = "registered", alias' # alias, phase'[m] = "idle",
                      production[m] = alias
               PROVE  auc'[alias'] >= auc[alias] + margin
    OBVIOUS
  <2>1. auto_promote(m)
    <3>1. LifeNext
      BY DEF Next, vars, lifeVars, registry
    <3>2. ASSUME NEW k \in Cycle, k # m, CycleStep(k)
          PROVE  phase'[m] = phase[m]
      BY <3>2 DEF LifeInv, LifeTypeOK, CycleStep, schedule, run_healthy, run_degraded,
         run_raises, run_ends, log_and_register, auto_promote, approve, reject, Goes
    <3>3. ASSUME \/ rollback \/ materialise \/ stop
                 \/ build_demo_bundle \/ build_production_graph
                 \/ from_env_raises \/ load_raises
          PROVE  phase' = phase
      BY <3>3 DEF rollback, materialise, build_demo_bundle, build_production_graph,
         from_env_raises, load_raises, Fails, stop, cycles
    <3>4. CycleStep(m)
      BY <3>1, <3>2, <3>3 DEF LifeNext
    <3> QED
      BY <3>4 DEF CycleStep, schedule, run_healthy, run_degraded, run_raises, run_ends,
         log_and_register, approve, reject, Goes, registry
  <2>2. alias' = version[m] /\ auc' = auc
    BY <2>1 DEF auto_promote, promote_to_production
  <2>3. auc[version[m]] = candidate[m] /\ candidate[m] >= auc[production[m]] + margin
    BY DEF LifeInv, CycleInv
  <2> QED
    BY <2>2, <2>3
<1> QED
  BY <1>1, Invariance, PTL DEF Spec, AutoPromotionImproves
-----------------------------------------------------------------------------
\* The thresholds of the code.
CodeThresholds ==
  /\ ROUTINE_MAX_PROB = 30
  /\ REVIEW_MIN_PROB = 55
  /\ CRITICAL_MIN_PROB = 75
  /\ NARROW_INTERVAL_RATIO = 20
  /\ HIGH_UNCERTAINTY_RATIO = 50

\* An absent sentiment is no shock, a low one is.
LEMMA ScriptedRegime ==
  ASSUME NEW s \in Opt(Int)
  PROVE  assess_macro([x \in {"consumer_sentiment"} |-> s])
           = IF s # NoValue /\ s < 55 THEN "shock" ELSE "neutral"
<1> DEFINE row == [x \in {"consumer_sentiment"} |-> s]
<1>1. /\ "consumer_sentiment" \in DOMAIN features(row) <=> s # NoValue
      /\ s # NoValue => features(row)["consumer_sentiment"] = s
  BY DEF features
<1> HIDE DEF row
<1>2. assess_macro(row) = IF s # NoValue /\ s < 55 THEN "shock" ELSE "neutral"
  BY <1>1 DEF assess_macro, classify_regime, ShockSentiment
<1> QED
  BY <1>2 DEF row

\* What a scripted case is decided on: nothing raises, so that it is the joint
\* signals of the case that reach the policy.
LEMMA ScriptedDecision ==
  ASSUME NEW case, NEW f \in QuantileForecast, scripted_forecast(case.quantiles) = f,
         case.flag \in BOOLEAN, case.sentiment \in Opt(Int), case.prob \in Probability,
         NEW m, m = IF case.sentiment # NoValue /\ case.sentiment < 55 THEN "shock" ELSE "neutral"
  PROVE  scenario_decision_fn(case).tier
           = evaluate_escalation(signals(f, case.flag, m, case.prob))
<1> DEFINE x == [ request |-> case.name, forecast |-> f, anomaly |-> case.flag,
                  macro |-> m, stockout |-> case.prob ]
<1>1. assess_macro([y \in {"consumer_sentiment"} |-> case.sentiment]) = m
  BY ScriptedRegime
<1>2. scenario_decision_fn(case) = run_pipeline(x)
  BY <1>1 DEF scenario_decision_fn
<1>3. ~SomeRaises(x)
  BY PipelineAssumption DEF SomeRaises, RegimeLabel
<1>4. run_pipeline(x) = synthesise(case.name, f, case.flag, m, case.prob)
  BY <1>3 DEF run_pipeline
<1> QED
  BY <1>2, <1>4 DEF synthesise

\* Each disruption of the replay gets the tier its case expects.
LEMMA ReplayTier ==
  ASSUME CodeThresholds, NEW i \in 1..4
  PROVE  scenario_decision_fn(disruption_cases[i]).tier = disruption_cases[i].expected_tier
<1>0. NoValue \in Opt(Int) /\ 40 \in Opt(Int) /\ 40 # NoValue
  BY AnswerAssumption DEF Opt
<1>1. CASE i = 1
  <2> DEFINE case == disruption_cases[1]
             f == [p50 |-> 100, interval_width |-> 6]
  <2>1. /\ case.flag = FALSE /\ case.sentiment = NoValue /\ case.prob = 10
        /\ case.quantiles = <<98, 100, 104>> /\ case.expected_tier = "routine"
    BY DEF disruption_cases
  <2>2. f \in QuantileForecast /\ 10 \in Probability /\ scripted_forecast(<<98, 100, 104>>) = f
    BY DEF QuantileForecast, Probability, scripted_forecast
  <2>3. evaluate_escalation(signals(f, FALSE, "neutral", 10)) = "routine"
    BY DEF CodeThresholds, evaluate_escalation, signals, IsCritical, IsReview, IsRoutine,
       high_uncertainty, narrow_interval, Abs, OneIf
  <2> HIDE DEF case, f
  <2>4. /\ scripted_forecast(case.quantiles) = f
        /\ case.flag \in BOOLEAN /\ case.sentiment \in Opt(Int) /\ case.prob \in Probability
        /\ "neutral" = IF case.sentiment # NoValue /\ case.sentiment < 55 THEN "shock" ELSE "neutral"
    BY <1>0, <2>1, <2>2
  <2>5. scenario_decision_fn(case).tier
          = evaluate_escalation(signals(f, case.flag, "neutral", case.prob))
    BY <2>2, <2>4, ScriptedDecision, Zenon
  <2> QED
    BY <1>1, <2>1, <2>3, <2>5 DEF case
<1>2. CASE i = 2
  <2> DEFINE case == disruption_cases[2]
             f == [p50 |-> 120, interval_width |-> 100]
  <2>1. /\ case.flag = TRUE /\ case.sentiment = 40 /\ case.prob = 90
        /\ case.quantiles = <<80, 120, 180>> /\ case.expected_tier = "critical"
    BY DEF disruption_cases
  <2>2. f \in QuantileForecast /\ 90 \in Probability /\ scripted_forecast(<<80, 120, 180>>) = f
    BY DEF QuantileForecast, Probability, scripted_forecast
  <2>3. evaluate_escalation(signals(f, TRUE, "shock", 90)) = "critical"
    BY DEF CodeThresholds, evaluate_escalation, signals, IsCritical
  <2> HIDE DEF case, f
  <2>4. /\ scripted_forecast(case.quantiles) = f
        /\ case.flag \in BOOLEAN /\ case.sentiment \in Opt(Int) /\ case.prob \in Probability
        /\ "shock" = IF case.sentiment # NoValue /\ case.sentiment < 55 THEN "shock" ELSE "neutral"
    <3>1. case.sentiment # NoValue /\ case.sentiment < 55
      BY <1>0, <2>1
    <3> QED
      BY <1>0, <2>1, <2>2, <3>1
  <2>5. scenario_decision_fn(case).tier
          = evaluate_escalation(signals(f, case.flag, "shock", case.prob))
    BY <2>2, <2>4, ScriptedDecision, Zenon
  <2> QED
    BY <1>2, <2>1, <2>3, <2>5 DEF case
<1>3. CASE i = 3
  <2> DEFINE case == disruption_cases[3]
             f == [p50 |-> 100, interval_width |-> 25]
  <2>1. /\ case.flag = TRUE /\ case.sentiment = NoValue /\ case.prob = 60
        /\ case.quantiles = <<90, 100, 115>> /\ case.expected_tier = "review"
    BY DEF disruption_cases
  <2>2. f \in QuantileForecast /\ 60 \in Probability /\ scripted_forecast(<<90, 100, 115>>) = f
    BY DEF QuantileForecast, Probability, scripted_forecast
  <2>3. evaluate_escalation(signals(f, TRUE, "neutral", 60)) = "review"
    <3>1. IsReview(signals(f, TRUE, "neutral", 60))
      BY DEF CodeThresholds, signals, IsReview
    <3>2. ~IsCritical(signals(f, TRUE, "neutral", 60))
      <4> DEFINE s == signals(f, TRUE, "neutral", 60)
      <4>1. s.stockout_probability = 60 /\ ~s.missing_signal /\ ~s.macro_shock
        BY DEF signals
      <4> HIDE DEF s
      <4>2. ~IsCritical(s)
        BY <4>1 DEF CodeThresholds, IsCritical
      <4> QED
        BY <4>2 DEF s
    <3> QED
      BY <3>1, <3>2 DEF evaluate_escalation
  <2> HIDE DEF case, f
  <2>4. /\ scripted_forecast(case.quantiles) = f
        /\ case.flag \in BOOLEAN /\ case.sentiment \in Opt(Int) /\ case.prob \in Probability
        /\ "neutral" = IF case.sentiment # NoValue /\ case.sentiment < 55 THEN "shock" ELSE "neutral"
    BY <1>0, <2>1, <2>2
  <2>5. scenario_decision_fn(case).tier
          = evaluate_escalation(signals(f, case.flag, "neutral", case.prob))
    BY <2>2, <2>4, ScriptedDecision, Zenon
  <2> QED
    BY <1>3, <2>1, <2>3, <2>5 DEF case
<1>4. CASE i = 4
  <2> DEFINE case == disruption_cases[4]
             f == [p50 |-> 100, interval_width |-> 80]
  <2>1. /\ case.flag = TRUE /\ case.sentiment = 40 /\ case.prob = 50
        /\ case.quantiles = <<60, 100, 140>> /\ case.expected_tier = "critical"
    BY DEF disruption_cases
  <2>2. f \in QuantileForecast /\ 50 \in Probability /\ scripted_forecast(<<60, 100, 140>>) = f
    BY DEF QuantileForecast, Probability, scripted_forecast
  <2>3. evaluate_escalation(signals(f, TRUE, "shock", 50)) = "critical"
    <3>1. high_uncertainty(f)
      BY DEF CodeThresholds, high_uncertainty, Abs
    <3> HIDE DEF f
    <3> QED
      BY <3>1 DEF evaluate_escalation, signals, IsCritical
  <2> HIDE DEF case, f
  <2>4. /\ scripted_forecast(case.quantiles) = f
        /\ case.flag \in BOOLEAN /\ case.sentiment \in Opt(Int) /\ case.prob \in Probability
        /\ "shock" = IF case.sentiment # NoValue /\ case.sentiment < 55 THEN "shock" ELSE "neutral"
    <3>1. case.sentiment # NoValue /\ case.sentiment < 55
      BY <1>0, <2>1
    <3> QED
      BY <1>0, <2>1, <2>2, <3>1
  <2>5. scenario_decision_fn(case).tier
          = evaluate_escalation(signals(f, case.flag, "shock", case.prob))
    BY <2>2, <2>4, ScriptedDecision, Zenon
  <2> QED
    BY <1>4, <2>1, <2>3, <2>5 DEF case
<1> QED
  BY <1>1, <1>2, <1>3, <1>4

\* While the harness runs the replay, every case so far is a match and is
\* reproducible.
ReplayInv ==
  scripted => matched = results /\ reproducible = results /\ gate # "FAIL"

LEMMA RoundKeepsReplayInv ==
  ASSUME CodeThresholds, EvalInv, ReplayInv, run_routing_eval
  PROVE  ReplayInv'
<1> SUFFICES ASSUME scripted
             PROVE  matched' = results' /\ reproducible' = results' /\ gate' # "FAIL"
  BY DEF ReplayInv, run_routing_eval
<1> DEFINE case == disruption_cases[results + 1]
<1>1. results \in Nat /\ results + 1 \in 1..4
  BY FourCases DEF EvalInv, EvalTypeOK, run_routing_eval
<1>2. PICK tiers \in [1..repeats -> EscalationTier] :
        /\ \A i \in 1..repeats : tiers[i] = scenario_decision_fn(case).tier
        /\ matched' = matched + OneIf(CaseResult(tiers).observed = case.expected_tier)
        /\ reproducible' = reproducible + OneIf(CaseResult(tiers).reproducible)
  BY DEF run_routing_eval
<1>3. scenario_decision_fn(case).tier = case.expected_tier
  BY <1>1, ReplayTier
<1> HIDE DEF case
<1>4. 1 \in 1..repeats
  BY EvalAssumption
<1>5. CaseResult(tiers).observed = case.expected_tier /\ CaseResult(tiers).reproducible
  BY <1>2, <1>3, <1>4 DEF CaseResult
<1>6. matched' = matched + 1 /\ reproducible' = reproducible + 1
  BY <1>2, <1>5 DEF OneIf
<1>7. matched = results /\ reproducible = results /\ gate # "FAIL"
  BY DEF ReplayInv
<1>8. results' = results + 1 /\ gate' = gate
  BY DEF run_routing_eval
<1> QED
  BY <1>6, <1>7, <1>8

LEMMA MainKeepsReplayInv ==
  ASSUME EvalInv, ReplayInv, main, min_reproducibility <= 100, min_accuracy <= 100
  PROVE  ReplayInv'
<1> SUFFICES ASSUME scripted
             PROVE  ReplayInv'
  BY DEF ReplayInv, main
<1>1. matched = 4 /\ reproducible = 4
  BY FourCases DEF ReplayInv, main
<1>2. passes_gate
  BY <1>1, FourCases, EvalAssumption DEF passes_gate
<1> QED
  BY <1>2 DEF ReplayInv, main

\* With the thresholds of the code and any gate that a perfect score passes,
\* the code passes its own gate, however often each case is decided: over the
\* macro tool, the pipeline, the signals and the policy.
THEOREM ReplayPassesHolds ==
  ASSUME CodeThresholds, min_reproducibility <= 100, min_accuracy <= 100
  PROVE  Spec => []ReplayPasses
<1>1. Init => ReplayInv
  BY DEF Init, EvalInit, ReplayInv
<1>2. EvalInv /\ ReplayInv /\ [Next]_vars => ReplayInv'
  <2> SUFFICES ASSUME EvalInv, ReplayInv, [Next]_vars
               PROVE  ReplayInv'
    OBVIOUS
  <2>1. CASE run_routing_eval
    BY <2>1, RoundKeepsReplayInv
  <2>2. CASE main
    BY <2>2, MainKeepsReplayInv
  <2>3. CASE UNCHANGED evalVars
    BY <2>3 DEF ReplayInv, evalVars
  <2> QED
    BY <2>1, <2>2, <2>3 DEF Next, EvalNext, vars
<1>3. ReplayInv => ReplayPasses
  BY DEF ReplayInv, ReplayPasses
<1> QED
  BY <1>1, <1>2, <1>3, Invariance, PTL DEF Spec
-----------------------------------------------------------------------------
\* What drift detection makes of a window of any length.

\* A set of periods of a window is finite.
LEMMA PeriodsFinite ==
  ASSUME NEW S, NEW s \in Seq(S), NEW T \in SUBSET DOMAIN s
  PROVE  IsFiniteSet(T) /\ Cardinality(T) \in Nat
<1>1. DOMAIN s = 1..Len(s) /\ Len(s) \in Nat
  OBVIOUS
<1>2. IsFiniteSet(DOMAIN s)
  BY <1>1, FS_Interval
<1>3. IsFiniteSet(T)
  BY <1>2, FS_Subset
<1> QED
  BY <1>3, FS_CardinalityType

LEMMA RelativeErrorType ==
  ASSUME NEW p \in Pair(Nat)
  PROVE  RelativeError(p) \in Nat
<1>1. p.actual \in Nat /\ p.predicted \in Nat
  BY DEF Pair
<1>2. Error(p) \in Nat
  BY <1>1 DEF Error
<1>3. ASSUME NEW e \in Nat, NEW a \in Nat, a # 0
      PROVE  (Scale * e) \div a \in Nat
  <2>1. Scale * e \in Nat /\ a \in Int /\ a > 0
    BY <1>3, DriftAssumption
  <2>2. ASSUME NEW n \in Nat
        PROVE  n \div a \in Nat
    BY <2>1
  <2> QED
    BY <2>1, <2>2
<1>4. CASE p.actual = 0
  BY <1>4 DEF RelativeError
<1>5. CASE p.actual # 0
  BY <1>1, <1>2, <1>3, <1>5 DEF RelativeError
<1> QED
  BY <1>4, <1>5

\* A right prediction has no error.
LEMMA NoError ==
  ASSUME NEW p \in Pair(Nat), p.predicted = p.actual
  PROVE  RelativeError(p) = 0
<1>1. p.actual \in Nat
  BY DEF Pair
<1>2. Error(p) = 0
  BY <1>1 DEF Error
<1>3. ASSUME NEW a \in Nat, a # 0
      PROVE  (Scale * 0) \div a = 0
  BY <1>3, DriftAssumption
<1> QED
  BY <1>1, <1>2, <1>3 DEF RelativeError

\* The errors of a window as a sequence to be summed.
Errors(demand) == [i \in DOMAIN demand |-> RelativeError(demand[i])]

LEMMA ErrorsType ==
  ASSUME NEW d \in Seq(Pair(Nat))
  PROVE  /\ Errors(d) \in Seq(Int) /\ Len(Errors(d)) = Len(d)
         /\ \A i \in 1..Len(d) : Errors(d)[i] = RelativeError(d[i])
<1>1. \A i \in 1..Len(d) : RelativeError(d[i]) \in Int
  BY RelativeErrorType
<1>2. DOMAIN d = 1..Len(d) /\ Len(d) \in Nat
  OBVIOUS
<1> QED
  BY <1>1, <1>2 DEF Errors

\* What a correction of one prediction leaves as it is.
LEMMA CorrectedPairs ==
  ASSUME NEW S, NEW d \in Seq(Pair(S)), NEW i \in DOMAIN d
  PROVE  /\ Corrected(d, i) \in Seq(Pair(S))
         /\ DOMAIN Corrected(d, i) = DOMAIN d
         /\ Len(Corrected(d, i)) = Len(d)
         /\ \A j \in DOMAIN d : j # i => Corrected(d, i)[j] = d[j]
         /\ Corrected(d, i)[i] = [actual |-> d[i].actual, predicted |-> d[i].actual]
<1> DEFINE p == [d[i] EXCEPT !.predicted = d[i].actual]
<1>1. d[i] \in Pair(S)
  OBVIOUS
<1>2. p = [actual |-> d[i].actual, predicted |-> d[i].actual] /\ p \in Pair(S)
  BY <1>1 DEF Pair
<1>3. Corrected(d, i) = [d EXCEPT ![i] = p]
  BY DEF Corrected
<1> HIDE DEF p
<1> QED
  BY <1>2, <1>3

LEMMA DemandHeals ==
  ASSUME NEW d \in Seq(Pair(Nat)), NEW i \in DOMAIN d, mape_degraded(Corrected(d, i))
  PROVE  mape_degraded(d)
<1> DEFINE c == Corrected(d, i)
           sold == {j \in DOMAIN d : d[j].actual # 0}
<1>1. /\ c \in Seq(Pair(Nat)) /\ DOMAIN c = DOMAIN d /\ Len(c) = Len(d)
      /\ \A j \in DOMAIN d : j # i => c[j] = d[j]
      /\ c[i] = [actual |-> d[i].actual, predicted |-> d[i].actual]
  BY CorrectedPairs
<1> HIDE DEF c
<1>2. {j \in DOMAIN c : c[j].actual # 0} = sold
  BY <1>1
<1>3. \A j \in 1..Len(d) : RelativeError(c[j]) <= RelativeError(d[j])
  <2> SUFFICES ASSUME NEW j \in 1..Len(d)
               PROVE  RelativeError(c[j]) <= RelativeError(d[j])
    OBVIOUS
  <2>1. d[j] \in Pair(Nat) /\ c[j] \in Pair(Nat)
    BY <1>1
  <2>2. RelativeError(d[j]) \in Nat
    BY <2>1, RelativeErrorType
  <2>3. CASE j = i
    <3>1. RelativeError(c[j]) = 0
      BY <1>1, <2>1, <2>3, NoError
    <3> QED
      BY <2>2, <3>1
  <2>4. CASE j # i
    BY <1>1, <2>2, <2>4
  <2> QED
    BY <2>3, <2>4
<1>4. /\ Errors(c) \in Seq(Int) /\ Errors(d) \in Seq(Int) /\ Len(Errors(c)) = Len(Errors(d))
      /\ Len(Errors(c)) = Len(d)
      /\ \A j \in 1..Len(d) : Errors(c)[j] = RelativeError(c[j]) /\ Errors(d)[j] = RelativeError(d[j])
  BY <1>1, ErrorsType
<1>5. \A j \in 1..Len(Errors(c)) : Errors(c)[j] <= Errors(d)[j]
  BY <1>3, <1>4
<1>6. Total(Errors(c)) <= Total(Errors(d)) /\ Total(Errors(c)) \in Int /\ Total(Errors(d)) \in Int
  BY <1>4, <1>5, TotalMonotone, TotalType
<1>7. Cardinality(sold) \in Nat
  BY PeriodsFinite
<1>8. 100 * Total(Errors(c)) > max_mape * (Scale * Cardinality(sold))
  BY <1>2 DEF mape_degraded, Errors, c
<1> DEFINE bound == max_mape * (Scale * Cardinality(sold))
<1>9. bound \in Int
  BY <1>7, DriftAssumption
<1> HIDE DEF bound, sold
<1>10. 100 * Total(Errors(d)) > bound
  BY <1>6, <1>8, <1>9 DEF bound
<1> QED
  BY <1>10 DEF mape_degraded, Errors, bound, sold

\* The F1 test as arithmetic on the three counts.
LEMMA F1Heals ==
  ASSUME NEW tp \in Nat, NEW fp \in Nat, NEW fn \in Nat,
         NEW tp2 \in Nat, NEW fp2 \in Nat, NEW fn2 \in Nat,
         \/ tp2 = tp + 1 /\ fp2 = fp /\ fn2 = fn - 1
         \/ tp2 = tp /\ fp2 = fp - 1 /\ fn2 = fn,
         100 * rolling_f1(tp2, fp2, fn2)[1] < min_f1 * rolling_f1(tp2, fp2, fn2)[2]
  PROVE  100 * rolling_f1(tp, fp, fn)[1] < min_f1 * rolling_f1(tp, fp, fn)[2]
<1>1. min_f1 \in 0..100
  BY DriftAssumption
<1>2. CASE tp2 = 0
  <2>1. tp = 0 /\ 0 < min_f1
    BY <1>1, <1>2 DEF rolling_f1
  <2> QED
    BY <1>1, <2>1 DEF rolling_f1
<1>3. CASE tp2 # 0
  <2> DEFINE all2 == 2 * tp2 + fp2 + fn2
             all == 2 * tp + fp + fn
  <2>1. 200 * tp2 < min_f1 * all2
    BY <1>1, <1>3 DEF rolling_f1
  <2>2. CASE tp = 0
    <3>1. min_f1 # 0
      BY <2>1, <1>3
    <3> QED
      BY <1>1, <2>2, <3>1 DEF rolling_f1
  <2>3. CASE tp # 0
    <3>1. 200 * tp < min_f1 * all
      <4>1. CASE tp2 = tp + 1 /\ fp2 = fp /\ fn2 = fn - 1
        <5>1. all2 = all + 1 /\ all \in Nat
          BY <4>1
        <5> HIDE DEF all, all2
        <5>2. min_f1 * all2 = min_f1 * all + min_f1 /\ min_f1 * all \in Nat
          BY <1>1, <5>1
        <5> QED
          BY <1>1, <2>1, <4>1, <5>2
      <4>2. CASE tp2 = tp /\ fp2 = fp - 1 /\ fn2 = fn
        <5>1. all2 = all - 1 /\ all \in Nat
          BY <4>2
        <5> HIDE DEF all, all2
        <5>2. min_f1 * all2 = min_f1 * all - min_f1 /\ min_f1 * all \in Nat
          BY <1>1, <5>1
        <5> QED
          BY <1>1, <2>1, <4>2, <5>2
      <4> QED
        BY <4>1, <4>2
    <3> QED
      BY <1>1, <2>3, <3>1 DEF rolling_f1
  <2> QED
    BY <2>2, <2>3
<1> QED
  BY <1>2, <1>3

LEMMA EventsHeal ==
  ASSUME NEW d \in Seq(Pair({0, 1})), NEW i \in DOMAIN d, f1_degraded(Corrected(d, i))
  PROVE  f1_degraded(d)
<1> DEFINE c == Corrected(d, i)
           At(s, a, p) == {j \in DOMAIN s : s[j] = [actual |-> a, predicted |-> p]}
<1>1. /\ c \in Seq(Pair({0, 1})) /\ DOMAIN c = DOMAIN d
      /\ \A j \in DOMAIN d : j # i => c[j] = d[j]
      /\ c[i] = [actual |-> d[i].actual, predicted |-> d[i].actual]
  BY CorrectedPairs
<1>2. PICK a \in {0, 1}, p \in {0, 1} : d[i] = [actual |-> a, predicted |-> p]
  <2>1. d[i] \in Pair({0, 1})
    OBVIOUS
  <2> QED
    BY <2>1 DEF Pair
<1>3. c[i] = [actual |-> a, predicted |-> a]
  BY <1>1, <1>2
<1>4. f1_degraded(c)
  OBVIOUS
<1> HIDE DEF c
<1>5. \A x \in {0, 1}, y \in {0, 1} :
        /\ Count(c, x, y) = Cardinality(At(c, x, y)) /\ Count(d, x, y) = Cardinality(At(d, x, y))
        /\ IsFiniteSet(At(c, x, y)) /\ IsFiniteSet(At(d, x, y))
        /\ Count(c, x, y) \in Nat /\ Count(d, x, y) \in Nat
  BY <1>1, PeriodsFinite DEF Count
<1>6. CASE a = p
  <2>1. c = d
    BY <1>1, <1>2, <1>3, <1>6
  <2> QED
    BY <1>4, <2>1
<1>7. CASE a = 1 /\ p = 0
  <2>1. /\ At(c, 1, 1) = At(d, 1, 1) \cup {i} /\ i \notin At(d, 1, 1)
        /\ At(c, 1, 0) = At(d, 1, 0) \ {i} /\ i \in At(d, 1, 0)
        /\ At(c, 0, 1) = At(d, 0, 1)
    BY <1>1, <1>2, <1>3, <1>7
  <2> HIDE DEF At
  <2>2. /\ Cardinality(At(c, 1, 1)) = Cardinality(At(d, 1, 1)) + 1
        /\ Cardinality(At(c, 1, 0)) = Cardinality(At(d, 1, 0)) - 1
    BY <1>5, <2>1, FS_AddElement, FS_RemoveElement
  <2>3. /\ Count(c, 1, 1) = Count(d, 1, 1) + 1
        /\ Count(c, 0, 1) = Count(d, 0, 1)
        /\ Count(c, 1, 0) = Count(d, 1, 0) - 1
    BY <1>5, <2>1, <2>2
  <2>4. 100 * rolling_f1(Count(d, 1, 1), Count(d, 0, 1), Count(d, 1, 0))[1]
          < min_f1 * rolling_f1(Count(d, 1, 1), Count(d, 0, 1), Count(d, 1, 0))[2]
    <3>1. /\ Count(c, 1, 1) \in Nat /\ Count(c, 0, 1) \in Nat /\ Count(c, 1, 0) \in Nat
          /\ Count(d, 1, 1) \in Nat /\ Count(d, 0, 1) \in Nat /\ Count(d, 1, 0) \in Nat
      BY <1>5
    <3>2. 100 * rolling_f1(Count(c, 1, 1), Count(c, 0, 1), Count(c, 1, 0))[1]
            < min_f1 * rolling_f1(Count(c, 1, 1), Count(c, 0, 1), Count(c, 1, 0))[2]
      BY <1>4 DEF f1_degraded
    <3> QED
      BY <2>3, <3>1, <3>2, F1Heals
  <2> QED
    BY <2>4 DEF f1_degraded
<1>8. CASE a = 0 /\ p = 1
  <2>1. /\ At(c, 1, 1) = At(d, 1, 1)
        /\ At(c, 1, 0) = At(d, 1, 0)
        /\ At(c, 0, 1) = At(d, 0, 1) \ {i} /\ i \in At(d, 0, 1)
    BY <1>1, <1>2, <1>3, <1>8
  <2> HIDE DEF At
  <2>2. Cardinality(At(c, 0, 1)) = Cardinality(At(d, 0, 1)) - 1
    BY <1>5, <2>1, FS_RemoveElement
  <2>3. /\ Count(c, 1, 1) = Count(d, 1, 1)
        /\ Count(c, 0, 1) = Count(d, 0, 1) - 1
        /\ Count(c, 1, 0) = Count(d, 1, 0)
    BY <1>5, <2>1, <2>2
  <2>4. 100 * rolling_f1(Count(d, 1, 1), Count(d, 0, 1), Count(d, 1, 0))[1]
          < min_f1 * rolling_f1(Count(d, 1, 1), Count(d, 0, 1), Count(d, 1, 0))[2]
    <3>1. /\ Count(c, 1, 1) \in Nat /\ Count(c, 0, 1) \in Nat /\ Count(c, 1, 0) \in Nat
          /\ Count(d, 1, 1) \in Nat /\ Count(d, 0, 1) \in Nat /\ Count(d, 1, 0) \in Nat
      BY <1>5
    <3>2. 100 * rolling_f1(Count(c, 1, 1), Count(c, 0, 1), Count(c, 1, 0))[1]
            < min_f1 * rolling_f1(Count(c, 1, 1), Count(c, 0, 1), Count(c, 1, 0))[2]
      BY <1>4 DEF f1_degraded
    <3> QED
      BY <2>3, <3>1, <3>2, F1Heals
  <2> QED
    BY <2>4 DEF f1_degraded
<1> QED
  BY <1>6, <1>7, <1>8

\* What a cycle is about to assess is a window.
LEMMA WindowType ==
  ASSUME LifeInv, NEW m \in Cycle, phase[m] = "assessing"
  PROVE  /\ window[m] \in [demand : Seq(Pair(Nat)), events : Seq(Pair({0, 1}))]
         /\ window[m].demand \in Seq(Pair(Nat))
         /\ window[m].events \in Seq(Pair({0, 1}))
BY LifecycleAssumption DEF LifeInv, CycleInv

\* Correcting one prediction of a window of any length, at any thresholds,
\* never starts a retraining that the window as it was would not have started.
THEOREM CorrectionHealsHolds == Spec => []CorrectionHeals
<1>1. LifeInv => CorrectionHeals
  <2> SUFFICES ASSUME LifeInv, NEW m \in Cycle, phase[m] = "assessing",
                      NEW c \in Corrections(window[m]), assess_drift(c)
               PROVE  assess_drift(window[m])
    BY DEF CorrectionHeals
  <2> DEFINE w == window[m]
  <2>1. /\ w \in [demand : Seq(Pair(Nat)), events : Seq(Pair({0, 1}))]
        /\ w.demand \in Seq(Pair(Nat)) /\ w.events \in Seq(Pair({0, 1}))
    BY WindowType
  <2> HIDE DEF w
  <2>2. \/ \E i \in DOMAIN w.demand : c = [w EXCEPT !.demand = Corrected(w.demand, i)]
        \/ \E i \in DOMAIN w.events : c = [w EXCEPT !.events = Corrected(w.events, i)]
    BY DEF Corrections, w
  <2>3. CASE \E i \in DOMAIN w.demand : c = [w EXCEPT !.demand = Corrected(w.demand, i)]
    <3>1. PICK i \in DOMAIN w.demand : c = [w EXCEPT !.demand = Corrected(w.demand, i)]
      BY <2>3
    <3>2. c.demand = Corrected(w.demand, i) /\ c.events = w.events
      BY <2>1, <3>1
    <3> QED
      BY <2>1, <3>2, DemandHeals DEF assess_drift, w
  <2>4. CASE \E i \in DOMAIN w.events : c = [w EXCEPT !.events = Corrected(w.events, i)]
    <3>1. PICK i \in DOMAIN w.events : c = [w EXCEPT !.events = Corrected(w.events, i)]
      BY <2>4
    <3>2. c.events = Corrected(w.events, i) /\ c.demand = w.demand
      BY <2>1, <3>1
    <3> QED
      BY <2>1, <3>2, EventsHeal DEF assess_drift, w
  <2> QED
    BY <2>2, <2>3, <2>4
<1> QED
  BY <1>1, Invariance, PTL

\* Right forecasts have no mean error, whatever the threshold.
LEMMA ExactDemandPasses ==
  ASSUME NEW d \in Seq(Pair(Nat)), IsExact(d)
  PROVE  ~mape_degraded(d)
<1>1. \A i \in 1..Len(d) : Errors(d)[i] = 0
  BY ErrorsType, NoError DEF IsExact
<1>2. Total(Errors(d)) = 0
  BY <1>1, ErrorsType, TotalZero
<1> DEFINE sold == {j \in DOMAIN d : d[j].actual # 0}
<1>3. Cardinality(sold) \in Nat
  BY PeriodsFinite
<1> HIDE DEF sold
<1>4. ~(100 * 0 > max_mape * (Scale * Cardinality(sold)))
  BY <1>3, DriftAssumption
<1> QED
  BY <1>2, <1>4 DEF mape_degraded, Errors, sold

\* Right predictions of events have an F1 of one, or none at all.
LEMMA ExactEventsScore ==
  ASSUME NEW d \in Seq(Pair({0, 1})), IsExact(d), min_f1 # 0
  PROVE  f1_degraded(d) <=> \A i \in DOMAIN d : d[i].actual = 0
<1> DEFINE At(a, p) == {j \in DOMAIN d : d[j] = [actual |-> a, predicted |-> p]}
           tp == Count(d, 1, 1)
           fp == Count(d, 0, 1)
           fn == Count(d, 1, 0)
<1>1. \A j \in DOMAIN d : d[j] = [actual |-> 0, predicted |-> 0] \/ d[j] = [actual |-> 1, predicted |-> 1]
  <2> SUFFICES ASSUME NEW j \in DOMAIN d
               PROVE  d[j] = [actual |-> 0, predicted |-> 0] \/ d[j] = [actual |-> 1, predicted |-> 1]
    OBVIOUS
  <2>1. d[j] \in Pair({0, 1}) /\ d[j].predicted = d[j].actual
    BY DEF IsExact
  <2> QED
    BY <2>1 DEF Pair
<1>2. /\ At(0, 1) = {} /\ At(1, 0) = {}
      /\ At(1, 1) = {} <=> \A j \in DOMAIN d : d[j].actual = 0
  BY <1>1
<1>3. fp = 0 /\ fn = 0
  BY <1>2, FS_EmptySet DEF Count
<1>4. tp = Cardinality(At(1, 1)) /\ tp \in Nat /\ IsFiniteSet(At(1, 1))
  BY PeriodsFinite DEF Count
<1>5. tp = 0 <=> \A j \in DOMAIN d : d[j].actual = 0
  BY <1>2, <1>4, FS_EmptySet
<1>6. f1_degraded(d) <=> 100 * rolling_f1(tp, fp, fn)[1] < min_f1 * rolling_f1(tp, fp, fn)[2]
  BY DEF f1_degraded
<1> HIDE DEF tp, fp, fn
<1>7. CASE tp = 0
  <2>1. 100 * rolling_f1(tp, fp, fn)[1] < min_f1 * rolling_f1(tp, fp, fn)[2]
    BY <1>7, DriftAssumption DEF rolling_f1
  <2> QED
    BY <1>5, <1>6, <1>7, <2>1
<1>8. CASE tp # 0
  <2>1. rolling_f1(tp, fp, fn)[1] = 2 * tp /\ rolling_f1(tp, fp, fn)[2] = 2 * tp
    BY <1>3, <1>4, <1>8 DEF rolling_f1
  <2>2. min_f1 * (2 * tp) <= 100 * (2 * tp)
    BY <1>4, DriftAssumption
  <2>3. ~(100 * (2 * tp) < min_f1 * (2 * tp))
    <3>1. min_f1 * (2 * tp) \in Int /\ 100 * (2 * tp) \in Int
      BY <1>4, DriftAssumption
    <3> QED
      BY <2>2, <3>1
  <2> QED
    BY <1>5, <1>6, <1>8, <2>1, <2>3
<1> QED
  BY <1>7, <1>8

\* Unless the F1 threshold is switched off, a window of right predictions is
\* retrained on just when nothing happened in it.
THEOREM ExactWindowRetrainsIfQuietHolds ==
  ASSUME min_f1 # 0
  PROVE  Spec => []ExactWindowRetrainsIfQuiet
<1>1. LifeInv => ExactWindowRetrainsIfQuiet
  <2> SUFFICES ASSUME LifeInv, NEW m \in Cycle, phase[m] = "assessing",
                      IsExact(window[m].demand), IsExact(window[m].events)
               PROVE  assess_drift(window[m])
                        <=> \A i \in DOMAIN window[m].events : window[m].events[i].actual = 0
    BY DEF ExactWindowRetrainsIfQuiet
  <2>1. ~mape_degraded(window[m].demand)
    BY WindowType, ExactDemandPasses
  <2>2. f1_degraded(window[m].events)
          <=> \A i \in DOMAIN window[m].events : window[m].events[i].actual = 0
    BY WindowType, ExactEventsScore
  <2> QED
    BY <2>1, <2>2 DEF assess_drift
<1> QED
  BY <1>1, Invariance, PTL
=============================================================================
