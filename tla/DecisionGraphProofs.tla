------------------------ MODULE DecisionGraphProofs ------------------------
(***************************************************************************)
(* The decision graph is correct for any number of runs and resume calls,  *)
(* any thresholds and model outputs, and any number of restarts: types, no *)
(* autonomy without an audit record, no escalated run without a planner's  *)
(* outcome, the reversibility of what a run does by itself, and, last, the *)
(* refinement of GovernedDecision.                                         *)
(***************************************************************************)
EXTENDS DecisionGraph, SupervisorProofs

TypeInv == TypeOK /\ ChannelsInv

-----------------------------------------------------------------------------
\* The audit gate returns a decision that differs in its autonomy at most.
LEMMA AuditedDecision ==
  ASSUME NEW d \in SupervisorDecision, NEW written \in BOOLEAN
  PROVE  /\ enforce_audit(d, written) \in SupervisorDecision
         /\ enforce_audit(d, written).tier = d.tier
         /\ enforce_audit(d, written).decision_id = d.decision_id
         /\ enforce_audit(d, written).recommended_actions = d.recommended_actions
         /\ enforce_audit(d, written).autonomous = (d.autonomous /\ written)
<1>1. CASE written
  BY <1>1, SMT DEF enforce_audit, SupervisorDecision
<1>2. CASE ~written
  <2> DEFINE e == [d EXCEPT !.autonomous = FALSE]
  <2>1. enforce_audit(d, written) = e
    BY <1>2 DEF enforce_audit
  <2>2. e \in SupervisorDecision
    BY DEF SupervisorDecision
  <2>3. e.tier = d.tier
    BY DEF SupervisorDecision
  <2>4. e.decision_id = d.decision_id
    BY DEF SupervisorDecision
  <2>5. e.recommended_actions = d.recommended_actions
    BY DEF SupervisorDecision
  <2>6. e.autonomous = FALSE
    BY DEF SupervisorDecision
  <2> HIDE DEF e
  <2> QED
    BY <1>2, <2>1, <2>2, <2>3, <2>4, <2>5, <2>6, Zenon
<1> QED
  BY <1>1, <1>2

\* The record written is one of the store.
LEMMA LoggedRecord ==
  ASSUME NEW r \in Run, NEW d \in SupervisorDecision
  PROVE  /\ log_decision(r, d) \in AuditRecord
         /\ log_decision(r, d).run = r
         /\ log_decision(r, d).autonomous = d.autonomous
BY SMT DEF log_decision, AuditRecord, SupervisorDecision

\* The entries of a decision are entries of the registry, all of its run.
LEMMA EntriesType ==
  ASSUME NEW r \in Run, NEW d \in SupervisorDecision
  PROVE  /\ EntriesOf(r, d) \subseteq RollbackEntry
         /\ \A e \in EntriesOf(r, d) : e.run = r
BY SMT DEF EntriesOf, RollbackEntry, SupervisorDecision

\* A decision is never None.
LEMMA DecisionIsValue ==
  ASSUME NEW d \in SupervisorDecision
  PROVE  d # NoValue
BY PipelineAssumption

\* Whatever the Supervisor is given, it decides.
LEMMA DecideType ==
  ASSUME TypeInv, NEW r \in Run, request[r] \in Request
  PROVE  Decide(r) \in SupervisorDecision
BY SynthesiseType, MissingIsCritical, SMT DEF Decide

-----------------------------------------------------------------------------
LEMMA TypeInit == Init => TypeInv
BY PipelineAssumption, GraphAssumption, SMT
   DEF Init, TypeInv, TypeOK, ChannelsInv, Opt, Decided

LEMMA TypeStart ==
  ASSUME TypeInv, NEW r \in Run, start_decision(r)
  PROVE  TypeInv'
BY SMT DEF TypeInv, TypeOK, ChannelsInv, Opt, Decided, start_decision, calls, auditing

LEMMA TypeSpecialist ==
  ASSUME TypeInv, NEW r \in Run, demand_node(r) \/ logistics_node(r) \/ macro_node(r)
  PROVE  TypeInv'
<1> USE DEF TypeInv, TypeOK, ChannelsInv, Opt, Decided, Returns, calls, auditing, Specialist
<1>1. CASE demand_node(r)
  BY <1>1, SMT DEF demand_node
<1>2. CASE logistics_node(r)
  BY <1>2, SMT DEF logistics_node, anomaly_results
<1>3. CASE macro_node(r)
  BY <1>3, SMT DEF macro_node
<1> QED
  BY <1>1, <1>2, <1>3

LEMMA TypeStockout ==
  ASSUME TypeInv, NEW r \in Run, stockout_node(r)
  PROVE  TypeInv'
BY SMT DEF TypeInv, TypeOK, ChannelsInv, Opt, Decided, stockout_node, stockout_results, Joined, calls, auditing

LEMMA TypeSupervisor ==
  ASSUME TypeInv, NEW r \in Run, supervisor_node(r)
  PROVE  TypeInv'
<1>1. Decide(r) \in SupervisorDecision
  BY DecideType, SMT DEF TypeInv, ChannelsInv, supervisor_node
<1> QED
  BY <1>1, SMT DEF TypeInv, TypeOK, ChannelsInv, Opt, Decided,
                   supervisor_node, channels, calls, auditing

LEMMA TypeAudit ==
  ASSUME TypeInv, NEW r \in Run, audit_node(r)
  PROVE  TypeInv'
<1>1. decision[r] \in SupervisorDecision
  BY SMT DEF TypeInv, ChannelsInv, Decided, audit_node
<1>2. PICK written \in BOOLEAN, recorded \in BOOLEAN :
        /\ audit_log' = IF recorded
                          THEN audit_log \cup {log_decision(r, decision[r])}
                          ELSE audit_log
        /\ logged' = [logged EXCEPT ![r] = written]
  BY DEF audit_node
<1>3. log_decision(r, decision[r]) \in AuditRecord
  BY <1>1, LoggedRecord
<1> QED
  BY <1>1, <1>2, <1>3, SMT
     DEF TypeInv, TypeOK, ChannelsInv, Opt, Decided, audit_node, channels, calls

LEMMA TypeRecord ==
  ASSUME TypeInv, NEW r \in Run,
         \/ record_decision(r) \/ registry_unset(r)
         \/ build_registry(r) \/ build_registry_raises(r)
  PROVE  TypeInv'
<1> USE DEF TypeInv, TypeOK, ChannelsInv, Opt, Decided, channels, calls, auditing
<1>1. CASE registry_unset(r) \/ build_registry_raises(r)
  BY <1>1, SMT DEF registry_unset, build_registry_raises
<1>2. CASE record_decision(r) \/ build_registry(r)
  <2> DEFINE d == enforce_audit(decision[r], logged[r])
  <2>1. /\ pc[r] \in {"recording", "building"}
        /\ decision[r] \in SupervisorDecision /\ logged[r] \in BOOLEAN
    BY <1>2, SMT DEF record_decision, build_registry
  <2>2. d \in SupervisorDecision
    BY <2>1, AuditedDecision
  <2>3. route_after_audit(d) \in {"register", "review"}
    BY SMT DEF route_after_audit
  <2>4. /\ decision' = [decision EXCEPT ![r] = d]
        /\ audit_id' = [audit_id EXCEPT ![r] = logged[r]]
        /\ pc' = [pc EXCEPT ![r] = route_after_audit(d)]
        /\ UNCHANGED <<returned, channels, logged, human, audit_log, registry,
                       answer, calls, crashes>>
        /\ metrics' \in BOOLEAN
    BY <1>2 DEF record_decision, build_registry, Recorded
  <2> HIDE DEF d
  <2> QED
    BY <2>1, <2>2, <2>3, <2>4, SMT
<1> QED
  BY <1>1, <1>2

LEMMA TypeRegister ==
  ASSUME TypeInv, NEW r \in Run, register_reversible_actions(r)
  PROVE  TypeInv'
<1>1. EntriesOf(r, decision[r]) \subseteq RollbackEntry
  BY EntriesType, SMT DEF TypeInv, ChannelsInv, Decided, register_reversible_actions
<1> QED
  BY <1>1, SMT DEF TypeInv, TypeOK, ChannelsInv, Opt, Decided,
                   register_reversible_actions, channels, calls, auditing

LEMMA TypeReview ==
  ASSUME TypeInv, NEW r \in Run,
         review_node(r) \/ review_node_raises(r) \/ create_decision(r)
  PROVE  TypeInv'
<1> USE DEF TypeInv, TypeOK, ChannelsInv, Opt, Decided, channels, calls, auditing
<1>1. CASE review_node(r)
  BY <1>1, SMT DEF review_node
<1>2. CASE review_node_raises(r)
  BY <1>2, SMT DEF review_node_raises
<1>3. CASE create_decision(r)
  BY <1>3, SMT DEF create_decision, AnswerTo
<1> QED
  BY <1>1, <1>2, <1>3

LEMMA TypeResume ==
  ASSUME TypeInv, NEW d \in Delivery, NEW r \in Run,
         resume_decision(d, r) \/ resume_ended(d, r) \/ resume_unknown(d, r)
  PROVE  TypeInv'
<1> USE DEF TypeInv, TypeOK, ChannelsInv, Opt, Decided, channels, calls, auditing, Called
<1>1. CASE resume_decision(d, r)
  BY <1>1, SMT DEF resume_decision
<1>2. CASE resume_ended(d, r)
  BY <1>2, SMT DEF resume_ended
<1>3. CASE resume_unknown(d, r)
  BY <1>3, SMT DEF resume_unknown
<1> QED
  BY <1>1, <1>2, <1>3

LEMMA TypeCall ==
  ASSUME TypeInv, NEW d \in Delivery, CallStep(d)
  PROVE  TypeInv'
<1> USE DEF TypeInv, TypeOK, ChannelsInv, Opt, Decided, channels, calls, auditing
<1>1. CASE resume_finish(d)
  <2>1. pc[target[d]] \in Decided => decision[target[d]] \in SupervisorDecision
    BY <1>1, SMT DEF resume_finish
  <2> QED
    BY <1>1, <2>1, SMT DEF resume_finish
<1>2. CASE resume_raises(d)
  BY <1>2, SMT DEF resume_raises
<1> QED
  BY <1>1, <1>2 DEF CallStep

\* What a restarted process finds of a channel is of the channel's type.
LEMMA KeepType ==
  ASSUME NEW S, NEW channel \in [Run -> S], NEW default \in S
  PROVE  Keep(channel, default) \in [Run -> S]
BY SMT DEF Keep

LEMMA TypeCrash ==
  ASSUME TypeInv, Crash
  PROVE  TypeInv'
<1> DEFINE PCs == {"unused", "specialists", "supervisor", "audit", "recording",
                   "building", "register", "review", "paused", "ended",
                   "raised", "lost"}
<1>1. /\ pc' \in [Run -> PCs]
      /\ returned' \in [Run -> SUBSET Specialist]
      /\ audit_id' \in [Run -> BOOLEAN]
      /\ logged' \in [Run -> BOOLEAN]
  <2>1. "lost" \in PCs /\ {} \in SUBSET Specialist /\ FALSE \in BOOLEAN
    OBVIOUS
  <2> QED
    BY <2>1, KeepType, Zenon DEF TypeInv, TypeOK, Crash
<1>2. /\ request' \in [Run -> Opt(Request)]
      /\ forecast' \in [Run -> Opt(Forecast)]
      /\ anomaly' \in [Run -> Opt(BOOLEAN)]
      /\ macro' \in [Run -> Opt(RegimeLabel)]
      /\ stockout' \in [Run -> Opt(Prob)]
      /\ decision' \in [Run -> Opt(SupervisorDecision)]
      /\ human' \in [Run -> Opt(Delivery)]
  <2>1. \A S : NoValue \in Opt(S)
    BY DEF Opt
  <2> QED
    BY <2>1, KeepType, Zenon DEF TypeInv, TypeOK, Crash
<1>3. /\ audit_log' \subseteq AuditRecord
      /\ registry' \subseteq RollbackEntry
      /\ crashes' \in 0..MaxCrashes
      /\ metrics' \in BOOLEAN
  BY GraphAssumption, SMT DEF TypeInv, TypeOK, Crash
<1>4. /\ answer' \in [Run -> {"none", "completed", "review_required", "error"}]
      /\ call' \in [Delivery -> {"idle", "running", "resolved", "error"}]
      /\ target' \in [Delivery -> Opt(Run)]
      /\ told' \in [Delivery -> Opt(Delivery)]
  BY SMT DEF TypeInv, TypeOK, Crash
<1>5. ChannelsInv'
  BY SMT DEF TypeInv, TypeOK, ChannelsInv, Decided, Crash, Keep, Survives
<1> QED
  BY <1>1, <1>2, <1>3, <1>4, <1>5, Zenon DEF TypeInv, TypeOK

LEMMA TypeStutter ==
  ASSUME TypeInv, UNCHANGED vars
  PROVE  TypeInv'
BY SMT DEF TypeInv, TypeOK, ChannelsInv, Opt, Decided, vars, channels, calls, auditing

LEMMA TypeInvariant == Spec => []TypeInv
<1>1. TypeInv /\ [Next]_vars => TypeInv'
  <2> SUFFICES ASSUME TypeInv, [Next]_vars
               PROVE  TypeInv'
    OBVIOUS
  <2>1. ASSUME NEW r \in Run, start_decision(r) \/ RunStep(r)
        PROVE  TypeInv'
    BY <2>1, TypeStart, TypeSpecialist, TypeStockout, TypeSupervisor, TypeAudit,
       TypeRecord, TypeRegister, TypeReview, Zenon DEF RunStep
  <2>2. ASSUME NEW d \in Delivery, NEW r \in Run,
               resume_decision(d, r) \/ resume_ended(d, r) \/ resume_unknown(d, r)
        PROVE  TypeInv'
    BY <2>2, TypeResume
  <2>3. ASSUME NEW d \in Delivery, CallStep(d)
        PROVE  TypeInv'
    BY <2>3, TypeCall
  <2>4. CASE Crash
    BY <2>4, TypeCrash
  <2>5. CASE UNCHANGED vars
    BY <2>5, TypeStutter
  <2> QED
    BY <2>1, <2>2, <2>3, <2>4, <2>5, Zenon DEF Next
<1> QED
  BY <1>1, TypeInit, PTL DEF Spec

\* Every variable of the graph keeps to its type, for every value of the
\* constants, whatever fails, is answered twice or restarts.
THEOREM TypeCorrect == Spec => []TypeOK
<1>1. TypeInv => TypeOK
  BY DEF TypeInv
<1> QED
  BY <1>1, TypeInvariant, PTL

-----------------------------------------------------------------------------
(***************************************************************************)
(* Governance.  GovernInv is inductive relative to TypeInv; each lemma     *)
(* below takes one group of actions through its three parts.               *)
(***************************************************************************)
GovernInv == GateInv /\ PlannerInv /\ UndoInv

LEMMA GovernInit == Init => GovernInv
BY SMT DEF Init, GovernInv, GateInv, PlannerInv, HumanGate, OutcomeIsThePlanners,
           UndoInv, Decided

\* Before the audit gate: the run has no decision yet that could matter.
LEMMA GovernStart ==
  ASSUME TypeInv, GovernInv, NEW r \in Run, start_decision(r)
  PROVE  GovernInv'
<1> USE DEF TypeInv, TypeOK, ChannelsInv, GovernInv, start_decision, calls, auditing
<1>1. GateInv'
  BY SMT DEF GateInv, Audited
<1>2. PlannerInv'
  BY SMT DEF PlannerInv, HumanGate, OutcomeIsThePlanners
<1>3. UndoInv'
  BY SMT DEF UndoInv, Decided, EntriesOf
<1> QED
  BY <1>1, <1>2, <1>3

LEMMA GovernSpecialist ==
  ASSUME TypeInv, GovernInv, NEW r \in Run,
         demand_node(r) \/ logistics_node(r) \/ macro_node(r)
  PROVE  GovernInv'
<1>1. UNCHANGED <<pc, decision, logged, human, audit_log, registry, answer, calls>>
  BY DEF demand_node, logistics_node, macro_node, Returns, calls, auditing
<1> QED
  BY <1>1, SMT DEF GovernInv, GateInv, Audited, PlannerInv, HumanGate,
                   OutcomeIsThePlanners, UndoInv, EntriesOf, calls, auditing

LEMMA GovernStockout ==
  ASSUME TypeInv, GovernInv, NEW r \in Run, stockout_node(r)
  PROVE  GovernInv'
<1> USE DEF TypeInv, TypeOK, ChannelsInv, GovernInv, stockout_node, Joined, calls, auditing
<1>1. GateInv'
  BY SMT DEF GateInv, Audited
<1>2. PlannerInv'
  BY SMT DEF PlannerInv, HumanGate, OutcomeIsThePlanners
<1>3. UndoInv'
  BY SMT DEF UndoInv, Decided, EntriesOf
<1> QED
  BY <1>1, <1>2, <1>3

\* An autonomous decision of the Supervisor recommends nothing irreversible.
LEMMA DecideReversible ==
  ASSUME TypeInv, NEW r \in Run, request[r] \in Request, Decide(r).autonomous
  PROVE  \A x \in Decide(r).recommended_actions : reversible(x)
<1>1. ~SignalMissing(r)
  BY MissingIsCritical DEF Decide
<1>2. /\ forecast[r] \in QuantileForecast
      /\ anomaly[r] \in BOOLEAN
      /\ macro[r] \in RegimeLabel
      /\ stockout[r] \in Probability
  BY <1>1, GraphAssumption, SMT DEF SignalMissing, TypeInv, TypeOK, Opt
<1>3. Decide(r) = synthesise(request[r], forecast[r], anomaly[r], macro[r], stockout[r])
  BY <1>1 DEF Decide
<1> QED
  BY <1>2, <1>3, AutonomousActionsAreReversible, Zenon

LEMMA GovernSupervisor ==
  ASSUME TypeInv, GovernInv, NEW r \in Run, supervisor_node(r)
  PROVE  GovernInv'
<1> USE DEF TypeInv, TypeOK, ChannelsInv, GovernInv, supervisor_node, calls, auditing
<1>1. GateInv'
  BY SMT DEF GateInv, Audited
<1>2. PlannerInv'
  BY SMT DEF PlannerInv, HumanGate, OutcomeIsThePlanners
<1>3. UndoInv'
  <2>1. Decide(r).autonomous => \A x \in Decide(r).recommended_actions : reversible(x)
    BY DecideReversible, SMT
  <2> QED
    BY <2>1, SMT DEF UndoInv, Decided, EntriesOf
<1> QED
  BY <1>1, <1>2, <1>3

\* The audit gate.  The record is written with the autonomy the decision has
\* before the gate, so that after a write that did not raise the record is there.
LEMMA GovernAudit ==
  ASSUME TypeInv, GovernInv, NEW r \in Run, audit_node(r)
  PROVE  GovernInv'
<1> DEFINE d == decision[r]
<1>1. d \in SupervisorDecision /\ pc[r] = "audit"
  BY SMT DEF TypeInv, ChannelsInv, Decided, audit_node
<1>2. PICK written \in BOOLEAN, recorded \in BOOLEAN :
        /\ written => recorded
        /\ audit_log' = IF recorded THEN audit_log \cup {log_decision(r, d)} ELSE audit_log
        /\ logged' = [logged EXCEPT ![r] = written]
  BY DEF audit_node, AuditWrite
<1>3. log_decision(r, d).run = r /\ log_decision(r, d).autonomous = d.autonomous
  BY <1>1, LoggedRecord
<1>4. \A s \in Run : Audited(s) => Audited(s)'
  BY <1>2, SMT DEF Audited
<1>5. d.autonomous /\ written => Audited(r)'
  <2> SUFFICES ASSUME d.autonomous, written PROVE Audited(r)'
    OBVIOUS
  <2>1. log_decision(r, d) \in audit_log'
    BY <1>2
  <2> QED
    BY <1>3, <2>1 DEF Audited
<1>6. /\ pc' = [pc EXCEPT ![r] = "recording"]
      /\ UNCHANGED <<decision, human, registry, answer, call, target, told>>
  BY DEF audit_node, calls
<1>7. \A x \in registry : x.run \in Run
  BY SMT DEF TypeInv, TypeOK, RollbackEntry
<1> HIDE DEF d
<1>8. GateInv'
  <2> HIDE DEF Audited
  <2> QED
    BY <1>1, <1>2, <1>4, <1>5, <1>6, <1>7, SMT DEF TypeInv, TypeOK, GovernInv, GateInv, d
<1>9. PlannerInv'
  BY <1>1, <1>6, SMT DEF TypeInv, TypeOK, GovernInv, PlannerInv, HumanGate, OutcomeIsThePlanners
<1>10. UndoInv'
  BY <1>1, <1>6, SMT DEF TypeInv, TypeOK, GovernInv, UndoInv, Decided, EntriesOf
<1> QED
  BY <1>8, <1>9, <1>10 DEF GovernInv

\* The return of the node.  The decision is still autonomous only if its write
\* did not raise.
LEMMA GovernRecorded ==
  ASSUME TypeInv, GovernInv, NEW r \in Run, record_decision(r) \/ build_registry(r)
  PROVE  GovernInv'
<1> DEFINE d == decision[r]
           e == enforce_audit(d, logged[r])
<1>1. d \in SupervisorDecision /\ pc[r] \in {"recording", "building"} /\ logged[r] \in BOOLEAN
  BY SMT DEF TypeInv, TypeOK, ChannelsInv, Decided, record_decision, build_registry
<1>2. /\ e \in SupervisorDecision
      /\ e.recommended_actions = d.recommended_actions
      /\ e.autonomous = (d.autonomous /\ logged[r])
  BY <1>1, AuditedDecision
<1>3. /\ decision' = [decision EXCEPT ![r] = e]
      /\ pc' = [pc EXCEPT ![r] = IF e.autonomous THEN "register" ELSE "review"]
      /\ UNCHANGED <<logged, human, audit_log, registry, answer, call, target, told>>
  BY DEF record_decision, build_registry, Recorded, route_after_audit, calls
<1>4. \A s \in Run : Audited(s)' = Audited(s)
  BY <1>3 DEF Audited
<1>5. e.autonomous => Audited(r)
  BY <1>1, <1>2 DEF GovernInv, GateInv, d
<1>6. /\ pc \in [Run -> {"unused", "specialists", "supervisor", "audit", "recording",
                         "building", "register", "review", "paused", "ended",
                         "raised", "lost"}]
      /\ decision \in [Run -> Opt(SupervisorDecision)]
      /\ \A x \in registry : x.run \in Run
  BY DEF TypeInv, TypeOK, RollbackEntry
<1> HIDE DEF d, e
<1>7. GateInv'
  <2> HIDE DEF Audited
  <2> QED
    BY <1>1, <1>3, <1>4, <1>5, <1>6, SMT DEF GovernInv, GateInv
<1>8. PlannerInv'
  BY <1>1, <1>3, <1>6, SMT DEF GovernInv, PlannerInv, HumanGate, OutcomeIsThePlanners
<1>9. UndoInv'
  <2> SUFFICES ASSUME NEW s \in Run, pc'[s] \in Decided, decision'[s].autonomous
               PROVE  /\ \A x \in decision'[s].recommended_actions : reversible(x)
                      /\ pc'[s] = "ended" /\ answer'[s] = "none" =>
                           EntriesOf(s, decision'[s]) \subseteq registry'
    BY Zenon DEF UndoInv, EntriesOf
  <2>1. CASE s = r
    <3>1. decision'[s] = e /\ pc'[s] # "ended"
      BY <1>3, <1>6, <2>1, SMT
    <3>2. \A x \in d.recommended_actions : reversible(x)
      BY <1>1, <1>2, <2>1, <3>1 DEF GovernInv, UndoInv, Decided, d
    <3> QED
      BY <1>2, <3>1, <3>2
  <2>2. CASE s # r
    <3>1. decision'[s] = decision[s] /\ pc'[s] = pc[s]
      BY <1>3, <1>6, <2>2, SMT
    <3> QED
      BY <1>3, <3>1, Zenon DEF GovernInv, UndoInv
  <2> QED
    BY <2>1, <2>2
<1> QED
  BY <1>7, <1>8, <1>9 DEF GovernInv

\* The metrics registry, when it is missing: the decision is not touched.
LEMMA GovernMetrics ==
  ASSUME TypeInv, GovernInv, NEW r \in Run, registry_unset(r) \/ build_registry_raises(r)
  PROVE  GovernInv'
<1> USE DEF TypeInv, TypeOK, ChannelsInv, GovernInv, registry_unset,
            build_registry_raises, calls, auditing
<1>1. GateInv'
  BY SMT DEF GateInv, Audited
<1>2. PlannerInv'
  BY SMT DEF PlannerInv, HumanGate, OutcomeIsThePlanners
<1>3. UndoInv'
  BY SMT DEF UndoInv, Decided, EntriesOf
<1> QED
  BY <1>1, <1>2, <1>3

\* Registration: an autonomous run ends with all its reversible actions in
\* the registry, its record being in the audit store already.
LEMMA GovernRegister ==
  ASSUME TypeInv, GovernInv, NEW r \in Run, register_reversible_actions(r)
  PROVE  GovernInv'
<1>1. decision[r] \in SupervisorDecision /\ pc[r] = "register" /\ decision[r].autonomous
  BY SMT DEF TypeInv, ChannelsInv, Decided, GovernInv, GateInv, register_reversible_actions
<1>2. \A e \in EntriesOf(r, decision[r]) : e.run = r
  BY <1>1, EntriesType
<1> USE DEF TypeInv, TypeOK, ChannelsInv, GovernInv, register_reversible_actions, calls, auditing
<1>3. GateInv'
  BY <1>1, <1>2, SMT DEF GateInv, Audited
<1>4. PlannerInv'
  BY <1>1, SMT DEF PlannerInv, HumanGate, OutcomeIsThePlanners
<1>5. UndoInv'
  BY <1>1, SMT DEF UndoInv, Decided
<1> QED
  BY <1>3, <1>4, <1>5

\* Review: the run that pauses or raises is not autonomous.
LEMMA GovernReview ==
  ASSUME TypeInv, GovernInv, NEW r \in Run, review_node(r) \/ review_node_raises(r)
  PROVE  GovernInv'
<1> USE DEF TypeInv, TypeOK, ChannelsInv, GovernInv, review_node, review_node_raises, calls, auditing
<1>1. GateInv'
  BY SMT DEF GateInv, Audited
<1>2. PlannerInv'
  BY SMT DEF PlannerInv, HumanGate, OutcomeIsThePlanners
<1>3. UndoInv'
  BY SMT DEF UndoInv, Decided, EntriesOf
<1> QED
  BY <1>1, <1>2, <1>3

\* The answer "completed" goes to runs that ended before any planner could
\* know of them, hence to autonomous ones.
LEMMA GovernAnswer ==
  ASSUME TypeInv, GovernInv, NEW r \in Run, create_decision(r)
  PROVE  GovernInv'
<1> USE DEF TypeInv, TypeOK, ChannelsInv, GovernInv, create_decision, AnswerTo, calls, auditing
<1>1. pc[r] = "ended" => human[r] = NoValue
  BY SMT DEF PlannerInv, OutcomeIsThePlanners
<1>2. pc[r] = "ended" => Audited(r)
  BY <1>1, SMT DEF PlannerInv, HumanGate, GateInv
<1>3. GateInv'
  BY <1>2, SMT DEF GateInv, Audited
<1>4. PlannerInv'
  BY <1>1, SMT DEF PlannerInv, HumanGate, OutcomeIsThePlanners, GateInv
<1>5. UndoInv'
  BY SMT DEF UndoInv, Decided, EntriesOf
<1> QED
  BY <1>3, <1>4, <1>5

\* A resume call takes hold of a thread: one that is paused has announced its
\* review, because only an answered run can be named and a completed one has
\* ended.
LEMMA GovernResume ==
  ASSUME TypeInv, GovernInv, NEW d \in Delivery, NEW r \in Run,
         resume_decision(d, r) \/ resume_ended(d, r) \/ resume_unknown(d, r)
  PROVE  GovernInv'
<1> USE DEF TypeInv, TypeOK, ChannelsInv, GovernInv, resume_decision, resume_ended,
            resume_unknown, Called, Knows, calls, auditing
<1>1. GateInv'
  BY SMT DEF GateInv, Audited
<1>2. PlannerInv'
  <2>1. CASE resume_decision(d, r)
    BY <2>1, SMT DEF PlannerInv, HumanGate, OutcomeIsThePlanners, Opt
  <2>2. CASE resume_ended(d, r)
    BY <2>2, SMT DEF PlannerInv, HumanGate, OutcomeIsThePlanners, Opt
  <2>3. CASE resume_unknown(d, r)
    BY <2>3, SMT DEF PlannerInv, HumanGate, OutcomeIsThePlanners, Opt
  <2> QED
    BY <2>1, <2>2, <2>3
<1>3. UndoInv'
  BY SMT DEF UndoInv, Decided, EntriesOf
<1> QED
  BY <1>1, <1>2, <1>3

\* A running call finishes on a thread whose decision is not autonomous,
\* whether another call has ended it in the meantime or not.
LEMMA GovernCall ==
  ASSUME TypeInv, GovernInv, NEW d \in Delivery, CallStep(d)
  PROVE  GovernInv'
<1>1. CASE resume_finish(d)
  <2> DEFINE r == target[d]
  <2>1. /\ r \in Run /\ pc[r] \in {"paused", "ended"}
        /\ answer[r] = "review_required"
        /\ ~decision[r].autonomous
    BY <1>1, SMT DEF resume_finish, TypeInv, ChannelsInv, GovernInv, PlannerInv
  <2>2. d # NoValue
    BY NoValueAssumption
  <2> USE <1>1 DEF TypeInv, TypeOK, ChannelsInv, GovernInv, resume_finish, auditing
  <2>3. GateInv'
    BY <2>1, SMT DEF GateInv, Audited
  <2>4. PlannerInv'
    BY <2>1, <2>2, SMT DEF PlannerInv, HumanGate, OutcomeIsThePlanners
  <2>5. UndoInv'
    BY <2>1, SMT DEF UndoInv, Decided, EntriesOf
  <2> QED
    BY <2>3, <2>4, <2>5
<1>2. CASE resume_raises(d)
  <2> USE <1>2 DEF TypeInv, TypeOK, ChannelsInv, GovernInv, resume_raises, auditing
  <2>1. GateInv'
    BY SMT DEF GateInv, Audited
  <2>2. PlannerInv'
    BY SMT DEF PlannerInv, HumanGate, OutcomeIsThePlanners
  <2>3. UndoInv'
    BY SMT DEF UndoInv, Decided, EntriesOf
  <2> QED
    BY <2>1, <2>2, <2>3
<1> QED
  BY <1>1, <1>2 DEF CallStep

\* A restart forgets runs, calls and the registry, but neither an answer nor
\* an audit record.
LEMMA GovernCrash ==
  ASSUME TypeInv, GovernInv, Crash
  PROVE  GovernInv'
<1> USE DEF TypeInv, TypeOK, ChannelsInv, GovernInv, Crash, Keep, Survives
<1>1. GateInv'
  BY SMT DEF GateInv, Audited
<1>2. PlannerInv'
  <2> USE DEF PlannerInv
  <2>1. HumanGate'
    BY SMT DEF HumanGate
  <2>2. OutcomeIsThePlanners'
    BY NoValueAssumption, SMT DEF OutcomeIsThePlanners, Opt
  <2>3. \A r \in Run : pc'[r] # "ended" => human'[r] = NoValue
    BY SMT
  <2>4. \A r \in Run : answer'[r] = "completed" => pc'[r] \in {"ended", "lost"}
    BY SMT
  <2>5. \A r \in Run : answer'[r] = "review_required" =>
          /\ pc'[r] \in {"paused", "ended", "lost"}
          /\ pc'[r] # "lost" => ~decision'[r].autonomous
          /\ DurableCheckpoints => pc'[r] # "lost"
    BY SMT
  <2>6. \A d \in Delivery : call'[d] # "running"
    BY SMT
  <2> QED
    BY <2>1, <2>2, <2>3, <2>4, <2>5, <2>6, Zenon
<1>3. UndoInv'
  BY SMT DEF UndoInv, Decided, EntriesOf
<1> QED
  BY <1>1, <1>2, <1>3

LEMMA GovernStutter ==
  ASSUME TypeInv, GovernInv, UNCHANGED vars
  PROVE  GovernInv'
BY SMT DEF GovernInv, GateInv, Audited, PlannerInv, HumanGate,
           OutcomeIsThePlanners, UndoInv, EntriesOf, vars, calls, auditing

LEMMA GatesCorrect == Spec => []GovernInv
<1>1. TypeInv /\ GovernInv /\ [Next]_vars => GovernInv'
  <2> SUFFICES ASSUME TypeInv, GovernInv, [Next]_vars
               PROVE  GovernInv'
    OBVIOUS
  <2>1. ASSUME NEW r \in Run, start_decision(r) \/ RunStep(r)
        PROVE  GovernInv'
    BY <2>1, GovernStart, GovernSpecialist, GovernStockout, GovernSupervisor,
       GovernAudit, GovernRecorded, GovernMetrics, GovernRegister, GovernReview, GovernAnswer, Zenon DEF RunStep
  <2>2. ASSUME NEW d \in Delivery, NEW r \in Run,
               resume_decision(d, r) \/ resume_ended(d, r) \/ resume_unknown(d, r)
        PROVE  GovernInv'
    BY <2>2, GovernResume
  <2>3. ASSUME NEW d \in Delivery, CallStep(d)
        PROVE  GovernInv'
    BY <2>3, GovernCall
  <2>4. CASE Crash
    BY <2>4, GovernCrash
  <2>5. CASE UNCHANGED vars
    BY <2>5, GovernStutter
  <2> QED
    BY <2>1, <2>2, <2>3, <2>4, <2>5, Zenon DEF Next
<1> QED
  BY <1>1, GovernInit, TypeInvariant, PTL DEF Spec

-----------------------------------------------------------------------------
(***************************************************************************)
(* Two parts that need the types only: what is in the registry, and what   *)
(* an autonomous decision rests on.                                        *)
(***************************************************************************)
LEMMA RegistryInit == Init => RegistryInv
BY SMT DEF Init, RegistryInv

\* Before the registration a run has no entry, and no answer.
LEMMA RegistryRun ==
  ASSUME TypeInv, RegistryInv, NEW r \in Run, start_decision(r) \/ RunStep(r)
  PROVE  RegistryInv'
<1> USE DEF TypeInv, TypeOK, ChannelsInv, RegistryInv, RollbackEntry
<1>1. CASE start_decision(r)
  BY <1>1, SMT DEF start_decision
<1>2. CASE demand_node(r) \/ logistics_node(r) \/ macro_node(r)
  BY <1>2, SMT DEF demand_node, logistics_node, macro_node, Returns
<1>3. CASE stockout_node(r) \/ supervisor_node(r) \/ audit_node(r)
  BY <1>3, SMT DEF stockout_node, Joined, supervisor_node, audit_node
<1>4. CASE registry_unset(r) \/ build_registry_raises(r)
  BY <1>4, SMT DEF registry_unset, build_registry_raises
<1>5. CASE record_decision(r) \/ build_registry(r)
  BY <1>5, SMT DEF record_decision, build_registry, Recorded, route_after_audit
<1>6. CASE register_reversible_actions(r)
  <2>1. decision[r] \in SupervisorDecision /\ pc[r] = "register"
    BY <1>6, SMT DEF Decided, register_reversible_actions
  <2>2. \A e \in EntriesOf(r, decision[r]) : e.run = r
    BY <2>1, EntriesType
  <2> QED
    BY <1>6, <2>1, <2>2, SMT DEF register_reversible_actions
<1>7. CASE review_node(r) \/ review_node_raises(r)
  BY <1>7, SMT DEF review_node, review_node_raises
<1>8. CASE create_decision(r)
  BY <1>8, SMT DEF create_decision, AnswerTo
<1> QED
  BY <1>1, <1>2, <1>3, <1>4, <1>5, <1>6, <1>7, <1>8 DEF RunStep

\* Neither calls nor a restart add an entry, and a restart empties the registry.
LEMMA RegistryRest ==
  ASSUME TypeInv, RegistryInv,
         \/ \E d \in Delivery, r \in Run :
              resume_decision(d, r) \/ resume_ended(d, r) \/ resume_unknown(d, r)
         \/ \E d \in Delivery : CallStep(d)
         \/ Crash
         \/ UNCHANGED vars
  PROVE  RegistryInv'
<1> USE DEF TypeInv, TypeOK, ChannelsInv, RegistryInv, RollbackEntry
<1>1. ASSUME NEW d \in Delivery, NEW r \in Run,
             resume_decision(d, r) \/ resume_ended(d, r) \/ resume_unknown(d, r)
      PROVE  RegistryInv'
  BY <1>1, SMT DEF resume_decision, resume_ended, resume_unknown
<1>2. ASSUME NEW d \in Delivery, CallStep(d)
      PROVE  RegistryInv'
  BY <1>2, SMT DEF CallStep, resume_finish, resume_raises
<1>3. CASE Crash
  BY <1>3, SMT DEF Crash, Keep, Survives
<1>4. CASE UNCHANGED vars
  BY <1>4, SMT DEF vars
<1> QED
  BY <1>1, <1>2, <1>3, <1>4

LEMMA RegistryCorrect == Spec => []RegistryInv
<1>1. TypeInv /\ RegistryInv /\ [Next]_vars => RegistryInv'
  BY RegistryRun, RegistryRest DEF Next
<1> QED
  BY <1>1, RegistryInit, TypeInvariant, PTL DEF Spec

\* An autonomous decision of the Supervisor has its four values.
LEMMA DecideOnPicture ==
  ASSUME TypeInv, NEW r \in Run, request[r] \in Request, Decide(r).autonomous
  PROVE  /\ NoValue \notin {forecast[r], anomaly[r], macro[r], stockout[r]}
         /\ stockout[r] < REVIEW_MIN_PROB
<1>1. ~SignalMissing(r)
  BY MissingIsCritical DEF Decide
<1>2. /\ forecast[r] \in QuantileForecast
      /\ anomaly[r] \in BOOLEAN
      /\ macro[r] \in RegimeLabel
      /\ stockout[r] \in Probability
  BY <1>1, GraphAssumption, SMT DEF SignalMissing, TypeInv, TypeOK, Opt
<1>3. Decide(r) = synthesise(request[r], forecast[r], anomaly[r], macro[r], stockout[r])
  BY <1>1 DEF Decide
<1>4. stockout[r] < REVIEW_MIN_PROB
  BY <1>2, <1>3, AutonomyCharacterised
<1> QED
  BY <1>1, <1>4 DEF SignalMissing

\* No step after the Supervisor's changes a channel the decision rests on, or
\* makes a decision autonomous.
LEMMA PictureStep ==
  ASSUME TypeInv, AutonomyNeedsFullPicture, [Next]_vars
  PROVE  AutonomyNeedsFullPicture'
<1> DEFINE Picture == <<forecast, anomaly, macro, stockout>>
<1> USE DEF TypeInv, TypeOK, AutonomyNeedsFullPicture
<1>1. ASSUME UNCHANGED <<Picture, decision>>
      PROVE  AutonomyNeedsFullPicture'
  BY <1>1
<1>2. ASSUME NEW r \in Run, start_decision(r) \/ RunStep(r)
      PROVE  AutonomyNeedsFullPicture'
  <2>1. CASE \/ start_decision(r) \/ audit_node(r) \/ registry_unset(r)
             \/ build_registry_raises(r) \/ register_reversible_actions(r)
             \/ review_node(r) \/ review_node_raises(r) \/ create_decision(r)
    BY <1>1, <2>1 DEF start_decision, audit_node, registry_unset, build_registry_raises,
       register_reversible_actions, review_node, review_node_raises, create_decision, channels
  <2>2. CASE demand_node(r) \/ logistics_node(r) \/ macro_node(r) \/ stockout_node(r)
    <3>1. decision[r] = NoValue
      BY <2>2, SMT DEF ChannelsInv, Decided, demand_node, logistics_node, macro_node, Returns,
                       stockout_node, Joined
    <3> QED
      BY <2>2, <3>1, SMT DEF demand_node, logistics_node, macro_node, Returns, stockout_node
  <2>3. CASE supervisor_node(r)
    <3>1. Decide(r).autonomous =>
            /\ NoValue \notin {forecast[r], anomaly[r], macro[r], stockout[r]}
            /\ stockout[r] < REVIEW_MIN_PROB
      BY <2>3, DecideOnPicture, SMT DEF supervisor_node, ChannelsInv
    <3> QED
      BY <2>3, <3>1, SMT DEF supervisor_node, channels
  <2>4. CASE record_decision(r) \/ build_registry(r)
    <3> DEFINE e == enforce_audit(decision[r], logged[r])
    <3>1. decision[r] \in SupervisorDecision /\ logged[r] \in BOOLEAN
      BY <2>4, SMT DEF ChannelsInv, Decided, record_decision, build_registry
    <3>2. e.autonomous => decision[r].autonomous /\ decision[r] # NoValue
      BY <3>1, AuditedDecision, DecisionIsValue
    <3>3. decision' = [decision EXCEPT ![r] = e] /\ UNCHANGED Picture
      BY <2>4 DEF record_decision, build_registry, Recorded, channels
    <3> HIDE DEF e
    <3> QED
      BY <3>2, <3>3, SMT
  <2> QED
    BY <1>2, <2>1, <2>2, <2>3, <2>4 DEF RunStep
<1>3. ASSUME NEW d \in Delivery, NEW r \in Run,
             resume_decision(d, r) \/ resume_ended(d, r) \/ resume_unknown(d, r)
      PROVE  AutonomyNeedsFullPicture'
  BY <1>1, <1>3 DEF resume_decision, resume_ended, resume_unknown, channels
<1>4. ASSUME NEW d \in Delivery, CallStep(d)
      PROVE  AutonomyNeedsFullPicture'
  BY <1>1, <1>4 DEF CallStep, resume_finish, resume_raises, channels
<1>5. CASE Crash
  BY <1>5, SMT DEF Crash, Keep
<1>6. CASE UNCHANGED vars
  BY <1>1, <1>6 DEF vars, channels
<1> QED
  BY <1>2, <1>3, <1>4, <1>5, <1>6, Zenon DEF Next

\* Autonomy needs the full picture: whatever fails among the agents, for any
\* number of runs, an autonomous decision rests on four values and a
\* probability below the review band.
THEOREM AutonomyNeedsFullPictureHolds == Spec => []AutonomyNeedsFullPicture
<1>1. Init => AutonomyNeedsFullPicture
  BY DEF Init, AutonomyNeedsFullPicture
<1> QED
  BY <1>1, PictureStep, TypeInvariant, PTL DEF Spec

-----------------------------------------------------------------------------
\* The gate as one formula: it takes autonomy away unless the write succeeded.
LEMMA AuditClears ==
  ASSUME NEW d \in SupervisorDecision, NEW written \in BOOLEAN
  PROVE  enforce_audit(d, written) = [d EXCEPT !.autonomous = @ /\ written]
<1> DEFINE e == [d EXCEPT !.autonomous = d.autonomous /\ written]
<1>1. CASE written
  <2>1. d.autonomous \in BOOLEAN /\ d = [d EXCEPT !.autonomous = d.autonomous]
    BY SMT DEF SupervisorDecision
  <2>2. (d.autonomous /\ written) = d.autonomous
    BY <1>1, <2>1, Zenon
  <2> QED
    BY <1>1, <2>1, <2>2, Zenon DEF enforce_audit
<1>2. CASE ~written
  <2>1. (d.autonomous /\ written) = FALSE
    BY <1>2, Zenon
  <2> QED
    BY <1>2, <2>1, Zenon DEF enforce_audit
<1> QED
  BY <1>1, <1>2

\* supervisor_node and the reference runner decide alike on one run's channels.
LEMMA DecideAgrees ==
  ASSUME NEW r \in Run
  PROVE  Decide(r) = PipelineDecision(r)
BY SMT DEF Decide, SignalMissing, PipelineDecision, run_pipeline, SomeRaises

\* What GraphAgrees says of one run.
AgreesOn(r) ==
  /\ pc[r] \in {"audit", "recording", "building"} => decision[r] = PipelineDecision(r)
  /\ pc[r] \in {"register", "review", "paused", "ended"} =>
       decision[r] = [PipelineDecision(r) EXCEPT !.autonomous = @ /\ audit_id[r]]

\* A run's own channels are all its agreement depends on.
LEMMA AgreesKept ==
  ASSUME NEW r \in Run, AgreesOn(r),
         request'[r] = request[r], forecast'[r] = forecast[r], anomaly'[r] = anomaly[r],
         macro'[r] = macro[r], stockout'[r] = stockout[r],
         decision'[r] = decision[r], audit_id'[r] = audit_id[r],
         \/ pc'[r] = pc[r]
         \/ pc[r] \in {"audit", "recording", "building"} /\ pc'[r] \in {"recording", "building"}
         \/ /\ pc[r] \in {"register", "review", "paused", "ended"}
            /\ pc'[r] \in {"paused", "ended"}
         \/ pc'[r] \in {"unused", "specialists", "supervisor", "raised", "lost"}
  PROVE  AgreesOn(r)'
<1>1. PipelineDecision(r)' = PipelineDecision(r)
  BY Zenon DEF PipelineDecision
<1> QED
  BY <1>1, SMT DEF AgreesOn

\* Only supervisor_node and the gate write a decision: the first as the runner
\* decides, the second what audit_id records.
LEMMA AgreesStep ==
  ASSUME TypeInv, GraphAgrees, [Next]_vars
  PROVE  GraphAgrees'
<1>1. \A r \in Run : AgreesOn(r)
  BY DEF GraphAgrees, AgreesOn
<1>2. SUFFICES ASSUME NEW r \in Run
               PROVE  AgreesOn(r)'
  BY DEF GraphAgrees, AgreesOn
<1> USE <1>1 DEF TypeInv, TypeOK
<1>3. ASSUME UNCHANGED <<pc, channels, decision, audit_id>>
      PROVE  AgreesOn(r)'
  BY <1>3, AgreesKept DEF channels
<1>4. ASSUME NEW s \in Run, start_decision(s) \/ RunStep(s)
      PROVE  AgreesOn(r)'
  <2>1. CASE s # r
    <3>1. /\ pc'[r] = pc[r] /\ decision'[r] = decision[r] /\ audit_id'[r] = audit_id[r]
          /\ request'[r] = request[r] /\ forecast'[r] = forecast[r]
          /\ anomaly'[r] = anomaly[r] /\ macro'[r] = macro[r] /\ stockout'[r] = stockout[r]
      BY <1>4, <2>1, SMT
         DEF start_decision, RunStep, demand_node, logistics_node, macro_node, Returns,
             stockout_node, supervisor_node, audit_node, record_decision, Recorded,
             registry_unset, build_registry, build_registry_raises,
             register_reversible_actions, review_node, review_node_raises,
             create_decision, channels, auditing
    <3> QED
      BY <3>1, AgreesKept
  <2>2. CASE s = r
    <3>1. CASE start_decision(r) \/ demand_node(r) \/ logistics_node(r) \/ macro_node(r)
               \/ stockout_node(r) \/ build_registry_raises(r) \/ review_node_raises(r)
      <4>1. pc'[r] \in {"specialists", "supervisor", "raised"}
        BY <3>1, SMT DEF start_decision, demand_node, logistics_node, macro_node, Returns,
                         stockout_node, build_registry_raises, review_node_raises
      <4> QED
        BY <4>1, SMT DEF AgreesOn
    <3>2. CASE supervisor_node(r)
      <4>1. pc'[r] = "audit" /\ decision'[r] = Decide(r) /\ UNCHANGED channels
        BY <3>2, SMT DEF supervisor_node
      <4>2. PipelineDecision(r)' = PipelineDecision(r)
        BY <4>1, Zenon DEF PipelineDecision, channels
      <4>3. decision'[r] = PipelineDecision(r)'
        BY <4>1, <4>2, DecideAgrees, Zenon
      <4> QED
        BY <4>1, <4>3, SMT DEF AgreesOn
    <3>3. CASE audit_node(r) \/ registry_unset(r) \/ register_reversible_actions(r)
               \/ review_node(r) \/ create_decision(r)
      <4>1. UNCHANGED <<channels, decision, audit_id>>
        BY <3>3 DEF audit_node, registry_unset, register_reversible_actions, review_node,
                    create_decision, auditing
      <4>2. \/ pc'[r] = pc[r]
            \/ pc[r] \in {"audit", "recording"} /\ pc'[r] \in {"recording", "building"}
            \/ pc[r] \in {"register", "review"} /\ pc'[r] \in {"paused", "ended"}
        BY <3>3, SMT DEF audit_node, registry_unset, register_reversible_actions,
                         review_node, create_decision
      <4> QED
        BY <4>1, <4>2, AgreesKept DEF channels
    <3>4. CASE record_decision(r) \/ build_registry(r)
      <4>1. /\ pc[r] \in {"recording", "building"}
            /\ Recorded(r)
        BY <3>4 DEF record_decision, build_registry
      <4>2. /\ pc'[r] \in {"register", "review"}
            /\ decision'[r] = enforce_audit(decision[r], logged[r])
            /\ audit_id'[r] = logged[r]
            /\ UNCHANGED channels
        BY <4>1, SMT DEF Recorded, route_after_audit
      <4>3. decision[r] \in SupervisorDecision /\ logged[r] \in BOOLEAN
        BY <4>1, SMT DEF ChannelsInv, Decided
      <4>4. decision'[r] = [decision[r] EXCEPT !.autonomous = @ /\ audit_id'[r]]
        BY <4>2, <4>3, AuditClears, Zenon
      <4>5. decision[r] = PipelineDecision(r)
        BY <1>1, <4>1, SMT DEF AgreesOn
      <4>6. PipelineDecision(r)' = PipelineDecision(r)
        BY <4>2, Zenon DEF PipelineDecision, channels
      <4>7. decision'[r] = [PipelineDecision(r)' EXCEPT !.autonomous = @ /\ audit_id'[r]]
        BY <4>4, <4>5, <4>6, Zenon
      <4> QED
        BY <4>2, <4>7, SMT DEF AgreesOn
    <3> QED
      BY <1>4, <2>2, <3>1, <3>2, <3>3, <3>4 DEF RunStep
  <2> QED
    BY <2>1, <2>2
<1>5. ASSUME NEW d \in Delivery, NEW s \in Run,
             resume_decision(d, s) \/ resume_ended(d, s) \/ resume_unknown(d, s)
      PROVE  AgreesOn(r)'
  BY <1>3, <1>5 DEF resume_decision, resume_ended, resume_unknown, auditing
<1>6. ASSUME NEW d \in Delivery, CallStep(d)
      PROVE  AgreesOn(r)'
  <2>1. CASE resume_finish(d)
    <3>1. UNCHANGED <<channels, decision, audit_id>>
      BY <2>1 DEF resume_finish, auditing
    <3>2. \/ pc'[r] = pc[r]
          \/ pc[r] \in {"paused", "ended"} /\ pc'[r] = "ended"
      BY <2>1, SMT DEF resume_finish, ChannelsInv
    <3> QED
      BY <3>1, <3>2, AgreesKept DEF channels
  <2>2. CASE resume_raises(d)
    BY <1>3, <2>2 DEF resume_raises, auditing
  <2> QED
    BY <1>6, <2>1, <2>2 DEF CallStep
<1>7. CASE Crash
  <2>1. CASE Survives(r)
    <3>1. /\ pc'[r] = pc[r] /\ decision'[r] = decision[r] /\ audit_id'[r] = audit_id[r]
          /\ request'[r] = request[r] /\ forecast'[r] = forecast[r]
          /\ anomaly'[r] = anomaly[r] /\ macro'[r] = macro[r] /\ stockout'[r] = stockout[r]
      BY <1>7, <2>1, SMT DEF Crash, Keep
    <3> QED
      BY <3>1, AgreesKept
  <2>2. CASE ~Survives(r)
    <3>1. pc'[r] = "lost"
      BY <1>7, <2>2, SMT DEF Crash, Keep
    <3> QED
      BY <3>1, SMT DEF AgreesOn
  <2> QED
    BY <2>1, <2>2
<1>8. CASE UNCHANGED vars
  BY <1>3, <1>8 DEF vars, auditing
<1> QED
  BY <1>4, <1>5, <1>6, <1>7, <1>8, Zenon DEF Next

\* Orchestration adds no logic of its own (ADR-0003): for any agents' results,
\* any order of returns, failures, restarts and overlapping resumes, a run's
\* decision is run_pipeline's, less the autonomy its audit did not leave it.
THEOREM GraphAgreesHolds == Spec => []GraphAgrees
<1>1. Init => GraphAgrees
  BY DEF Init, GraphAgrees
<1> QED
  BY <1>1, AgreesStep, TypeInvariant, PTL DEF Spec

-----------------------------------------------------------------------------
\* The invariant the properties below follow from.
THEOREM GovernCorrect == Spec => []GraphInv
<1>1. TypeInv /\ GovernInv /\ RegistryInv /\ AutonomyNeedsFullPicture => GraphInv
  BY DEF TypeInv, GovernInv, GraphInv
<1> QED
  BY <1>1, TypeInvariant, GatesCorrect, RegistryCorrect, AutonomyNeedsFullPictureHolds, PTL

\* An error answer may be repeated: no action of the run it is about is in
\* the registry, whatever raised, and whichever thread lost the race for the
\* metrics registry.
THEOREM ErrorMeansNoActionHolds == Spec => []ErrorMeansNoAction
<1>1. RegistryInv => ErrorMeansNoAction
  BY DEF RegistryInv, ErrorMeansNoAction
<1> QED
  BY <1>1, RegistryCorrect, PTL

-----------------------------------------------------------------------------
\* No audit, no autonomy: whatever raises and however often the process is
\* restarted, a run that acts by itself has its record in the audit store.
THEOREM NoAuditNoAutonomyHolds == Spec => []NoAuditNoAutonomy
<1>1. GraphInv => NoAuditNoAutonomy
  BY SMT DEF GraphInv, GateInv, NoAuditNoAutonomy, Acts, Audited, TypeOK, RollbackEntry
<1> QED
  BY <1>1, GovernCorrect, PTL

\* The human gate: a run ends without an outcome exactly if it is autonomous
\* (route_after_audit sends every other one through review_node).
THEOREM HumanGateHolds == Spec => []HumanGate
<1>1. GraphInv => HumanGate
  BY DEF GraphInv, PlannerInv
<1> QED
  BY <1>1, GovernCorrect, PTL

\* However resume calls overlap on a thread, the outcome a run ends with was
\* carried by a call that named it (review_node over Command(resume=...)).
THEOREM OutcomeIsThePlannersHolds == Spec => []OutcomeIsThePlanners
<1>1. GraphInv => OutcomeIsThePlanners
  BY DEF GraphInv, PlannerInv
<1> QED
  BY <1>1, GovernCorrect, PTL

\* Only create_decision and a crash answer a client.
LEMMA AnswerChanges ==
  ASSUME Next
  PROVE  \/ UNCHANGED answer
         \/ Crash
         \/ \E r \in Run : create_decision(r)
<1>1. ASSUME NEW r \in Run, start_decision(r)
      PROVE  UNCHANGED answer
  BY <1>1 DEF start_decision
<1>2. ASSUME NEW r \in Run, RunStep(r)
      PROVE  UNCHANGED answer \/ create_decision(r)
  BY <1>2 DEF RunStep, Returns, demand_node, logistics_node, macro_node, stockout_node,
              supervisor_node, audit_node, record_decision, registry_unset, build_registry,
              build_registry_raises, Recorded, register_reversible_actions, review_node,
              review_node_raises
<1>3. ASSUME NEW d \in Delivery, NEW r \in Run,
             resume_decision(d, r) \/ resume_ended(d, r) \/ resume_unknown(d, r)
      PROVE  UNCHANGED answer
  BY <1>3 DEF resume_decision, resume_ended, resume_unknown
<1>4. ASSUME NEW d \in Delivery, CallStep(d)
      PROVE  UNCHANGED answer
  BY <1>4 DEF CallStep, resume_finish, resume_raises
<1> QED
  BY <1>1, <1>2, <1>3, <1>4, Zenon DEF Next

\* When a client is told that its decision is completed, every action of the
\* decision can be rolled back: all of them are reversible, and registered.
THEOREM UndoableWhenCompletedHolds == Spec => UndoableWhenCompleted
<1> DEFINE Undoable(r) == \A x \in decision[r].recommended_actions :
                            \E e \in registry : e.run = r /\ e.action_type = x
           Told(r) == answer[r] = "none" /\ answer'[r] = "completed" => Undoable(r)
<1>1. GraphInv /\ [Next]_vars => [\A r \in Run : Told(r)]_vars
  <2> SUFFICES ASSUME GraphInv, Next, NEW r \in Run,
                      answer[r] = "none", answer'[r] = "completed"
               PROVE  Undoable(r)
    BY Zenon
  <2>1. pc[r] = "ended"
    <3>1. CASE \E s \in Run : create_decision(s)
      BY <3>1, SMT DEF create_decision, AnswerTo, GraphInv, TypeOK
    <3>2. CASE ~ \E s \in Run : create_decision(s)
      <4>1. UNCHANGED answer \/ Crash
        BY <3>2, AnswerChanges
      <4>2. CASE Crash
        <5>1. answer' = [s \in Run |-> IF pc[s] # "unused" /\ answer[s] = "none"
                                         THEN "error" ELSE answer[s]]
          BY <4>2 DEF Crash
        <5>2. answer'[r] \in {"error", "none"}
          BY <5>1
        <5> QED
          BY <5>2
      <4>3. CASE UNCHANGED answer
        BY <4>3
      <4> QED
        BY <4>1, <4>2, <4>3
    <3> QED
      BY <3>1, <3>2
  <2>2. decision[r].autonomous
    <3>1. human[r] = NoValue
      BY SMT DEF GraphInv, PlannerInv, OutcomeIsThePlanners
    <3> QED
      BY <2>1, <3>1 DEF GraphInv, PlannerInv, HumanGate
  <2>3. /\ \A x \in decision[r].recommended_actions : reversible(x)
        /\ EntriesOf(r, decision[r]) \subseteq registry
    BY <2>1, <2>2, SMT DEF GraphInv, UndoInv, Decided
  <2>4. ASSUME NEW x \in decision[r].recommended_actions
        PROVE  \E e \in registry : e.run = r /\ e.action_type = x
    <3> DEFINE e == [run |-> r, decision_id |-> decision[r].decision_id, action_type |-> x]
    <3>1. e \in EntriesOf(r, decision[r])
      BY <2>3, <2>4, SMT DEF EntriesOf
    <3>2. e.run = r /\ e.action_type = x
      OBVIOUS
    <3> QED
      BY <2>3, <3>1, <3>2
  <2> QED
    BY <2>4
<1> QED
  BY <1>1, GovernCorrect, PTL DEF Spec, UndoableWhenCompleted

\* After the Supervisor, only the return of the audit node changes a decision.
LEMMA DecisionChanges ==
  ASSUME TypeInv, [Next]_vars, NEW r \in Run, decision[r] # NoValue, decision'[r] # NoValue
  PROVE  \/ decision'[r] = decision[r]
         \/ decision'[r] = enforce_audit(decision[r], logged[r])
<1> USE DEF TypeInv, TypeOK
<1>1. ASSUME NEW s \in Run, start_decision(s) \/ RunStep(s)
      PROVE  decision'[r] \in {decision[r], enforce_audit(decision[r], logged[r])}
  <2>1. CASE \/ start_decision(s) \/ demand_node(s) \/ logistics_node(s) \/ macro_node(s)
             \/ stockout_node(s) \/ audit_node(s) \/ registry_unset(s)
             \/ build_registry_raises(s) \/ register_reversible_actions(s)
             \/ review_node(s) \/ review_node_raises(s) \/ create_decision(s)
    BY <2>1 DEF start_decision, demand_node, logistics_node, macro_node, Returns,
       stockout_node, audit_node, registry_unset, build_registry_raises,
       register_reversible_actions, review_node, review_node_raises, create_decision
  <2>2. CASE supervisor_node(s)
    <3>1. decision[s] = NoValue
      BY <2>2, SMT DEF ChannelsInv, Decided, supervisor_node
    <3> QED
      BY <2>2, <3>1, SMT DEF supervisor_node
  <2>3. CASE record_decision(s) \/ build_registry(s)
    <3>1. decision' = [decision EXCEPT ![s] = enforce_audit(decision[s], logged[s])]
      BY <2>3 DEF record_decision, build_registry, Recorded
    <3> QED
      BY <3>1
  <2> QED
    BY <1>1, <2>1, <2>2, <2>3 DEF RunStep
<1>2. ASSUME NEW d \in Delivery, NEW s \in Run,
             resume_decision(d, s) \/ resume_ended(d, s) \/ resume_unknown(d, s)
      PROVE  UNCHANGED decision
  BY <1>2 DEF resume_decision, resume_ended, resume_unknown
<1>3. ASSUME NEW d \in Delivery, CallStep(d)
      PROVE  UNCHANGED decision
  BY <1>3 DEF CallStep, resume_finish, resume_raises
<1>4. CASE Crash
  BY <1>4, SMT DEF Crash, Keep
<1>5. CASE UNCHANGED vars
  BY <1>5 DEF vars
<1> QED
  BY <1>1, <1>2, <1>3, <1>4, <1>5, Zenon DEF Next

\* Once the Supervisor has decided, tier and actions stand, and autonomy can
\* only be lost: by no step of the run, of a planner or of a restarted process
\* is it given back.
THEOREM AutonomyOnlyShrinksHolds == Spec => AutonomyOnlyShrinks
<1> DEFINE Shrinks(r) ==
      decision[r] # NoValue /\ decision'[r] # NoValue =>
        /\ decision'[r].tier = decision[r].tier
        /\ decision'[r].recommended_actions = decision[r].recommended_actions
        /\ decision'[r].autonomous => decision[r].autonomous
<1>1. TypeInv /\ [Next]_vars => [\A r \in Run : Shrinks(r)]_vars
  <2> SUFFICES ASSUME TypeInv, [Next]_vars, NEW r \in Run,
                      decision[r] # NoValue, decision'[r] # NoValue
               PROVE  /\ decision'[r].tier = decision[r].tier
                      /\ decision'[r].recommended_actions = decision[r].recommended_actions
                      /\ decision'[r].autonomous => decision[r].autonomous
    BY Zenon
  <2>1. decision[r] \in SupervisorDecision /\ logged[r] \in BOOLEAN
    BY SMT DEF TypeInv, TypeOK, Opt
  <2>2. CASE decision'[r] = decision[r]
    BY <2>2
  <2>3. CASE decision'[r] = enforce_audit(decision[r], logged[r])
    <3>1. /\ enforce_audit(decision[r], logged[r]).tier = decision[r].tier
          /\ enforce_audit(decision[r], logged[r]).recommended_actions
               = decision[r].recommended_actions
          /\ enforce_audit(decision[r], logged[r]).autonomous
               = (decision[r].autonomous /\ logged[r])
      BY <2>1, AuditedDecision, Zenon
    <3> QED
      BY <2>3, <3>1, Zenon
  <2> QED
    BY <2>2, <2>3, DecisionChanges
<1> QED
  BY <1>1, TypeInvariant, PTL DEF Spec, AutonomyOnlyShrinks

\* What a step other than a crash does to the runs that have raised, to the
\* metrics registry and to those that look for it.
LEMMA RaisesKept ==
  ASSUME TypeInv, Next, ~Crash
  PROVE  /\ crashes' = crashes
         /\ \A x \in Run : pc[x] \in PastMetrics => pc'[x] \in PastMetrics
         /\ \A x \in Run : pc[x] = "raised" =>
              pc'[x] = "raised" /\ stockout'[x] = stockout[x] /\ decision'[x] = decision[x]
         /\ \A x \in Run : answer'[x] = "error" => answer[x] = "error" \/ pc[x] = "raised"
         /\ \A x \in Run : pc'[x] = "raised" =>
              pc[x] = "raised" \/ review_node_raises(x) \/ build_registry_raises(x)
         /\ \A x \in Run : pc'[x] = "building" => pc[x] = "building" \/ registry_unset(x)
         /\ metrics' = metrics \/ \E x \in Run : build_registry(x)
<1> DEFINE Kept ==
         /\ crashes' = crashes
         /\ \A x \in Run : pc[x] \in PastMetrics => pc'[x] \in PastMetrics
         /\ \A x \in Run : pc[x] = "raised" =>
              pc'[x] = "raised" /\ stockout'[x] = stockout[x] /\ decision'[x] = decision[x]
         /\ \A x \in Run : answer'[x] = "error" => answer[x] = "error" \/ pc[x] = "raised"
         /\ \A x \in Run : pc'[x] = "raised" =>
              pc[x] = "raised" \/ review_node_raises(x) \/ build_registry_raises(x)
         /\ \A x \in Run : pc'[x] = "building" => pc[x] = "building" \/ registry_unset(x)
         /\ metrics' = metrics \/ \E x \in Run : build_registry(x)
<1> SUFFICES Kept
  OBVIOUS
<1>0. /\ pc \in [Run -> {"unused", "specialists", "supervisor", "audit", "recording",
                         "building", "register", "review", "paused", "ended",
                         "raised", "lost"}]
      /\ stockout \in [Run -> Opt(Prob)]
      /\ decision \in [Run -> Opt(SupervisorDecision)]
      /\ answer \in [Run -> {"none", "completed", "review_required", "error"}]
      /\ target \in [Delivery -> Opt(Run)]
  BY Zenon DEF TypeInv, TypeOK
<1>00. \A d \in Delivery : call[d] = "running" =>
         target[d] \in Run /\ pc[target[d]] \in {"paused", "ended"}
  BY Zenon DEF TypeInv, ChannelsInv
<1> USE DEF PastMetrics
<1>1. ASSUME NEW r \in Run, start_decision(r) \/ RunStep(r)
      PROVE  Kept
  <2>1. CASE \/ start_decision(r) \/ demand_node(r) \/ logistics_node(r) \/ macro_node(r)
             \/ audit_node(r) \/ register_reversible_actions(r) \/ review_node(r)
    <3>1. /\ \/ pc' = pc
             \/ /\ pc[r] \in {"unused", "specialists", "audit", "register", "review"}
                /\ \E p \in {"specialists", "recording", "ended", "paused"} :
                     pc' = [pc EXCEPT ![r] = p]
                /\ pc[r] \in PastMetrics => pc'[r] \in PastMetrics
          /\ UNCHANGED <<stockout, decision, answer, crashes, metrics>>
      BY <1>0, <2>1, SMT DEF start_decision, demand_node, logistics_node, macro_node, Returns,
         audit_node, register_reversible_actions, review_node, auditing, channels
    <3> QED
      BY <1>0, <3>1, SMT
  <2>2. CASE stockout_node(r)
    <3>1. /\ pc[r] = "specialists" /\ pc' = [pc EXCEPT ![r] = "supervisor"]
          /\ \E p : stockout' = [stockout EXCEPT ![r] = p]
          /\ UNCHANGED <<decision, answer, crashes, metrics>>
      BY <2>2, Zenon DEF stockout_node, Joined, auditing
    <3> QED
      BY <1>0, <3>1, SMT
  <2>3. CASE supervisor_node(r)
    <3>1. /\ pc[r] = "supervisor" /\ pc' = [pc EXCEPT ![r] = "audit"]
          /\ \E v : decision' = [decision EXCEPT ![r] = v]
          /\ UNCHANGED <<stockout, answer, crashes, metrics>>
      BY <2>3, Zenon DEF supervisor_node, auditing, channels
    <3> QED
      BY <1>0, <3>1, SMT
  <2>4. CASE record_decision(r) \/ build_registry(r)
    <3>1. /\ pc[r] \in {"recording", "building"}
          /\ \E p \in {"register", "review"} : pc' = [pc EXCEPT ![r] = p]
          /\ \E v : decision' = [decision EXCEPT ![r] = v]
          /\ metrics' = metrics \/ build_registry(r)
          /\ UNCHANGED <<stockout, answer, crashes>>
      BY <2>4, SMT DEF record_decision, build_registry, Recorded, route_after_audit, channels
    <3> QED
      BY <1>0, <3>1, SMT
  <2>5. CASE registry_unset(r)
    <3>1. /\ pc[r] = "recording" /\ pc' = [pc EXCEPT ![r] = "building"]
          /\ UNCHANGED <<stockout, decision, answer, crashes, metrics>>
      BY <2>5, Zenon DEF registry_unset, auditing, channels
    <3> QED
      BY <1>0, <2>5, <3>1, SMT
  <2>6. CASE build_registry_raises(r) \/ review_node_raises(r)
    <3>1. /\ pc[r] \in {"building", "review"} /\ pc' = [pc EXCEPT ![r] = "raised"]
          /\ UNCHANGED <<stockout, decision, answer, crashes, metrics>>
      BY <2>6, SMT DEF build_registry_raises, review_node_raises, auditing, channels
    <3> QED
      BY <1>0, <2>6, <3>1, SMT
  <2>7. CASE create_decision(r)
    <3>1. /\ pc[r] \in {"paused", "ended", "raised"}
          /\ answer' = [answer EXCEPT ![r] = AnswerTo(r)]
          /\ UNCHANGED <<pc, stockout, decision, crashes, metrics>>
      BY <2>7, Zenon DEF create_decision, auditing, channels
    <3>2. AnswerTo(r) = "error" => pc[r] = "raised"
      BY <3>1, SMT DEF AnswerTo
    <3> QED
      BY <1>0, <3>1, <3>2, SMT
  <2> QED
    BY <1>1, <2>1, <2>2, <2>3, <2>4, <2>5, <2>6, <2>7, Zenon DEF RunStep
<1>2. ASSUME NEW d \in Delivery, NEW r \in Run,
             resume_decision(d, r) \/ resume_ended(d, r) \/ resume_unknown(d, r)
      PROVE  Kept
  <2>1. UNCHANGED <<pc, stockout, decision, answer, crashes, metrics>>
    BY <1>2, Zenon DEF resume_decision, resume_ended, resume_unknown, auditing, channels
  <2> QED
    BY <2>1, Zenon
<1>3. ASSUME NEW d \in Delivery, CallStep(d)
      PROVE  Kept
  <2>1. /\ call[d] = "running"
        /\ pc' = pc \/ pc' = [pc EXCEPT ![target[d]] = "ended"]
        /\ UNCHANGED <<stockout, decision, answer, crashes, metrics>>
    BY <1>3, Zenon DEF CallStep, resume_finish, resume_raises, auditing, channels
  <2> QED
    BY <1>0, <1>00, <2>1, SMT
<1> HIDE DEF Kept
<1> QED
  BY <1>1, <1>2, <1>3, Zenon DEF Next

\* Why a run may have raised, while the process has not died.
Excused(r) ==
  \/ BriefWriterWired /\ stockout[r] # NoValue /\ ~decision[r].autonomous
  \/ PrometheusInstalled /\ \E o \in Run \ {r} : pc[o] \in PastMetrics

\* A registry that is there was built by a run that went on, and only who had
\* found it unset builds one.
RefusalInv ==
  /\ crashes \in Nat
  /\ crashes = 0 =>
       /\ metrics => ~PrometheusInstalled \/ \E o \in Run : pc[o] \in PastMetrics
       /\ ~PrometheusInstalled => metrics
       /\ \A r \in Run : pc[r] = "building" => PrometheusInstalled
       /\ \A r \in Run : pc[r] = "raised" \/ answer[r] = "error" => pc[r] = "raised" /\ Excused(r)

\* Whatever fails among the specialists, the joint node and the audit store,
\* and however many runs there are: until the process dies, a client is told of
\* an error for the language model or the race for the metrics registry only.
THEOREM OnlyModelOrRaceRefusesHolds == Spec => []OnlyModelOrRaceRefuses
<1>1. Init => RefusalInv
  <2>1. Init => crashes = 0 /\ metrics = ~PrometheusInstalled
    BY Zenon DEF Init
  <2>3. 0 \in Nat
    OBVIOUS
  <2>2. Init => \A r \in Run : pc[r] # "building" /\ pc[r] # "raised" /\ answer[r] # "error"
    BY SMT DEF Init
  <2> QED
    BY <2>1, <2>2, <2>3, Zenon DEF RefusalInv
<1>2. GraphInv /\ TypeInv /\ RefusalInv /\ [Next]_vars => RefusalInv'
  <2> SUFFICES ASSUME GraphInv, TypeInv, RefusalInv, [Next]_vars
               PROVE  RefusalInv'
    OBVIOUS
  <2>1. CASE UNCHANGED vars
    <3>1. UNCHANGED <<pc, stockout, decision, answer, crashes, metrics>>
      BY <2>1, Zenon DEF vars, auditing, channels
    <3> QED
      BY <3>1, Zenon DEF RefusalInv, Excused
  <2>2. CASE Crash
    <3>1. crashes' \in Nat /\ crashes' # 0
      BY <2>2, SMT DEF RefusalInv, Crash
    <3> QED
      BY <3>1, Zenon DEF RefusalInv
  <2>3. CASE Next /\ ~Crash
    <3>1. crashes' = crashes
      BY <2>3, RaisesKept
    <3>2. CASE crashes # 0
      BY <3>1, <3>2, Zenon DEF RefusalInv
    <3>3. CASE crashes = 0
      <4>1. /\ metrics => ~PrometheusInstalled \/ \E o \in Run : pc[o] \in PastMetrics
            /\ ~PrometheusInstalled => metrics
            /\ \A r \in Run : pc[r] = "building" => PrometheusInstalled
            /\ \A r \in Run : pc[r] = "raised" \/ answer[r] = "error"
                 => pc[r] = "raised" /\ Excused(r)
        BY <3>3, Zenon DEF RefusalInv
      <4>2. \A x \in Run : pc[x] \in PastMetrics => pc'[x] \in PastMetrics
        BY <2>3, RaisesKept
      <4>3. metrics' => ~PrometheusInstalled \/ \E o \in Run : pc'[o] \in PastMetrics
        <5>1. CASE metrics' = metrics
          BY <4>1, <4>2, <5>1, Zenon
        <5>2. ASSUME NEW x \in Run, build_registry(x)
              PROVE  pc'[x] \in PastMetrics
          BY <5>2, SMT DEF build_registry, Recorded, route_after_audit, PastMetrics, TypeInv, TypeOK
        <5> QED
          BY <2>3, <5>1, <5>2, RaisesKept, Zenon
      <4>4. ~PrometheusInstalled => metrics'
        <5>1. ASSUME NEW x \in Run, build_registry(x)
              PROVE  metrics'
          BY <5>1, Zenon DEF build_registry
        <5> QED
          BY <2>3, <4>1, <5>1, RaisesKept, Zenon
      <4>5. \A x \in Run : pc'[x] = "building" => PrometheusInstalled
        <5>1. ASSUME NEW x \in Run, registry_unset(x)
              PROVE  PrometheusInstalled
          BY <4>1, <5>1, Zenon DEF registry_unset
        <5> QED
          BY <2>3, <4>1, <5>1, RaisesKept, Zenon
      <4>6. ASSUME NEW x \in Run, pc[x] = "raised" \/ answer[x] = "error"
            PROVE  pc'[x] = "raised" /\ Excused(x)'
        <5>1. pc[x] = "raised" /\ Excused(x)
          BY <4>1, <4>6, Zenon
        <5>2. /\ pc'[x] = "raised"
              /\ stockout'[x] = stockout[x] /\ decision'[x] = decision[x]
          BY <2>3, <5>1, RaisesKept, Zenon
        <5> QED
          BY <4>2, <5>1, <5>2, Zenon DEF Excused
      <4>7. ASSUME NEW x \in Run, review_node_raises(x)
            PROVE  pc'[x] = "raised" /\ Excused(x)'
        <5>1. pc[x] = "review" /\ BriefWriterWired /\ stockout[x] # NoValue
          BY <4>7, Zenon DEF review_node_raises, NarratedByModel
        <5>2. ~decision[x].autonomous
          BY <5>1, SMT DEF GraphInv, GateInv
        <5>3. pc' = [pc EXCEPT ![x] = "raised"] /\ UNCHANGED <<stockout, decision>>
          BY <4>7, Zenon DEF review_node_raises, channels
        <5>4. pc'[x] = "raised"
          BY <5>3, SMT DEF TypeInv, TypeOK
        <5> QED
          BY <5>1, <5>2, <5>3, <5>4, Zenon DEF Excused
      <4>8. ASSUME NEW x \in Run, build_registry_raises(x)
            PROVE  pc'[x] = "raised" /\ Excused(x)'
        <5>1. pc[x] = "building" /\ metrics /\ pc' = [pc EXCEPT ![x] = "raised"]
          BY <4>8, Zenon DEF build_registry_raises
        <5>2. PICK o \in Run : pc[o] \in PastMetrics
          BY <4>1, <5>1, Zenon
        <5>3. o # x
          BY <5>1, <5>2, SMT DEF PastMetrics
        <5>4. pc'[x] = "raised"
          BY <5>1, SMT DEF TypeInv, TypeOK
        <5> QED
          BY <4>1, <4>2, <5>1, <5>2, <5>3, <5>4, Zenon DEF Excused
      <4>9. \A x \in Run : pc'[x] = "raised" \/ answer'[x] = "error"
              => pc'[x] = "raised" /\ Excused(x)'
        BY <2>3, <4>6, <4>7, <4>8, RaisesKept, Zenon
      <4> QED
        BY <3>1, <4>3, <4>4, <4>5, <4>9, Zenon DEF RefusalInv
    <3> QED
      BY <3>2, <3>3
  <2> QED
    BY <2>1, <2>2, <2>3
<1>3. RefusalInv => OnlyModelOrRaceRefuses
  BY Zenon DEF RefusalInv, OnlyModelOrRaceRefuses, Excused
<1> QED
  BY <1>1, <1>2, <1>3, GovernCorrect, TypeInvariant, PTL DEF Spec

(***************************************************************************)
(* The decision graph implements the promise of GovernedDecision for any   *)
(* number of runs, resume calls and restarts.  Every action maps to one of *)
(* the promise's on its run or to none; only a crash maps to a step on     *)
(* several runs at once.  GraphInv says of the steps' first states what    *)
(* the guards do not.                                                      *)
(***************************************************************************)
InFlight == {"specialists", "supervisor", "audit", "recording", "building",
             "register", "review"}

\* The phase of a run, spelt out over the pairs of pc and answer that occur.
LEMMA PhaseTable ==
  ASSUME GraphInv, NEW r \in Run
  PROVE  /\ pc[r] = "unused" => PhaseOf(r) = "idle"
         /\ pc[r] \in InFlight => answer[r] = "none" /\ PhaseOf(r) = "open"
         /\ pc[r] = "paused" => PhaseOf(r) = "escalated"
         /\ pc[r] = "raised" => PhaseOf(r) = "closed"
         /\ pc[r] = "ended" =>
              PhaseOf(r) = CASE answer[r] = "none" -> "open"
                             [] answer[r] = "completed" -> "acted"
                             [] answer[r] = "review_required" -> "resolved"
                             [] answer[r] = "error" -> "closed"
         /\ pc[r] = "lost" =>
              PhaseOf(r) = IF answer[r] = "completed" THEN "acted" ELSE "closed"
<1> USE DEF PhaseOf, InFlight
<1>1. /\ pc[r] \in InFlight => answer[r] = "none"
      /\ pc[r] = "raised" => answer[r] \in {"none", "error"}
      /\ pc[r] = "paused" => answer[r] # "completed"
      /\ pc[r] = "unused" => answer[r] = "none"
      /\ answer[r] \in {"none", "completed", "review_required", "error"}
  BY SMT DEF GraphInv, TypeOK, RegistryInv, PlannerInv
<1>2. CASE pc[r] \in InFlight \cup {"unused", "paused", "raised", "lost"}
  BY <1>1, <1>2, SMT
<1>3. CASE pc[r] = "ended"
  BY <1>1, <1>3, SMT
<1>4. pc[r] \in InFlight \cup {"unused", "paused", "raised", "lost", "ended"}
  BY SMT DEF GraphInv, TypeOK
<1> QED
  BY <1>2, <1>3, <1>4

\* A step that leaves every phase and the trace alone is a stutter.
LEMMA Stutters ==
  ASSUME \A r \in Run : PhaseOf(r)' = PhaseOf(r), Traced' = Traced
  PROVE  UNCHANGED Governed!vars
BY DEF Governed!vars

\* A step that moves one run from phase to phase.
LEMMA Moves ==
  ASSUME NEW r \in Run, NEW from, NEW to,
         PhaseOf(r) = from, PhaseOf(r)' = to,
         \A s \in Run \ {r} : PhaseOf(s)' = PhaseOf(s), Traced' = Traced
  PROVE  Governed!Move(r, from, to)
BY DEF Governed!Move

\* A step that closes open runs, or forgets.
LEMMA Closes ==
  ASSUME Traced' = Traced,
         \A r \in Run : \/ PhaseOf(r)' = PhaseOf(r)
                        \/ /\ PhaseOf(r)' = "closed"
                           /\ \/ PhaseOf(r) = "open"
                              \/ /\ ~DurableCheckpoints
                                 /\ PhaseOf(r) \in {"escalated", "resolved"}
  PROVE  Governed!Close
<1> DEFINE S == {r \in Run : PhaseOf(r)' # PhaseOf(r)}
<1>1. S \in SUBSET Governed!Closable
  BY Zenon DEF Governed!Closable
<1>2. [r \in Run |-> PhaseOf(r)]' =
        [r \in Run |-> IF r \in S THEN "closed" ELSE [s \in Run |-> PhaseOf(s)][r]]
  OBVIOUS
<1> QED
  BY <1>1, <1>2, Zenon DEF Governed!Close

-----------------------------------------------------------------------------
\* Steps between two nodes of a run in flight, and those of the resume calls
\* that leave pc and answer alone, are none of the promise's.
LEMMA StepInFlight ==
  ASSUME GraphInv, GraphInv', NEW r \in Run, pc[r] \in InFlight, pc'[r] \in InFlight,
         \A s \in Run \ {r} : pc'[s] = pc[s], answer' = answer, audit_log' = audit_log
  PROVE  UNCHANGED Governed!vars
<1>1. PhaseOf(r)' = PhaseOf(r)
  BY PhaseTable, Zenon DEF PhaseOf, InFlight
<1>2. \A s \in Run \ {r} : PhaseOf(s)' = PhaseOf(s)
  BY Zenon DEF PhaseOf
<1>3. Traced' = Traced
  BY DEF Traced
<1> QED
  BY <1>1, <1>2, <1>3, Stutters

LEMMA StepElsewhere ==
  ASSUME UNCHANGED <<pc, answer, audit_log>>
  PROVE  UNCHANGED Governed!vars
BY Stutters, Zenon DEF PhaseOf, Traced

LEMMA StepNode ==
  ASSUME GraphInv, GraphInv', NEW r \in Run,
         \/ demand_node(r) \/ logistics_node(r) \/ macro_node(r) \/ stockout_node(r)
         \/ supervisor_node(r) \/ record_decision(r) \/ registry_unset(r) \/ build_registry(r)
  PROVE  UNCHANGED Governed!vars
<1>1. CASE demand_node(r) \/ logistics_node(r) \/ macro_node(r)
  BY <1>1, StepElsewhere DEF demand_node, logistics_node, macro_node, Returns
<1>2. CASE \/ stockout_node(r) \/ supervisor_node(r) \/ registry_unset(r)
           \/ record_decision(r) \/ build_registry(r)
  <2>1. /\ pc[r] \in InFlight
        /\ \E p \in InFlight : pc' = [pc EXCEPT ![r] = p]
        /\ answer' = answer /\ audit_log' = audit_log
    BY <1>2, Zenon DEF stockout_node, Joined, supervisor_node, registry_unset, record_decision,
       build_registry, Recorded, route_after_audit, InFlight
  <2>2. pc \in [Run -> {"unused", "specialists", "supervisor", "audit", "recording",
                        "building", "register", "review", "paused", "ended",
                        "raised", "lost"}]
    BY Zenon DEF GraphInv, TypeOK
  <2>3. pc'[r] \in InFlight /\ \A s \in Run \ {r} : pc'[s] = pc[s]
    BY <2>1, <2>2
  <2> QED
    BY <2>1, <2>3, StepInFlight
<1> QED
  BY <1>1, <1>2

\* The audit write is the promise's trace, or leaves none.
LEMMA StepAudit ==
  ASSUME GraphInv, GraphInv', NEW r \in Run, audit_node(r)
  PROVE  Governed!Trace(r) \/ UNCHANGED Governed!vars
<1>1. /\ pc[r] = "audit" /\ pc' = [pc EXCEPT ![r] = "recording"] /\ answer' = answer
  BY DEF audit_node
<1>2. pc'[r] = "recording" /\ \A s \in Run \ {r} : pc'[s] = pc[s]
  BY <1>1, SMT DEF GraphInv, TypeOK
<1>3. PhaseOf(r) = "open" /\ PhaseOf(r)' = "open"
  BY <1>1, <1>2, PhaseTable, Zenon DEF PhaseOf, InFlight
<1>4. \A s \in Run : PhaseOf(s)' = PhaseOf(s)
  <2>1. \A s \in Run \ {r} : PhaseOf(s)' = PhaseOf(s)
    BY <1>1, <1>2, Zenon DEF PhaseOf
  <2> QED
    BY <1>3, <2>1
<1>5. Traced' = Traced \/ Traced' = Traced \cup {r}
  <2>1. audit_log' \in {audit_log, audit_log \cup {log_decision(r, decision[r])}}
    BY DEF audit_node
  <2>2. log_decision(r, decision[r]).run = r
    BY DEF log_decision
  <2>3. CASE audit_log' = audit_log
    BY <2>3 DEF Traced
  <2>4. CASE audit_log' = audit_log \cup {log_decision(r, decision[r])}
    BY <2>2, <2>4 DEF Traced
  <2> QED
    BY <2>1, <2>3, <2>4
<1>6. CASE Traced' = Traced
  BY <1>4, <1>6, Stutters
<1>7. CASE Traced' = Traced \cup {r}
  BY <1>3, <1>4, <1>7 DEF Governed!Trace
<1> QED
  BY <1>5, <1>6, <1>7

\* The run ends, pauses or raises; only the last two are steps of the promise.
LEMMA StepLeaves ==
  ASSUME GraphInv, GraphInv', NEW r \in Run,
         \/ register_reversible_actions(r) \/ review_node(r)
         \/ build_registry_raises(r) \/ review_node_raises(r)
  PROVE  \/ UNCHANGED Governed!vars
         \/ Governed!Escalate(r)
         \/ Governed!Close
<1>1. /\ pc[r] \in InFlight
      /\ \/ register_reversible_actions(r) /\ pc' = [pc EXCEPT ![r] = "ended"]
         \/ review_node(r) /\ pc' = [pc EXCEPT ![r] = "paused"]
         \/ (build_registry_raises(r) \/ review_node_raises(r))
              /\ pc' = [pc EXCEPT ![r] = "raised"]
      /\ answer' = answer /\ audit_log' = audit_log
  BY Zenon DEF register_reversible_actions, review_node, build_registry_raises,
     review_node_raises, InFlight
<1>2. /\ pc'[r] \in {"ended", "paused", "raised"}
      /\ pc'[r] = "ended" => register_reversible_actions(r)
      /\ \A s \in Run \ {r} : pc'[s] = pc[s]
  BY <1>1, SMT DEF GraphInv, TypeOK
<1>3. answer[r] = "none" /\ PhaseOf(r) = "open" /\ answer'[r] = "none"
  BY <1>1, PhaseTable
<1>4. \A s \in Run \ {r} : PhaseOf(s)' = PhaseOf(s)
  BY <1>1, <1>2, Zenon DEF PhaseOf
<1>5. Traced' = Traced
  BY <1>1 DEF Traced
<1>6. CASE pc'[r] = "ended"
  <2>1. PhaseOf(r)' = "open"
    BY <1>3, <1>6 DEF PhaseOf
  <2> QED
    BY <1>3, <1>4, <1>5, <2>1, Stutters
<1>7. CASE pc'[r] = "paused"
  <2>1. PhaseOf(r)' = "escalated"
    BY <1>3, <1>7 DEF PhaseOf
  <2>2. Governed!Move(r, "open", "escalated")
    BY <1>3, <1>4, <1>5, <2>1, Moves
  <2> QED
    BY <2>2 DEF Governed!Escalate
<1>8. CASE pc'[r] = "raised"
  <2>1. PhaseOf(r)' = "closed"
    BY <1>3, <1>8 DEF PhaseOf
  <2> QED
    BY <1>3, <1>4, <1>5, <2>1, Closes
<1> QED
  BY <1>2, <1>6, <1>7, <1>8

\* The answer completed is what the client takes for the act.
LEMMA StepAnswer ==
  ASSUME GraphInv, GraphInv', NEW r \in Run, create_decision(r)
  PROVE  Governed!Act(r) \/ UNCHANGED Governed!vars
<1>1. /\ pc[r] \in {"paused", "ended", "raised"}
      /\ answer[r] = "none"
      /\ answer' = [answer EXCEPT ![r] = AnswerTo(r)]
      /\ pc' = pc /\ audit_log' = audit_log
  BY DEF create_decision
<1>2. answer'[r] = AnswerTo(r) /\ \A s \in Run \ {r} : answer'[s] = answer[s]
  BY <1>1, SMT DEF GraphInv, TypeOK
<1>3. \A s \in Run \ {r} : PhaseOf(s)' = PhaseOf(s)
  BY <1>1, <1>2, Zenon DEF PhaseOf
<1>4. Traced' = Traced
  BY <1>1 DEF Traced
<1>5. CASE pc[r] \in {"paused", "raised"}
  <2>1. PhaseOf(r)' = PhaseOf(r)
    BY <1>1, <1>2, <1>5 DEF PhaseOf, AnswerTo
  <2> QED
    BY <1>3, <1>4, <2>1, Stutters
<1>6. CASE pc[r] = "ended"
  <2>1. PhaseOf(r) = "open" /\ PhaseOf(r)' = "acted"
    BY <1>1, <1>2, <1>6 DEF PhaseOf, AnswerTo
  <2>2. decision[r].autonomous
    BY <1>1, <1>6, SMT DEF GraphInv, PlannerInv, HumanGate, OutcomeIsThePlanners
  <2>3. r \in Traced
    BY <1>6, <2>2 DEF GraphInv, GateInv, Audited, Traced
  <2>4. Governed!Move(r, "open", "acted")
    BY <1>3, <1>4, <2>1, Moves
  <2> QED
    BY <2>3, <2>4 DEF Governed!Act
<1> QED
  BY <1>1, <1>5, <1>6

\* The first resume call to finish resolves the run; a second one's outcome
\* replaces the first's, which the promise does not tell apart.
LEMMA StepResolve ==
  ASSUME GraphInv, GraphInv', NEW d \in Delivery, resume_finish(d)
  PROVE  (\E r \in Run : Governed!Resolve(r)) \/ UNCHANGED Governed!vars
<1>1. target[d] \in Run
  BY SMT DEF resume_finish, GraphInv, ChannelsInv
<1> SUFFICES ASSUME NEW r \in Run, r = target[d]
             PROVE  Governed!Resolve(r) \/ UNCHANGED Governed!vars
  BY <1>1
<1>2. /\ pc[r] \in {"paused", "ended"} /\ answer[r] = "review_required"
      /\ pc' = [pc EXCEPT ![r] = "ended"]
      /\ answer' = answer /\ audit_log' = audit_log
  BY SMT DEF resume_finish, GraphInv, ChannelsInv, PlannerInv
<1>3. pc'[r] = "ended" /\ \A s \in Run \ {r} : pc'[s] = pc[s]
  BY <1>2, SMT DEF GraphInv, TypeOK
<1>4. \A s \in Run \ {r} : PhaseOf(s)' = PhaseOf(s)
  BY <1>2, <1>3, Zenon DEF PhaseOf
<1>5. Traced' = Traced
  BY <1>2 DEF Traced
<1>6. PhaseOf(r)' = "resolved"
  BY <1>2, <1>3 DEF PhaseOf
<1>7. CASE pc[r] = "paused"
  <2>1. PhaseOf(r) = "escalated"
    BY <1>2, <1>7 DEF PhaseOf
  <2>2. Governed!Move(r, "escalated", "resolved")
    BY <1>4, <1>5, <1>6, <2>1, Moves
  <2> QED
    BY <2>2 DEF Governed!Resolve
<1>8. CASE pc[r] = "ended"
  <2>1. PhaseOf(r) = "resolved"
    BY <1>2, <1>8 DEF PhaseOf
  <2> QED
    BY <1>4, <1>5, <1>6, <2>1, Stutters
<1> QED
  BY <1>2, <1>7, <1>8

\* A crash closes what is in flight and, if the checkpoints die with the
\* process, what waits for a planner or was resolved.
LEMMA StepCrash ==
  ASSUME GraphInv, GraphInv', Crash
  PROVE  Governed!Close
<1>1. Traced' = Traced
  BY DEF Crash, Traced
<1>2. ASSUME NEW r \in Run
      PROVE  \/ PhaseOf(r)' = PhaseOf(r)
             \/ /\ PhaseOf(r)' = "closed"
                /\ \/ PhaseOf(r) = "open"
                   \/ /\ ~DurableCheckpoints
                      /\ PhaseOf(r) \in {"escalated", "resolved"}
  <2>1. /\ pc'[r] = IF Survives(r) THEN pc[r] ELSE "lost"
        /\ answer'[r] = IF pc[r] # "unused" /\ answer[r] = "none"
                          THEN "error" ELSE answer[r]
    BY DEF Crash, Keep
  <2>2. /\ pc[r] \in InFlight \cup {"unused", "paused", "ended", "raised", "lost"}
        /\ answer[r] \in {"none", "completed", "review_required", "error"}
    BY SMT DEF GraphInv, TypeOK, InFlight
  <2>3. CASE pc[r] = "unused"
    <3>0. answer[r] = "none"
      BY <2>3, SMT DEF GraphInv, RegistryInv
    <3>1. pc'[r] = "unused" /\ answer'[r] = "none"
      BY <2>1, <2>3, <3>0 DEF Survives
    <3>2. PhaseOf(r) = "idle"
      BY <2>3, <3>0 DEF PhaseOf
    <3>3. PhaseOf(r)' = "idle"
      BY <3>1 DEF PhaseOf
    <3> QED
      BY <3>2, <3>3
  <2>4. CASE pc[r] \in InFlight
    <3>1. PhaseOf(r) = "open" /\ answer[r] = "none"
      BY <2>4, PhaseTable
    <3>2. pc'[r] = "lost" /\ answer'[r] = "error"
      BY <2>1, <2>4, <3>1 DEF InFlight, Survives
    <3>3. PhaseOf(r)' = "closed"
      BY <3>2 DEF PhaseOf
    <3> QED
      BY <3>1, <3>3
  <2>5. CASE pc[r] = "paused"
    <3>1. PhaseOf(r) = "escalated" /\ answer[r] # "completed"
      BY <2>5, PhaseTable, SMT DEF GraphInv, PlannerInv
    <3>2. answer'[r] # "completed"
      BY <2>1, <3>1
    <3>3. CASE DurableCheckpoints
      <4>1. PhaseOf(r)' = "escalated"
        BY <2>1, <2>5, <3>2, <3>3 DEF PhaseOf, Survives
      <4> QED
        BY <3>1, <4>1
    <3>4. CASE ~DurableCheckpoints
      <4>1. pc'[r] = "lost"
        BY <2>1, <2>5, <3>4 DEF Survives
      <4>2. PhaseOf(r)' = "closed"
        BY <3>2, <4>1 DEF PhaseOf
      <4> QED
        BY <3>1, <3>4, <4>2
    <3> QED
      BY <3>3, <3>4
  <2>6. CASE pc[r] \in {"raised", "lost"}
    <3>1. pc'[r] = "lost"
      BY <2>1, <2>6 DEF Survives
    <3>2. PhaseOf(r) = IF answer[r] = "completed" THEN "acted" ELSE "closed"
      BY <2>6, PhaseTable, SMT DEF GraphInv, RegistryInv
    <3>3. PhaseOf(r)' = IF answer[r] = "completed" THEN "acted" ELSE "closed"
      BY <2>1, <3>1 DEF PhaseOf
    <3> QED
      BY <3>2, <3>3
  <2>7. CASE pc[r] = "ended"
    <3>1. pc'[r] \in {"ended", "lost"} /\ (pc'[r] = "lost" => ~DurableCheckpoints)
      BY <2>1, <2>7 DEF Survives
    <3>2. CASE answer[r] = "none"
      BY <2>1, <2>7, <3>1, <3>2 DEF PhaseOf
    <3>3. CASE answer[r] = "completed"
      BY <2>1, <3>3, <2>7, <3>1 DEF PhaseOf
    <3>4. CASE answer[r] = "review_required"
      BY <2>1, <2>7, <3>1, <3>4 DEF PhaseOf
    <3>5. CASE answer[r] = "error"
      BY <2>1, <2>7, <3>1, <3>5 DEF PhaseOf
    <3> QED
      BY <2>2, <3>2, <3>3, <3>4, <3>5
  <2> QED
    BY <2>2, <2>3, <2>4, <2>5, <2>6, <2>7
<1> QED
  BY <1>1, <1>2, Closes

LEMMA StepStart ==
  ASSUME GraphInv, GraphInv', NEW r \in Run, start_decision(r)
  PROVE  Governed!Open(r)
<1>1. /\ pc[r] = "unused" /\ pc' = [pc EXCEPT ![r] = "specialists"]
      /\ answer' = answer /\ audit_log' = audit_log
  BY DEF start_decision
<1>2. pc'[r] = "specialists" /\ \A s \in Run \ {r} : pc'[s] = pc[s]
  BY <1>1, SMT DEF GraphInv, TypeOK
<1>3. PhaseOf(r) = "idle" /\ answer[r] = "none"
  BY <1>1, PhaseTable, SMT DEF GraphInv, RegistryInv
<1>4. PhaseOf(r)' = "open"
  BY <1>1, <1>2, <1>3 DEF PhaseOf
<1>5. \A s \in Run \ {r} : PhaseOf(s)' = PhaseOf(s)
  BY <1>1, <1>2, Zenon DEF PhaseOf
<1>6. Governed!Move(r, "idle", "open")
  BY <1>1, <1>3, <1>4, <1>5, Moves DEF Traced
<1> QED
  BY <1>6 DEF Governed!Open

-----------------------------------------------------------------------------
\* The graph, its failures, restarts and overlapping resume calls implement
\* the promise: a run acts only after its audit trace, is resolved only by a
\* planner, and once closed never acts.
THEOREM GovernedImplemented == Spec => GovernedSpec
<1>1. Init => Governed!Init
  <2> SUFFICES ASSUME Init
               PROVE  Governed!Init
    OBVIOUS
  <2>1. \A r \in Run : PhaseOf(r) = "idle"
    BY DEF Init, PhaseOf
  <2>2. Traced = {}
    BY DEF Init, Traced
  <2> QED
    BY <2>1, <2>2 DEF Governed!Init
<1>2. GraphInv /\ GraphInv' /\ [Next]_vars => [Governed!Next]_(Governed!vars)
  <2> SUFFICES ASSUME GraphInv, GraphInv', [Next]_vars
               PROVE  Governed!Next \/ UNCHANGED Governed!vars
    OBVIOUS
  <2>1. ASSUME NEW r \in Run, start_decision(r) \/ RunStep(r)
        PROVE  Governed!Next \/ UNCHANGED Governed!vars
    BY <2>1, StepStart, StepNode, StepAudit, StepLeaves, StepAnswer, Zenon
       DEF RunStep, Governed!Next
  <2>2. ASSUME NEW d \in Delivery, NEW r \in Run,
               resume_decision(d, r) \/ resume_ended(d, r) \/ resume_unknown(d, r)
        PROVE  UNCHANGED Governed!vars
    BY <2>2, StepElsewhere DEF resume_decision, resume_ended, resume_unknown
  <2>3. ASSUME NEW d \in Delivery, CallStep(d)
        PROVE  Governed!Next \/ UNCHANGED Governed!vars
    <3>1. CASE resume_finish(d)
      BY <3>1, StepResolve, Zenon DEF Governed!Next
    <3>2. CASE resume_raises(d)
      BY <3>2, StepElsewhere DEF resume_raises
    <3> QED
      BY <2>3, <3>1, <3>2 DEF CallStep
  <2>4. CASE Crash
    BY <2>4, StepCrash DEF Governed!Next
  <2>5. CASE UNCHANGED vars
    BY <2>5, StepElsewhere DEF vars
  <2> QED
    BY <2>1, <2>2, <2>3, <2>4, <2>5, Zenon DEF Next
<1> QED
  BY <1>1, <1>2, GovernCorrect, PTL DEF Spec, GovernedSpec, Governed!Spec
=============================================================================
