---------------------------- MODULE DecisionGraph ----------------------------
(***************************************************************************)
(* The decision graph and its HTTP surface: every run from POST /decisions *)
(* through the fan-out of the three specialists, the joint stockout node,  *)
(* the Supervisor, the audit gate and the human review, to its resumption  *)
(* by POST /decisions/{thread_id}/resume.                                  *)
(*                                                                         *)
(* A run is identified with its thread_id (a fresh uuid per start).  The   *)
(* functions request ... human are the channels of GraphState, one value   *)
(* per run; pc says which node the run's last checkpoint leads to.  Runs   *)
(* advance concurrently because FastAPI serves each call on a thread of    *)
(* its own, and share the audit log and the rollback registry.             *)
(***************************************************************************)
EXTENDS Pipeline, FiniteSets

CONSTANTS
  Run,                 \* thread ids
  Delivery,            \* calls of the resume webhook, each with its own outcome
  Forecast,            \* the forecasts the model may return
  Prob,                \* the stockout probabilities it may return
  DurableCheckpoints,  \* build_graph's checkpointer: its default MemorySaver
                       \* (FALSE), or a durable one a caller passes (TRUE)
  BriefWriterWired,    \* an LLM narrates the review brief
  PrometheusInstalled, \* prometheus_client can be imported
  MaxCrashes           \* bound: how often the process may die

ASSUME GraphAssumption ==
  /\ Forecast \subseteq QuantileForecast
  /\ Prob \subseteq Probability
  /\ DurableCheckpoints \in BOOLEAN
  /\ BriefWriterWired \in BOOLEAN
  /\ PrometheusInstalled \in BOOLEAN
  /\ MaxCrashes \in Nat

\* None is neither a thread nor a call.
ASSUME NoValueAssumption ==
  /\ NoValue \notin Run
  /\ NoValue \notin Delivery

Specialist == {"demand", "logistics", "macro"}

VARIABLES
  pc,          \* where the run stands
  returned,    \* the specialists of the fan-out that have returned
  request, forecast, anomaly, macro, stockout, decision, audit_id, human,
  logged,      \* in audit_node: enforce_audit's write succeeded
  metrics,     \* the metrics registry of the process exists, or is never needed
  audit_log,   \* the audit store (an MLflow server, outlives the process)
  registry,    \* the rollback registry (a dict of the process)
  answer,      \* what POST /decisions told its client about the run
  call,        \* the phase of each resume call
  target,      \* the thread a resume call names
  told,        \* the human_outcome a resume call was answered with
  crashes

channels == <<request, forecast, anomaly, macro, stockout>>
calls == <<call, target, told>>
auditing == <<audit_id, logged, metrics>>
vars == <<pc, returned, channels, decision, auditing, human,
          audit_log, registry, answer, calls, crashes>>

\* The field run of both is the model's own: the code stores no thread id, and
\* tells entries apart by a fresh uuid each.
AuditRecord == [run : Run, decision_id : Request,
                tier : EscalationTier, autonomous : BOOLEAN]
RollbackEntry == [run : Run, decision_id : Request, action_type : ActionType]

TypeOK ==
  /\ pc \in [Run -> {"unused", "specialists", "supervisor", "audit", "recording",
                     "building", "register", "review", "paused", "ended",
                     "raised", "lost"}]
  /\ returned \in [Run -> SUBSET Specialist]
  /\ request \in [Run -> Opt(Request)]
  /\ forecast \in [Run -> Opt(Forecast)]
  /\ anomaly \in [Run -> Opt(BOOLEAN)]
  /\ macro \in [Run -> Opt(RegimeLabel)]
  /\ stockout \in [Run -> Opt(Prob)]
  /\ decision \in [Run -> Opt(SupervisorDecision)]
  /\ audit_id \in [Run -> BOOLEAN]
  /\ human \in [Run -> Opt(Delivery)]
  /\ logged \in [Run -> BOOLEAN]
  /\ metrics \in BOOLEAN
  /\ audit_log \subseteq AuditRecord
  /\ registry \subseteq RollbackEntry
  /\ answer \in [Run -> {"none", "completed", "review_required", "error"}]
  /\ call \in [Delivery -> {"idle", "running", "resolved", "error"}]
  /\ target \in [Delivery -> Opt(Run)]
  /\ told \in [Delivery -> Opt(Delivery)]
  /\ crashes \in 0..MaxCrashes

Init ==
  /\ pc = [r \in Run |-> "unused"]
  /\ returned = [r \in Run |-> {}]
  /\ request = [r \in Run |-> NoValue]
  /\ forecast = [r \in Run |-> NoValue]
  /\ anomaly = [r \in Run |-> NoValue]
  /\ macro = [r \in Run |-> NoValue]
  /\ stockout = [r \in Run |-> NoValue]
  /\ decision = [r \in Run |-> NoValue]
  /\ audit_id = [r \in Run |-> FALSE]
  /\ logged = [r \in Run |-> FALSE]
  /\ metrics = ~PrometheusInstalled
  /\ human = [r \in Run |-> NoValue]
  /\ audit_log = {}
  /\ registry = {}
  /\ answer = [r \in Run |-> "none"]
  /\ call = [d \in Delivery |-> "idle"]
  /\ target = [d \in Delivery |-> NoValue]
  /\ told = [d \in Delivery |-> NoValue]
  /\ crashes = 0

-----------------------------------------------------------------------------
\* POST /decisions.  A client that repeats a request it got no answer to
\* starts another run: nothing but the request identifies the first.
start_decision(r) ==
  /\ pc[r] = "unused"
  /\ \E q \in Request : request' = [request EXCEPT ![r] = q]
  /\ pc' = [pc EXCEPT ![r] = "specialists"]
  /\ UNCHANGED <<returned, forecast, anomaly, macro, stockout, decision,
                 auditing, human, audit_log, registry, answer, calls, crashes>>

\* One specialist of the superstep returns, with a value or, its exception
\* caught by the node, with None.
Returns(r, s) ==
  /\ pc[r] = "specialists"
  /\ s \notin returned[r]
  /\ returned' = [returned EXCEPT ![r] = @ \cup {s}]
  /\ UNCHANGED <<pc, request, stockout, decision, auditing, human,
                 audit_log, registry, answer, calls, crashes>>

demand_node(r) ==
  /\ Returns(r, "demand")
  /\ \E f \in Opt(Forecast) : forecast' = [forecast EXCEPT ![r] = f]
  /\ UNCHANGED <<anomaly, macro>>

\* The logistics agent raises when the request names no port.
anomaly_results(r) == IF request[r] \in Ported THEN BOOLEAN ELSE {}

logistics_node(r) ==
  /\ Returns(r, "logistics")
  /\ \E a \in Opt(anomaly_results(r)) :
       anomaly' = [anomaly EXCEPT ![r] = a]
  /\ UNCHANGED <<forecast, macro>>

macro_node(r) ==
  /\ Returns(r, "macro")
  /\ \E m \in Opt(RegimeLabel) : macro' = [macro EXCEPT ![r] = m]
  /\ UNCHANGED <<forecast, anomaly>>

\* Mutant: the join waits for three values instead of three returns.
Joined_with_values(r) ==
  /\ pc[r] = "specialists"
  /\ returned[r] = Specialist
  /\ NoValue \notin {forecast[r], anomaly[r], macro[r]}

\* The join: the superstep after the one in which all three have returned.
Joined(r) == pc[r] = "specialists" /\ returned[r] = Specialist

PictureOf(r) == {forecast[r], anomaly[r], macro[r]}

\* The joint feature vector exists only over all three values.
stockout_results(r) == IF NoValue \in PictureOf(r) THEN {} ELSE Prob

stockout_node(r) ==
  /\ Joined(r)
  /\ \E p \in Opt(stockout_results(r)) :
       stockout' = [stockout EXCEPT ![r] = p]
  /\ pc' = [pc EXCEPT ![r] = "supervisor"]
  /\ UNCHANGED <<returned, request, forecast, anomaly, macro, decision,
                 auditing, human, audit_log, registry, answer, calls, crashes>>

SignalMissing(r) ==
  \/ forecast[r] = NoValue
  \/ anomaly[r] = NoValue
  \/ macro[r] = NoValue
  \/ stockout[r] = NoValue

\* Mutant: a stockout probability that failed to arrive counts as zero.
Decide_defaulting(r) ==
  IF NoValue \in PictureOf(r)
    THEN escalate_missing(request[r])
    ELSE synthesise(request[r], forecast[r], anomaly[r], macro[r],
                    IF stockout[r] = NoValue THEN 0 ELSE stockout[r])

Decide(r) ==
  IF SignalMissing(r)
    THEN escalate_missing(request[r])
    ELSE synthesise(request[r], forecast[r], anomaly[r], macro[r], stockout[r])

supervisor_node(r) ==
  /\ pc[r] = "supervisor"
  /\ decision' = [decision EXCEPT ![r] = Decide(r)]
  /\ pc' = [pc EXCEPT ![r] = "audit"]
  /\ UNCHANGED <<returned, channels, auditing, human,
                 audit_log, registry, answer, calls, crashes>>

-----------------------------------------------------------------------------
\* Mutants: a failed write is only logged; the flag is set from the write.
enforce_audit_unchecked(d, written) == d

enforce_audit_by_write(d, written) == [d EXCEPT !.autonomous = written]

\* enforce_audit: the decision that continues after a write that succeeded
\* or raised AuditWriteError.
enforce_audit(d, written) ==
  IF written THEN d ELSE [d EXCEPT !.autonomous = FALSE]

\* Mutant: two fields of the record are swapped.
log_decision_swapped(r, d) ==
  [run |-> r, decision_id |-> d.tier,
   tier |-> d.decision_id, autonomous |-> d.autonomous]

log_decision(r, d) ==
  [run |-> r, decision_id |-> d.decision_id,
   tier |-> d.tier, autonomous |-> d.autonomous]

\* Mutant: the route follows the tier instead of the audited flag.
route_after_audit_by_tier(d) ==
  IF AutonomousTier(d.tier) THEN "register" ELSE "review"

route_after_audit(d) == IF d.autonomous THEN "register" ELSE "review"

\* A write that raises may still have left its record behind: MLflow stores
\* the parameters before the metric and the tags.
AuditWrite(written, recorded) == written => recorded

\* Mutant: the loop over the actions ends after the first.
EntriesOf_first(r, d) ==
  LET able == {y \in d.recommended_actions : reversible(y)}
  IN  IF able = {} THEN {}
      ELSE {[run |-> r, decision_id |-> d.decision_id,
             action_type |-> CHOOSE x \in able : TRUE]}

EntriesOf(r, d) ==
  {[run |-> r, decision_id |-> d.decision_id, action_type |-> x] :
     x \in {y \in d.recommended_actions : reversible(y)}}

\* Mutant: the actions are registered before the metrics are recorded.
audit_node_registering(r) ==
  /\ pc[r] = "audit"
  /\ \E written, recorded \in BOOLEAN :
       /\ AuditWrite(written, recorded)
       /\ audit_log' = IF recorded
                         THEN audit_log \cup {log_decision(r, decision[r])}
                         ELSE audit_log
       /\ logged' = [logged EXCEPT ![r] = written]
       /\ registry' = registry \cup EntriesOf(r, enforce_audit(decision[r], written))
  /\ pc' = [pc EXCEPT ![r] = "recording"]
  /\ UNCHANGED <<returned, channels, decision, audit_id, metrics, human,
                 answer, calls, crashes>>

\* audit_node up to the return of enforce_audit.  Nothing of the node is in
\* the channels of the run before the node returns.
audit_node(r) ==
  /\ pc[r] = "audit"
  /\ \E written, recorded \in BOOLEAN :
       /\ AuditWrite(written, recorded)
       /\ audit_log' = IF recorded
                         THEN audit_log \cup {log_decision(r, decision[r])}
                         ELSE audit_log
       /\ logged' = [logged EXCEPT ![r] = written]
  /\ pc' = [pc EXCEPT ![r] = "recording"]
  /\ UNCHANGED <<returned, channels, decision, audit_id, metrics, human,
                 registry, answer, calls, crashes>>

\* The node is done with the metrics: the run goes on as enforce_audit says.
\* record_audit_downgrade finds the registry that record_decision left.
Recorded(r) ==
  LET d == enforce_audit(decision[r], logged[r]) IN
  /\ decision' = [decision EXCEPT ![r] = d]
  /\ audit_id' = [audit_id EXCEPT ![r] = logged[r]]
  /\ pc' = [pc EXCEPT ![r] = route_after_audit(d)]
  /\ UNCHANGED <<returned, channels, logged, human, audit_log, registry,
                 answer, calls, crashes>>

record_decision(r) ==
  /\ pc[r] = "recording"
  /\ metrics
  /\ Recorded(r)
  /\ UNCHANGED metrics

\* _registry finds _metrics unset and goes on to build it.
registry_unset(r) ==
  /\ pc[r] = "recording"
  /\ ~metrics
  /\ pc' = [pc EXCEPT ![r] = "building"]
  /\ UNCHANGED <<returned, channels, decision, auditing, human,
                 audit_log, registry, answer, calls, crashes>>

\* The first thread to create the Counter assigns _metrics.
build_registry(r) ==
  /\ pc[r] = "building"
  /\ ~metrics
  /\ metrics' = TRUE
  /\ Recorded(r)

\* A thread that had found it unset too creates a duplicate: ValueError leaves
\* the node, whose updates are lost.
build_registry_raises(r) ==
  /\ pc[r] = "building"
  /\ metrics
  /\ pc' = [pc EXCEPT ![r] = "raised"]
  /\ UNCHANGED <<returned, channels, decision, auditing, human,
                 audit_log, registry, answer, calls, crashes>>

\* The rest of audit_node for a decision that is still autonomous: its
\* reversible actions are registered, then the graph ends.
register_reversible_actions(r) ==
  /\ pc[r] = "register"
  /\ registry' = registry \cup EntriesOf(r, decision[r])
  /\ pc' = [pc EXCEPT ![r] = "ended"]
  /\ UNCHANGED <<returned, channels, decision, auditing, human,
                 audit_log, answer, calls, crashes>>

-----------------------------------------------------------------------------
\* Mutant: a decision without a stockout result is narrated all the same.
NarratedByModel_always(r) == stockout[r] = NoValue

\* build_review_request calls the language model only for a decision that has
\* a stockout result, and lets the client's exception through.
NarratedByModel(r) == BriefWriterWired /\ stockout[r] # NoValue

\* review_node up to interrupt(): the graph pauses at a checkpoint.
review_node(r) ==
  /\ pc[r] = "review"
  /\ pc' = [pc EXCEPT ![r] = "paused"]
  /\ UNCHANGED <<returned, channels, decision, auditing, human,
                 audit_log, registry, answer, calls, crashes>>

\* Both deployments of the language model failed: the exception leaves the node.
review_node_raises(r) ==
  /\ pc[r] = "review"
  /\ NarratedByModel(r)
  /\ pc' = [pc EXCEPT ![r] = "raised"]
  /\ UNCHANGED <<returned, channels, decision, auditing, human,
                 audit_log, registry, answer, calls, crashes>>

\* create_decision answers its client once the graph has paused, ended or
\* raised.
AnswerTo(r) ==
  CASE pc[r] = "paused" -> "review_required"
    [] pc[r] = "ended"  -> "completed"
    [] pc[r] = "raised" -> "error"

create_decision(r) ==
  /\ pc[r] \in {"paused", "ended", "raised"}
  /\ answer[r] = "none"
  /\ answer' = [answer EXCEPT ![r] = AnswerTo(r)]
  /\ UNCHANGED <<pc, returned, channels, decision, auditing, human,
                 audit_log, registry, calls, crashes>>

-----------------------------------------------------------------------------
\* POST /decisions/{thread_id}/resume.  The caller has the thread_id from the
\* answer to the decision; the call loads the thread's last checkpoint.
\* Mutant: any thread may be named, answered or not.
Knows_any(r) == pc[r] # "unused"

Knows(r) == answer[r] \in {"completed", "review_required"}

Called(d, r, phase) ==
  /\ call[d] = "idle"
  /\ Knows(r)
  /\ call' = [call EXCEPT ![d] = phase]
  /\ target' = [target EXCEPT ![d] = r]

\* A paused thread: review_node is about to run again from its top.
resume_decision(d, r) ==
  /\ Called(d, r, "running")
  /\ pc[r] = "paused"
  /\ UNCHANGED <<pc, returned, channels, decision, auditing, human,
                 audit_log, registry, answer, told, crashes>>

\* Mutant: the outcome of a late call overwrites the thread's.
resume_ended_overwriting(d, r) ==
  /\ Called(d, r, "resolved")
  /\ pc[r] = "ended"
  /\ human' = [human EXCEPT ![r] = d]
  /\ told' = [told EXCEPT ![d] = d]
  /\ UNCHANGED <<pc, returned, channels, decision, auditing,
                 audit_log, registry, answer, crashes>>

\* A thread that has ended runs no node: the call is answered with the state
\* as it is, and the outcome it carries is dropped.
resume_ended(d, r) ==
  /\ Called(d, r, "resolved")
  /\ pc[r] = "ended"
  /\ told' = [told EXCEPT ![d] = human[r]]
  /\ UNCHANGED <<pc, returned, channels, decision, auditing, human,
                 audit_log, registry, answer, crashes>>

\* A thread with no checkpoint left: LangGraph raises EmptyInputError.
resume_unknown(d, r) ==
  /\ Called(d, r, "error")
  /\ pc[r] = "lost"
  /\ UNCHANGED <<pc, returned, channels, decision, auditing, human,
                 audit_log, registry, answer, told, crashes>>

\* The resumed review_node composes its brief anew, interrupt() now returns
\* the outcome, and the final checkpoint is written.  Nothing compares that
\* checkpoint with the one the call loaded.
resume_finish(d) ==
  LET r == target[d] IN
  /\ call[d] = "running"
  /\ human' = [human EXCEPT ![r] = d]
  /\ pc' = [pc EXCEPT ![r] = "ended"]
  /\ call' = [call EXCEPT ![d] = "resolved"]
  /\ told' = [told EXCEPT ![d] = d]
  /\ UNCHANGED <<returned, channels, decision, auditing,
                 audit_log, registry, answer, target, crashes>>

\* The second narration failed: the call gets an error, the thread stays as
\* it is.
resume_raises(d) ==
  /\ call[d] = "running"
  /\ NarratedByModel(target[d])
  /\ call' = [call EXCEPT ![d] = "error"]
  /\ UNCHANGED <<pc, returned, channels, decision, auditing, human,
                 audit_log, registry, answer, target, told, crashes>>

-----------------------------------------------------------------------------
\* What a restarted process finds again.  The checkpointer is a parameter of
\* build_graph: its default MemorySaver, which is what build_app gets, loses
\* every thread with the process; a saver that outlives it, as the docstring of
\* build_production_graph asks of its caller, keeps those that paused or ended.
\* A run cut short in the middle leaves a thread whose id no client ever learnt.
Survives(r) ==
  \/ pc[r] = "unused"
  \/ DurableCheckpoints /\ pc[r] \in {"paused", "ended"}

Keep(channel, default) ==
  [r \in Run |-> IF Survives(r) THEN channel[r] ELSE default]

\* The process dies and is started again: clients and callers still waiting
\* see their connection drop, the registry starts empty, the audit store is
\* another server and keeps everything.
Crash ==
  /\ crashes < MaxCrashes
  /\ crashes' = crashes + 1
  /\ pc' = Keep(pc, "lost")
  /\ returned' = Keep(returned, {})
  /\ request' = Keep(request, NoValue)
  /\ forecast' = Keep(forecast, NoValue)
  /\ anomaly' = Keep(anomaly, NoValue)
  /\ macro' = Keep(macro, NoValue)
  /\ stockout' = Keep(stockout, NoValue)
  /\ decision' = Keep(decision, NoValue)
  /\ audit_id' = Keep(audit_id, FALSE)
  /\ logged' = Keep(logged, FALSE)
  /\ metrics' = ~PrometheusInstalled
  /\ human' = Keep(human, NoValue)
  /\ registry' = {}
  /\ answer' = [r \in Run |-> IF pc[r] # "unused" /\ answer[r] = "none"
                                THEN "error" ELSE answer[r]]
  /\ call' = [d \in Delivery |-> IF call[d] = "running" THEN "error" ELSE call[d]]
  /\ UNCHANGED <<audit_log, target, told>>

-----------------------------------------------------------------------------
\* What the process does for a run once it has been started, up to its answer.
RunStep(r) ==
  \/ demand_node(r) \/ logistics_node(r) \/ macro_node(r)
  \/ stockout_node(r) \/ supervisor_node(r)
  \/ audit_node(r) \/ record_decision(r) \/ registry_unset(r)
  \/ build_registry(r) \/ build_registry_raises(r)
  \/ register_reversible_actions(r)
  \/ review_node(r) \/ review_node_raises(r)
  \/ create_decision(r)

CallStep(d) == resume_finish(d) \/ resume_raises(d)

Next ==
  \/ \E r \in Run : start_decision(r) \/ RunStep(r)
  \/ \E d \in Delivery, r \in Run :
       resume_decision(d, r) \/ resume_ended(d, r) \/ resume_unknown(d, r)
  \/ \E d \in Delivery : CallStep(d)
  \/ Crash

Spec == Init /\ [][Next]_vars

\* The server keeps executing the calls it has accepted.  Nothing makes a
\* client submit, a planner decide or a process crash.
FairSpec ==
  /\ Spec
  /\ \A r \in Run : WF_vars(RunStep(r))
  /\ \A d \in Delivery : WF_vars(CallStep(d))

-----------------------------------------------------------------------------
\* The run acts on its own: its decision has passed the audit gate still
\* autonomous, an action of it is registered, or its client has been told
\* that it is completed.
Acts(r) ==
  \/ pc[r] \in {"register", "ended"} /\ decision[r].autonomous
  \/ \E e \in registry : e.run = r
  \/ answer[r] = "completed"

\* No audit, no autonomy (ADR-0002, enforce_audit and route_after_audit): a
\* run acts on its own only if the audit store holds a record of this very
\* run saying so, whatever failed and however often the process restarted.
NoAuditNoAutonomy ==
  \A r \in Run : Acts(r) =>
    \E rec \in audit_log : rec.run = r /\ rec.autonomous

\* The human gate (review_node, route_after_audit): a run ends without a
\* planner's outcome if and only if its decision is autonomous, the decision
\* an audit failure downgraded included.
HumanGate ==
  \A r \in Run : pc[r] = "ended" =>
    (decision[r].autonomous <=> human[r] = NoValue)

\* The outcome a thread holds was carried by a resume call that named this
\* thread, after its client had been told that a review is required
\* (interrupt and Command(resume) under overlapping calls).
OutcomeIsThePlanners ==
  \A r \in Run : human[r] # NoValue =>
    /\ target[human[r]] = r
    /\ call[human[r]] = "resolved"
    /\ answer[r] = "review_required"

\* Autonomy needs the full picture (supervisor_node): whatever fails or
\* returns late among the four agents, a decision is autonomous only over
\* four values and a probability below the review band.
AutonomyNeedsFullPicture ==
  \A r \in Run : decision[r] # NoValue /\ decision[r].autonomous =>
    /\ NoValue \notin {forecast[r], anomaly[r], macro[r], stockout[r]}
    /\ stockout[r] < REVIEW_MIN_PROB

\* What the reference runner decides on the values of this run's channels.
PipelineDecision(r) ==
  run_pipeline([request |-> request[r], forecast |-> forecast[r], anomaly |-> anomaly[r],
                macro |-> macro[r], stockout |-> stockout[r]])

\* Orchestration adds no logic of its own (ADR-0003; portable.py mirrors "the
\* graph's conservative join"): in whatever order the specialists returned or
\* failed, whatever ran or crashed beside it, a run's decision is the one the
\* framework-free runner takes on the same agent results, and the audit gate
\* is all the graph puts between the two.
GraphAgrees ==
  \A r \in Run :
    /\ pc[r] \in {"audit", "recording", "building"} =>
         decision[r] = PipelineDecision(r)
    /\ pc[r] \in {"register", "review", "paused", "ended"} =>
         decision[r] = [PipelineDecision(r) EXCEPT !.autonomous = @ /\ audit_id[r]]

\* Everything a run does by itself can be undone: when its client is told
\* that it is completed, every action it recommends, not only those marked
\* reversible, is in the rollback registry (register_reversible_actions
\* before the graph ends).
UndoableWhenCompleted ==
  [][\A r \in Run : answer[r] = "none" /\ answer'[r] = "completed" =>
       \A x \in decision[r].recommended_actions :
         \E e \in registry : e.run = r /\ e.action_type = x]_vars

\* Once the Supervisor has decided, no later step of the run, of a planner or
\* of a restarted process changes tier or actions, or gives autonomy back
\* (enforce_audit's copy, review_node's partial state updates).
AutonomyOnlyShrinks ==
  [][\A r \in Run : decision[r] # NoValue /\ decision'[r] # NoValue =>
       /\ decision'[r].tier = decision[r].tier
       /\ decision'[r].recommended_actions = decision[r].recommended_actions
       /\ decision'[r].autonomous => decision[r].autonomous]_vars

\* No decision is refused while the process lives: every failure of a
\* specialist, of the audit store or of the language model ends in a
\* decision or a review.
NeverRefused ==
  \A r \in Run : answer[r] = "error" => crashes > 0

\* The runs that have left the metrics of audit_node behind them.
PastMetrics == {"register", "review", "paused", "ended", "raised"}

\* Before any restart an error answer has one of two causes, and no failure of
\* a specialist, of the joint node or of the audit store is among them: the
\* language model, over a decision that has a stockout result and is escalated
\* (build_review_request), or the race of two runs for the metrics registry
\* (_registry), of which the other has come through.
OnlyModelOrRaceRefuses ==
  \A r \in Run : answer[r] = "error" /\ crashes = 0 =>
    \/ BriefWriterWired /\ stockout[r] # NoValue /\ ~decision[r].autonomous
    \/ PrometheusInstalled /\ \E o \in Run \ {r} : pc[o] \in PastMetrics

\* An error answer may be repeated: whatever raised or died, and at whichever
\* point of the run, no action of a run whose client was told of an error is
\* in the registry (audit_node registers last, after all that may raise).
ErrorMeansNoAction ==
  \A r \in Run : answer[r] = "error" => \A e \in registry : e.run # r

\* Every decision request that is accepted is answered (liveness of the
\* fan-out and its join when any of the agents fails).
EveryRunIsAnswered ==
  \A r \in Run : (pc[r] # "unused") ~> (answer[r] # "none")

-----------------------------------------------------------------------------
\* The inductive invariant of DecisionGraphProofs, in named parts.

Decided == {"audit", "recording", "building", "register", "review",
            "paused", "ended", "raised"}

Audited(r) == \E rec \in audit_log : rec.run = r /\ rec.autonomous

\* Which channels a run has filled, by where it stands, and which threads a
\* running resume call can be on: one that is paused or has just ended.
ChannelsInv ==
  /\ \A r \in Run : pc[r] \notin {"unused", "lost"} => request[r] \in Request
  /\ \A r \in Run : IF pc[r] \in Decided THEN decision[r] \in SupervisorDecision
                                         ELSE decision[r] = NoValue
  /\ \A d \in Delivery : call[d] = "running" =>
       target[d] \in Run /\ pc[target[d]] \in {"paused", "ended"}

\* The audit gate: which side of it a run is on, and what that took.
GateInv ==
  /\ \A r \in Run : pc[r] \in {"recording", "building"} =>
       (decision[r].autonomous /\ logged[r] => Audited(r))
  /\ \A r \in Run : pc[r] = "register" => decision[r].autonomous
  /\ \A r \in Run : pc[r] \in {"review", "paused"} => ~decision[r].autonomous
  /\ \A r \in Run : pc[r] \in {"register", "ended"} /\ decision[r].autonomous => Audited(r)
  /\ \A e \in registry : Audited(e.run)
  /\ \A r \in Run : answer[r] = "completed" => Audited(r)

\* The human gate: no outcome before the run ends, no review of an autonomous
\* run, and a running resume call is on a thread whose review was announced.
PlannerInv ==
  /\ HumanGate
  /\ OutcomeIsThePlanners
  /\ \A r \in Run : pc[r] # "ended" => human[r] = NoValue
  /\ \A r \in Run : answer[r] = "completed" => pc[r] \in {"ended", "lost"}
  /\ \A r \in Run : answer[r] = "review_required" =>
       /\ pc[r] \in {"paused", "ended", "lost"}
       /\ pc[r] # "lost" => ~decision[r].autonomous
       /\ DurableCheckpoints => pc[r] # "lost"
  /\ \A d \in Delivery : call[d] = "running" => answer[target[d]] = "review_required"

\* What an autonomous run does can be undone as long as nobody has been told.
UndoInv ==
  \A r \in Run : pc[r] \in Decided /\ decision[r].autonomous =>
    /\ \A x \in decision[r].recommended_actions : reversible(x)
    /\ pc[r] = "ended" /\ answer[r] = "none" => EntriesOf(r, decision[r]) \subseteq registry

\* Entries are of runs that have ended, and are gone with their process.
RegistryInv ==
  /\ \A e \in registry : pc[e.run] = "ended" /\ answer[e.run] # "error"
  /\ \A r \in Run : pc[r] \notin {"raised", "ended", "lost", "paused"} => answer[r] = "none"
  /\ \A r \in Run : pc[r] = "raised" => answer[r] \in {"none", "error"}

GraphInv ==
  /\ TypeOK /\ ChannelsInv
  /\ GateInv /\ PlannerInv /\ UndoInv /\ RegistryInv
  /\ AutonomyNeedsFullPicture

-----------------------------------------------------------------------------
\* What the repository says of the program and the code does not do.

\* "every decision run and every emitted action carries an idempotency key
\* ... so a retried run cannot double-act" (docs/architecture.md): no two
\* registered actions of one decision id are the same action.
RetryActsOnce ==
  \A e1, e2 \in registry :
    e1.decision_id = e2.decision_id /\ e1.action_type = e2.action_type => e1 = e2

\* "Escalated decisions proceed to HITL whether or not the audit write
\* succeeded (the review workflow logs them)" (governance/audit.py): a
\* reviewed run that has ended is in the audit store.
ReviewedIsLogged ==
  \A r \in Run : pc[r] = "ended" => \E rec \in audit_log : rec.run = r

-----------------------------------------------------------------------------
\* Refinement mapping to what the system promises.  A run has acted when its
\* client is told that it is completed; until then, a crash undoes it.
PhaseOf(r) ==
  CASE pc[r] = "unused" -> "idle"
    [] answer[r] = "completed" -> "acted"
    [] answer[r] # "completed" /\ pc[r] = "paused" -> "escalated"
    [] answer[r] = "review_required" /\ pc[r] = "ended" -> "resolved"
    [] \/ answer[r] # "completed" /\ pc[r] \in {"raised", "lost"}
       \/ answer[r] = "error" /\ pc[r] = "ended" -> "closed"
    [] OTHER -> "open"

Traced == {r \in Run : \E rec \in audit_log : rec.run = r /\ rec.autonomous}

Governed == INSTANCE GovernedDecision
  WITH phase <- [r \in Run |-> PhaseOf(r)],
       traced <- Traced,
       Forgetful <- ~DurableCheckpoints

\* The graph, its failures, restarts and overlapping resume calls implement
\* the promise of GovernedDecision, step by step.
GovernedSpec == Governed!Spec
==============================================================================
