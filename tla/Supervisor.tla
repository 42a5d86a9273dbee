----------------------------- MODULE Supervisor -----------------------------
(***************************************************************************)
(* The Supervisor agent, agents/supervisor.py: the joint signals it builds *)
(* from the four specialist outputs, the actions it proposes and the typed *)
(* decision it stamps.                                                     *)
(*                                                                         *)
(* A request stands for its own hash (sha256 of its JSON is injective for  *)
(* every purpose here), so the decision id is the request.  The ranks of   *)
(* the proposed actions are left out: nothing reads them.                  *)
(***************************************************************************)
EXTENDS Escalation

CONSTANT Request

ActionType == {"expedite", "reroute", "safety_stock_transfer", "substitute"}

\* The three regimes other than SHOCK are not told apart by any consumer.
RegimeLabel == {"neutral", "shock"}

SupervisorDecision ==
  [ decision_id         : Request,
    tier                : EscalationTier,
    autonomous          : BOOLEAN,
    recommended_actions : SUBSET ActionType ]

-----------------------------------------------------------------------------
OneIf(b) == IF b THEN 1 ELSE 0

\* The joint signals: forecast f, anomaly flag a, regime m and stockout
\* probability p, with the number of them that are elevated.
signals(f, a, m, p) ==
  [ stockout_probability |-> p,
    forecast             |-> f,
    anomaly_flag         |-> a,
    macro_shock          |-> m = "shock",
    signal_count         |-> OneIf(a) + OneIf(m = "shock")
                             + OneIf(p >= REVIEW_MIN_PROB)
                             + OneIf(high_uncertainty(f)),
    missing_signal       |-> FALSE ]

reversible(action) == action # "substitute"

\* Mutant: transfer and substitution are proposed from the monitor band on.
propose_actions_early(a, p) ==
  (IF a THEN {"reroute", "expedite"} ELSE {})
  \cup (IF p >= ROUTINE_MAX_PROB
          THEN {"safety_stock_transfer", "substitute"} ELSE {})

propose_actions(a, p) ==
  (IF a THEN {"reroute", "expedite"} ELSE {})
  \cup (IF p >= REVIEW_MIN_PROB
          THEN {"safety_stock_transfer", "substitute"} ELSE {})

synthesise(request, f, a, m, p) ==
  LET tier == evaluate_escalation(signals(f, a, m, p))
  IN  [ decision_id         |-> request,
        tier                |-> tier,
        autonomous          |-> AutonomousTier(tier),
        recommended_actions |-> propose_actions(a, p) ]

missing_signals ==
  [ stockout_probability |-> 0,
    forecast             |-> [p50 |-> 0, interval_width |-> 0],
    anomaly_flag         |-> FALSE,
    macro_shock          |-> FALSE,
    signal_count         |-> 0,
    missing_signal       |-> TRUE ]

escalate_missing(request) ==
  LET tier == evaluate_escalation(missing_signals)
  IN  [ decision_id         |-> request,
        tier                |-> tier,
        autonomous          |-> AutonomousTier(tier),
        recommended_actions |-> {} ]
=============================================================================
