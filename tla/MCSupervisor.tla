---------------------------- MODULE MCSupervisor ----------------------------
(***************************************************************************)
(* Exhaustive check of the decision as a function of what the outside      *)
(* gives: through the specialists, the pipeline, the Supervisor and the    *)
(* policy.  A state is one state of the world; a step makes one thing of   *)
(* it worse, a signal or a source, and nothing else, but for the answer of *)
(* the classifier: its vector holds what the other agents said, so that    *)
(* where a step changes that, the probability may become any other one.    *)
(***************************************************************************)
EXTENDS Specialists

CONSTANTS Prob, Median, Width, Sentiment, Fault

ASSUME WorldAssumption ==
  /\ Prob \subseteq Probability
  /\ Median \subseteq Int
  /\ Width \subseteq Nat
  /\ Sentiment \subseteq Int
  /\ Fault \subseteq {"http", "key", "empty", "short", "crossed"}
  /\ BaseColumn # {}

MCMedian == {-20, 0, 1, 20}

VARIABLES
  request,
  median, width,   \* the totals of a sound forecast
  fault,           \* what is wrong with the endpoint's answer, or "none"
  freight,         \* the columns the port's row has
  flag,            \* what the forest says of a complete row
  sentiment,       \* of the macro row, NoValue when it is absent
  base,            \* the SKU's base row is complete
  prob             \* what the classifier says of the vector at hand

vars == <<request, median, width, fault, freight, flag, sentiment, base, prob>>

\* Two steps of a forecast with the given totals, and what may come instead.
Sound ==
  [ p10 |-> <<median, -(width \div 2)>>,
    p50 |-> <<median, 0>>,
    p90 |-> <<median, width - width \div 2>> ]

Answer ==
  CASE fault = "none"    -> Sound
    [] fault = "http"    -> NoValue
    [] fault = "key"     -> [Sound EXCEPT !.p90 = NoValue]
    [] fault = "empty"   -> [q \in Quantile |-> <<>>]
    [] fault = "short"   -> [Sound EXCEPT !.p10 = <<median>>]
    [] fault = "crossed" -> [Sound EXCEPT !.p10 = <<median, width + 1>>]

World ==
  [ answer  |-> Answer,
    freight |-> [c \in FreightColumn |-> IF c \in freight THEN 1 ELSE NoValue],
    flag    |-> flag,
    macro   |-> [c \in {"consumer_sentiment"} |-> sentiment],
    base    |-> [c \in BaseColumn |-> IF base THEN 1 ELSE NoValue],
    prob    |-> prob ]

\* run_pipeline(ReadingsOf(request, world)), with both arguments bound to their
\* values: TLC would compute them anew at each use in an action formula.
DecisionOn(world) ==
  CHOOSE d \in {run_pipeline(x) : x \in {ReadingsOf(request, w) : w \in {world}}} : TRUE

Decision == DecisionOn(World)

Init ==
  /\ request \in Request
  /\ median \in Median
  /\ width \in Width
  /\ fault = "none"
  /\ freight = FreightColumn
  /\ flag \in BOOLEAN
  /\ sentiment \in Opt(Sentiment)
  /\ base = TRUE
  /\ prob \in Prob

\* A source is lost.  One at a time: a second one changes nothing.
Blind == request \notin Ported \/ fault # "none" \/ freight # FreightColumn \/ ~base

WidenInterval ==
  /\ \E w \in {x \in Width : x > width} : width' = w
  /\ prob' \in Prob
  /\ UNCHANGED <<request, median, fault, freight, flag, sentiment, base>>

SpoilForecast ==
  /\ ~Blind
  /\ fault' \in Fault
  /\ UNCHANGED <<request, median, width, freight, flag, sentiment, base, prob>>

LoseFreightColumn ==
  /\ ~Blind
  /\ \E c \in freight : freight' = freight \ {c}
  /\ UNCHANGED <<request, median, width, fault, flag, sentiment, base, prob>>

RaiseAnomaly ==
  /\ ~flag
  /\ flag' = TRUE
  /\ prob' \in Prob
  /\ UNCHANGED <<request, median, width, fault, freight, sentiment, base>>

\* Only the regime is in the vector, not the sentiment it comes from.
LowerSentiment ==
  /\ sentiment # NoValue
  /\ \E s \in {x \in Sentiment : x < sentiment} : sentiment' = s
  /\ prob' \in IF sentiment >= ShockSentiment /\ sentiment' < ShockSentiment
                THEN Prob ELSE {prob}
  /\ UNCHANGED <<request, median, width, fault, freight, flag, base>>

\* The yield curve and the PMI go with it, and with them any other regime.
LoseMacroRow ==
  /\ sentiment # NoValue
  /\ sentiment' = NoValue
  /\ prob' \in Prob
  /\ UNCHANGED <<request, median, width, fault, freight, flag, base>>

LoseBaseColumn ==
  /\ ~Blind
  /\ base' = FALSE
  /\ UNCHANGED <<request, median, width, fault, freight, flag, sentiment, prob>>

\* The base row changes, and the classifier finds the SKU more at risk.
RaiseProbability ==
  /\ \E p \in {x \in Prob : x > prob} : prob' = p
  /\ UNCHANGED <<request, median, width, fault, freight, flag, sentiment, base>>

Next ==
  \/ WidenInterval \/ SpoilForecast \/ LoseFreightColumn \/ RaiseAnomaly
  \/ LowerSentiment \/ LoseMacroRow \/ LoseBaseColumn \/ RaiseProbability

Spec == Init /\ [][Next]_vars

-----------------------------------------------------------------------------
\* The escalation table of PRD section 6.3, one row per tier, over the raw
\* readings.  "Multi-signal conjunction" is any two of the four signals.
Elevated ==
  {x \in {"anomaly", "shock", "probability", "uncertainty"} :
     \/ x = "anomaly" /\ flag
     \/ x = "shock" /\ sentiment # NoValue /\ sentiment < 55
     \/ x = "probability" /\ prob >= 55
     \/ x = "uncertainty" /\ 2 * width > Abs(median)}

PolicyRow(tier) ==
  \/ tier = "critical" /\ (Blind \/ prob > 75 \/ {"anomaly", "shock", "uncertainty"} \subseteq Elevated)
  \/ tier = "review"   /\ (prob \in 55..75 \/ \E x, y \in Elevated : x # y)
  \/ tier = "monitor"  /\ (prob \in 30..54 \/ flag)
  \/ tier = "routine"  /\ prob < 30 /\ ~flag
                       /\ (width = 0 \/ 5 * width < Abs(median))

\* From the rows of the store and the endpoint's answer to the tier: the code
\* picks the gravest row of the policy table whose condition holds, and
\* MONITOR where the table has no row.  Tools, models' input checks, contract
\* validators, signal counting and the order of the branches together
\* (run_pipeline over evaluate_escalation).
GravestRowWins ==
  LET rows == {t \in EscalationTier : PolicyRow(t)}
  IN  IF rows = {} THEN Decision.tier = "monitor"
      ELSE /\ Decision.tier \in rows
           /\ \A t \in rows : Severity(t) <= Severity(Decision.tier)

\* An autonomous decision never carries an action that cannot be rolled back:
\* the threshold of Supervisor._propose_actions and the tiering agree, so the
\* rollback registry covers everything the system may do by itself.
AutonomyIsReversible ==
  Decision.autonomous => \A x \in Decision.recommended_actions : reversible(x)

\* Nothing can become worse and the tier milder: neither evidence of risk nor
\* the loss of a source ever talks the policy out of an escalation
\* (evaluate_escalation over _signals, escalate_missing over the tools), unless
\* the classifier itself answers a lower probability to the worse vector.  The
\* loss of the macro row is the one exception.
RegimeLost == sentiment # NoValue /\ sentiment' = NoValue

TierNeverEases ==
  [][~RegimeLost /\ prob <= prob' => Severity(Decision.tier) <= Severity(Decision'.tier)]_vars

\* The exception: an absent macro row is classified NEUTRAL, which hides a
\* shock from the policy and gives the classifier another vector.  Whatever it
\* answers to that, what the other sources show still counts: an anomaly keeps
\* the decision from ROUTINE, and with a wide interval keeps it escalated.  And
\* when the classifier does not turn milder, the row costs one tier at most and
\* makes no decision routine that was not (classify_regime and assemble_features
\* under evaluate_escalation).
LostRegimeKeepsTheRest ==
  [][RegimeLost =>
       /\ flag => Decision'.tier # "routine"
       /\ {"anomaly", "uncertainty"} \subseteq Elevated
            => Severity("review") <= Severity(Decision'.tier)
       /\ prob <= prob' =>
            /\ Severity(Decision.tier) <= Severity(Decision'.tier) + 1
            /\ Decision'.tier = "routine" => Decision.tier = "routine"]_vars
=============================================================================
