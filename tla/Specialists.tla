---------------------------- MODULE Specialists ----------------------------
(***************************************************************************)
(* The four specialist agents, from what the outside gives them, the rows  *)
(* of the online store and the answer of the forecast endpoint, to what    *)
(* they return to the orchestrator, NoValue where they raise.              *)
(*                                                                         *)
(* A row maps every column that is asked for to a value, or to NoValue     *)
(* where the store has none.  What the two trained models say of a         *)
(* complete input is an input here, given together with that input: to a   *)
(* different one they may say anything else.  So is a forecast, per        *)
(* quantile and step.  Of the regimes only SHOCK is kept apart, so that    *)
(* the yield curve and the PMI are left out of the macro row.              *)
(***************************************************************************)
EXTENDS Pipeline, Sums

CONSTANT BaseColumn    \* the base columns the stockout model was trained on

\* The columns of the joint vector that the other three agents fill.
DerivedColumn ==
  {"demand_p50", "demand_interval_width", "anomaly_flag", "macro_shock"}

ASSUME ColumnAssumption == BaseColumn \cap DerivedColumn = {}

ShockSentiment == 55
FreightColumn == {"congestion_index", "dwell_hours", "rolling_zscore"}
Quantile == {"p10", "p50", "p90"}

\* logistics_features, stockout_features, macro_latest: nulls are dropped.
features(row) == [c \in {d \in DOMAIN row : row[d] # NoValue} |-> row[c]]

-----------------------------------------------------------------------------
\* The demand agent.  The answer is NoValue when the call itself fails, and
\* maps a quantile to NoValue when none of its keys is among the predictions.
EndpointAnswer == [Quantile -> Opt(Seq(Int))]

ASSUME AnswerAssumption ==
  /\ NoValue \notin Int
  /\ NoValue \notin Seq(Int)
  /\ NoValue \notin EndpointAnswer

\* _extract_quantile finds each, and the arrays are of one length.
WellFormed(answer) ==
  /\ \A q \in Quantile : answer[q] # NoValue /\ Len(answer[q]) = Len(answer["p50"])
  /\ answer["p50"] # <<>>

\* The contract's validators on the totals over the horizon.
Ordered(answer) ==
  /\ Total(answer["p10"]) <= Total(answer["p50"])
  /\ Total(answer["p50"]) <= Total(answer["p90"])

parse_chronos_response(answer) ==
  IF WellFormed(answer) /\ Ordered(answer)
    THEN [ p50            |-> Total(answer["p50"]),
           interval_width |-> Total(answer["p90"]) - Total(answer["p10"]) ]
    ELSE NoValue

chronos_forecast(answer) ==
  IF answer = NoValue THEN NoValue ELSE parse_chronos_response(answer)

-----------------------------------------------------------------------------
\* Both models refuse a row that lacks one of the columns they were fitted on.
Complete(columns, row) == columns \subseteq DOMAIN features(row)

\* The logistics agent: the forest needs every column, and the default of
\* congestion_index is never seen.

\* Mutant: a row that is not complete counts as no anomaly.
detect_freight_anomaly_calm(row, flag) == Complete(FreightColumn, row) /\ flag

detect_freight_anomaly(row, flag) ==
  IF Complete(FreightColumn, row) THEN flag ELSE NoValue

logistics_agent(request, row, flag) ==
  IF request \in Ported THEN detect_freight_anomaly(row, flag) ELSE NoValue

\* The macro agent: an absent sentiment is no shock.
classify_regime(s) ==
  IF "consumer_sentiment" \in DOMAIN s /\ s["consumer_sentiment"] < ShockSentiment
    THEN "shock"
    ELSE "neutral"

assess_macro(row) == classify_regime(features(row))

\* The stockout agent: the base row, under what the other three agents said.
\* The anomaly's two scores and the regime's confidence are columns of their
\* own in the code; here they go with the flag and the regime.
assemble_features(forecast, anomaly, macro, base) ==
  LET row     == features(base)
      derived == [ demand_p50            |-> forecast.p50,
                   demand_interval_width |-> forecast.interval_width,
                   anomaly_flag          |-> OneIf(anomaly),
                   macro_shock           |-> OneIf(macro = "shock") ]
  IN  [ c \in DOMAIN row \cup DerivedColumn |->
          IF c \in DerivedColumn THEN derived[c] ELSE row[c] ]

\* prob is the classifier's answer to this very vector.
classify_stockout_risk(vector, prob) ==
  IF DerivedColumn \cup BaseColumn \subseteq DOMAIN vector THEN prob ELSE NoValue

stockout_agent(forecast, anomaly, macro, base, prob) ==
  classify_stockout_risk(assemble_features(forecast, anomaly, macro, base), prob)

-----------------------------------------------------------------------------
\* What run_pipeline sees of the world w: the fourth agent is not reached
\* unless the first three return.
ReadingsOf(request, w) ==
  LET forecast == chronos_forecast(w.answer)
      anomaly  == logistics_agent(request, w.freight, w.flag)
      macro    == assess_macro(w.macro)
  IN  [ request  |-> request,
        forecast |-> forecast,
        anomaly  |-> anomaly,
        macro    |-> macro,
        stockout |-> IF NoValue \in {forecast, anomaly, macro} THEN NoValue
                     ELSE stockout_agent(forecast, anomaly, macro, w.base, w.prob) ]
=============================================================================
