-------------------------- MODULE MafWorkflowProofs --------------------------
(***************************************************************************)
(* Proofs about MafWorkflow, for any sets of requests, forecasts and       *)
(* probabilities and any thresholds.                                       *)
(***************************************************************************)
EXTENDS MafWorkflow, SupervisorProofs, SequenceTheorems

LEMMA ReadingTypes ==
  ASSUME readings \in Readings
  PROVE  /\ readings.request \in Request
         /\ readings.forecast \in Opt(Forecast)
         /\ readings.anomaly \in Opt(BOOLEAN)
         /\ readings.macro \in Opt(RegimeLabel)
         /\ readings.stockout \in Opt(Prob)
  BY DEF Readings

\* What a specialist that does not raise sends is a message.
LEMMA SentIsMessage ==
  ASSUME readings \in Readings, NEW t \in Tag, ValueOf(t) # NoValue
  PROVE  <<t, ValueOf(t)>> \in Message
<1>1. CASE t = "forecast"
  BY <1>1, ReadingTypes DEF ValueOf, Message, Opt
<1>2. CASE t = "anomaly"
  BY <1>2, ReadingTypes DEF ValueOf, Message, Opt
<1>3. CASE t = "macro"
  BY <1>3, ReadingTypes DEF ValueOf, Message, Opt
<1> QED BY <1>1, <1>2, <1>3 DEF Tag

\* dict(signals): whatever the order of the list, a tag that is in it finds
\* the value its agent gave, and the agent gave one.
LEMMA DataIsTheAgents ==
  ASSUME PortInv, NEW t \in Delivered
  PROVE  data(t) = ValueOf(t) /\ data(t) # NoValue
<1> DEFINE n == CHOOSE i \in 1..Len(inbox) : inbox[i][1] = t
<1>1. n \in 1..Len(inbox) /\ inbox[n][1] = t
  BY DEF Delivered
<1> HIDE DEF n
<1>2. inbox[n][2] = ValueOf(t) /\ inbox[n][2] # NoValue
  BY <1>1 DEF PortInv
<1>3. data(t) = inbox[n][2]
  BY DEF data, n
<1> QED BY <1>2, <1>3

\* Every step of the workflow preserves the invariant.
LEMMA PortStep == PortInv /\ [Next]_vars => PortInv'
<1> SUFFICES ASSUME PortInv, [Next]_vars PROVE PortInv'
  OBVIOUS
<1> USE DEF PortInv
<1>1. CASE ingest
  <2>1. inbox = <<>>
    BY <1>1, ReadingTypes, PortAssumption, PipelineAssumption DEF ingest
  <2>2. message = NoValue
    BY <1>1, ReadingTypes, PortAssumption, PipelineAssumption DEF ingest
  <2>3. shared' = readings.request /\ shared' \in Opt(Request)
    BY <1>1, ReadingTypes DEF ingest, Opt
  <2> QED BY <1>1, <2>1, <2>2, <2>3 DEF ingest, ValueOf
<1>2. ASSUME NEW t \in Tag, specialist(t) PROVE PortInv'
  <2>1. /\ inbox' = Append(inbox, <<t, ValueOf(t)>>)
        /\ ValueOf(t) # NoValue /\ shared # NoValue
        /\ UNCHANGED <<readings, shared, message, output, failed>>
    BY <1>2 DEF specialist
  <2>2. <<t, ValueOf(t)>> \in Message
    BY <2>1, SentIsMessage
  <2>3. /\ inbox' \in Seq(Message)
        /\ Len(inbox') = Len(inbox) + 1
        /\ \A i \in 1..Len(inbox) : inbox'[i] = inbox[i]
        /\ inbox'[Len(inbox) + 1] = <<t, ValueOf(t)>>
    BY <2>1, <2>2, AppendProperties
  <2>4. \A i \in 1..Len(inbox') :
          inbox'[i][2] = ValueOf(inbox'[i][1]) /\ inbox'[i][2] # NoValue
    <3> SUFFICES ASSUME NEW i \in 1..Len(inbox')
                 PROVE  inbox'[i][2] = ValueOf(inbox'[i][1]) /\ inbox'[i][2] # NoValue
      OBVIOUS
    <3>1. CASE i = Len(inbox) + 1
      BY <3>1, <2>1, <2>3
    <3>2. CASE i # Len(inbox) + 1
      <4>1. i \in 1..Len(inbox)
        BY <3>2, <2>3, LenProperties
      <4> QED BY <4>1, <2>3
    <3> QED BY <3>1, <3>2
  <2>5. shared = readings.request
    BY <2>1
  <2> QED BY <2>1, <2>3, <2>4, <2>5 DEF ValueOf
<1>3. ASSUME NEW t \in Tag, specialist_raises(t) PROVE PortInv'
  <2>1. SomeRaises(readings)
    BY <1>3 DEF specialist_raises, SomeRaises, ValueOf, Tag
  <2> QED BY <1>3, <2>1 DEF specialist_raises, ValueOf
<1>4. CASE StockoutExecutor
  <2>1. Delivered = Tag
    BY <1>4 DEF StockoutExecutor, FanIn
  <2>2. /\ data("forecast") = readings.forecast /\ readings.forecast # NoValue
        /\ data("anomaly") = readings.anomaly /\ readings.anomaly # NoValue
        /\ data("macro") = readings.macro /\ readings.macro # NoValue
    BY <2>1, DataIsTheAgents DEF Tag, ValueOf
  <2>3. ~SomeRaises(readings)
    BY <1>4, <2>2 DEF StockoutExecutor, SomeRaises
  <2>4. inbox # <<>>
    BY <2>1 DEF Delivered, Tag
  <2>5. message' = [forecast |-> readings.forecast, anomaly |-> readings.anomaly,
                    macro |-> readings.macro, stockout |-> readings.stockout]
    BY <1>4, <2>2 DEF StockoutExecutor
  <2>6. UNCHANGED <<readings, shared, inbox, output, failed>>
    BY <1>4 DEF StockoutExecutor
  <2> QED BY <2>3, <2>4, <2>5, <2>6 DEF ValueOf
<1>5. CASE StockoutExecutor_raises
  <2>1. SomeRaises(readings)
    BY <1>5 DEF StockoutExecutor_raises, SomeRaises
  <2> QED BY <1>5, <2>1 DEF StockoutExecutor_raises, ValueOf
<1>6. CASE SupervisorExecutor
  <2>1. output' = run_pipeline(readings)
    BY <1>6 DEF SupervisorExecutor, run_pipeline
  <2> QED BY <1>6, <2>1 DEF SupervisorExecutor, ValueOf
<1>7. CASE UNCHANGED vars
  BY <1>7 DEF vars, ValueOf
<1> QED BY <1>1, <1>2, <1>3, <1>4, <1>5, <1>6, <1>7 DEF Next

LEMMA PortCorrect == Spec => []PortInv
<1>1. Init => PortInv
  <2> SUFFICES ASSUME Init PROVE PortInv
    OBVIOUS
  <2>1. inbox = <<>> /\ inbox \in Seq(Message) /\ Len(inbox) = 0
    BY EmptySeq DEF Init
  <2>2. /\ readings \in Readings /\ shared = NoValue /\ message = NoValue
        /\ output = NoValue /\ failed = FALSE
    BY DEF Init
  <2>3. 1..Len(inbox) = {}
    BY <2>1
  <2> QED BY <2>1, <2>2, <2>3 DEF PortInv, Opt
<1> QED BY <1>1, PortStep, PTL DEF Spec

\* Whatever the order of arrival, the port yields what run_pipeline returns.
THEOREM PortAgreesHolds == Spec => []PortAgrees
<1>1. PortInv => PortAgrees
  BY DEF PortInv, PortAgrees
<1> QED BY <1>1, PortCorrect, PTL

\* The port fails only on agents for which run_pipeline escalates.
THEOREM FailsOnlyWhereEscalatedHolds == Spec => []FailsOnlyWhereEscalated
<1>1. PortInv => FailsOnlyWhereEscalated
  BY DEF PortInv, FailsOnlyWhereEscalated, run_pipeline
<1> QED BY <1>1, PortCorrect, PTL

\* Types: messages carry the type of their tag, and what is yielded is a
\* decision as the contract defines it.
THEOREM PortTypes == Spec => []TypeOK
<1>1. PortInv => TypeOK
  <2> SUFFICES ASSUME PortInv PROVE TypeOK
    OBVIOUS
  <2>1. message \in Opt([forecast : Forecast, anomaly : BOOLEAN,
                         macro : RegimeLabel, stockout : Prob])
    <3>1. CASE message = NoValue
      BY <3>1 DEF Opt
    <3>2. CASE message # NoValue
      BY <3>2, ReadingTypes DEF PortInv, SomeRaises, Opt
    <3> QED BY <3>1, <3>2
  <2>2. run_pipeline(readings) \in SupervisorDecision
    BY ReadingTypes, MissingIsCritical, SynthesiseType DEF PortInv, run_pipeline
  <2>3. output \in Opt(SupervisorDecision)
    BY <2>2 DEF PortInv, Opt
  <2> QED BY <2>1, <2>3 DEF PortInv, TypeOK
<1> QED BY <1>1, PortCorrect, PTL
=============================================================================
