----------------------------- MODULE MafWorkflow -----------------------------
(***************************************************************************)
(* The Microsoft Agent Framework port of the decision workflow, over the   *)
(* same agents as the run_pipeline it is compared with.  Each executor     *)
(* runs when its message arrives and sends a tagged one; the framework     *)
(* delivers the three of the fan-out in any order and runs the stockout    *)
(* executor once it has all of them.  An executor that raises fails the    *)
(* workflow: the port has no join that takes a missing value.              *)
(*                                                                         *)
(* readings holds what each agent gives for the request, NoValue when it   *)
(* raises; both orchestrations read the same.                              *)
(***************************************************************************)
EXTENDS Pipeline, Sequences, FiniteSets

CONSTANTS Forecast, Prob

ASSUME PortAssumption ==
  /\ Forecast \subseteq QuantileForecast
  /\ Prob \subseteq Probability

Tag == {"forecast", "anomaly", "macro"}

\* A specialist sends a pair of its tag and its value.
Message == ({"forecast"} \X Forecast) \cup ({"anomaly"} \X BOOLEAN)
             \cup ({"macro"} \X RegimeLabel)

\* The logistics agent raises when the request names no port.
Readings ==
  {x \in [request : Request, forecast : Opt(Forecast), anomaly : Opt(BOOLEAN),
          macro : Opt(RegimeLabel), stockout : Opt(Prob)] :
     x.request \notin Ported => x.anomaly = NoValue}

-----------------------------------------------------------------------------
VARIABLES
  readings,
  shared,      \* ctx state: the request, once ingest has stored it
  inbox,       \* the tagged messages that have reached the fan-in, in order
  message,     \* what the stockout executor has sent on
  output,      \* what the workflow has yielded
  failed       \* an executor has raised

vars == <<readings, shared, inbox, message, output, failed>>

ValueOf(t) ==
  CASE t = "forecast" -> readings.forecast
    [] t = "anomaly"  -> readings.anomaly
    [] t = "macro"    -> readings.macro

Delivered == {inbox[i][1] : i \in 1..Len(inbox)}

Init ==
  /\ readings \in Readings
  /\ shared = NoValue
  /\ inbox = <<>>
  /\ message = NoValue
  /\ output = NoValue
  /\ failed = FALSE

ingest ==
  /\ shared = NoValue
  /\ shared' = readings.request
  /\ UNCHANGED <<readings, inbox, message, output, failed>>


\* Mutant: a flag that could not be computed is sent as no anomaly.
specialist_defaulting(t) ==
  /\ shared # NoValue /\ ~failed
  /\ t \notin Delivered
  /\ t = "anomaly" \/ ValueOf(t) # NoValue
  /\ inbox' = Append(inbox, <<t, IF ValueOf(t) = NoValue THEN FALSE ELSE ValueOf(t)>>)
  /\ UNCHANGED <<readings, shared, message, output, failed>>

\* DemandExecutor, LogisticsExecutor, MacroExecutor.
specialist(t) ==
  /\ shared # NoValue /\ ~failed
  /\ t \notin Delivered
  /\ ValueOf(t) # NoValue
  /\ inbox' = Append(inbox, <<t, ValueOf(t)>>)
  /\ UNCHANGED <<readings, shared, message, output, failed>>

specialist_raises(t) ==
  /\ shared # NoValue /\ ~failed
  /\ t \notin Delivered
  /\ ValueOf(t) = NoValue
  /\ failed' = TRUE
  /\ UNCHANGED <<readings, shared, inbox, message, output>>

\* Mutant: the list of the fan-in is taken in the order of its edges.
FanIn_ordered == [i \in 1..Len(inbox) |-> inbox[i][1]] = <<"forecast", "anomaly", "macro">>

\* add_fan_in_edges: one message of each of the three.
FanIn == Delivered = Tag

\* data = dict(signals): the value under a tag, whatever its position.
data(t) == inbox[CHOOSE i \in 1..Len(inbox) : inbox[i][1] = t][2]

\* Mutant: a stockout agent that raises is joined all the same.
StockoutExecutor_partial ==
  /\ FanIn /\ ~failed
  /\ message = NoValue
  /\ message' = [forecast |-> data("forecast"),
                 anomaly  |-> data("anomaly"),
                 macro    |-> data("macro"),
                 stockout |-> readings.stockout]
  /\ UNCHANGED <<readings, shared, inbox, output, failed>>

StockoutExecutor ==
  /\ FanIn /\ ~failed
  /\ message = NoValue
  /\ readings.stockout # NoValue
  /\ message' = [forecast |-> data("forecast"),
                 anomaly  |-> data("anomaly"),
                 macro    |-> data("macro"),
                 stockout |-> readings.stockout]
  /\ UNCHANGED <<readings, shared, inbox, output, failed>>

StockoutExecutor_raises ==
  /\ FanIn /\ ~failed
  /\ message = NoValue
  /\ readings.stockout = NoValue
  /\ failed' = TRUE
  /\ UNCHANGED <<readings, shared, inbox, message, output>>

SupervisorExecutor ==
  /\ message # NoValue
  /\ output = NoValue
  /\ output' = synthesise(shared, message.forecast, message.anomaly,
                          message.macro, message.stockout)
  /\ UNCHANGED <<readings, shared, inbox, message, failed>>

Next ==
  \/ ingest
  \/ \E t \in Tag : specialist(t) \/ specialist_raises(t)
  \/ StockoutExecutor \/ StockoutExecutor_raises
  \/ SupervisorExecutor

Spec == Init /\ [][Next]_vars

\* The framework keeps delivering messages to executors.
FairSpec == Spec /\ WF_vars(Next)

-----------------------------------------------------------------------------
TypeOK ==
  /\ readings \in Readings
  /\ shared \in Opt(Request)
  /\ inbox \in Seq(Message)
  /\ message \in Opt([forecast : Forecast, anomaly : BOOLEAN,
                       macro : RegimeLabel, stockout : Prob])
  /\ output \in Opt(SupervisorDecision)
  /\ failed \in BOOLEAN

\* In whichever order the specialists answer, what the port yields is what
\* run_pipeline returns for the same agents ("the reference the MAF port is
\* compared against", portable.py): tags, not positions, tell the messages of
\* the fan-in apart, and no value is made up for one that is missing.
PortAgrees == output # NoValue => output = run_pipeline(readings)

\* The port fails without a decision only where run_pipeline escalates: no
\* order of arrival loses a decision that the reference makes.
FailsOnlyWhereEscalated ==
  failed => run_pipeline(readings) = escalate_missing(readings.request)

\* A request whose agents all answer gets its decision, and every other one
\* fails visibly: the fan-in waits for nobody for ever.
PortAnswers == <>(output # NoValue \/ failed)

-----------------------------------------------------------------------------
\* The inductive invariant of MafWorkflowProofs: every value on its way is the
\* agent's own under its own tag, and the join has seen all three.
PortInv ==
  /\ readings \in Readings
  /\ shared \in Opt(Request)
  /\ inbox \in Seq(Message)
  /\ failed \in BOOLEAN
  /\ \A i \in 1..Len(inbox) :
       /\ inbox[i][2] = ValueOf(inbox[i][1])
       /\ inbox[i][2] # NoValue
  /\ shared # NoValue => shared = readings.request
  /\ inbox # <<>> => shared # NoValue
  /\ message # NoValue =>
       /\ shared = readings.request
       /\ ~SomeRaises(readings)
       /\ message = [forecast |-> readings.forecast, anomaly |-> readings.anomaly,
                     macro |-> readings.macro, stockout |-> readings.stockout]
  /\ failed => SomeRaises(readings)
  /\ output # NoValue => output = run_pipeline(readings)
=============================================================================
