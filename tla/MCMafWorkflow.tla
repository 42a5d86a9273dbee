---------------------------- MODULE MCMafWorkflow ----------------------------
(***************************************************************************)
(* The forecasts of TLC's instance of MafWorkflow: a narrow and a highly   *)
(* uncertain interval around the same median.                              *)
(***************************************************************************)
EXTENDS MafWorkflow

MCForecast == {[p50 |-> 20, interval_width |-> 1], [p50 |-> 20, interval_width |-> 30]}
=============================================================================
