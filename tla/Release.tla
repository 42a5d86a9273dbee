------------------------------- MODULE Release -------------------------------
(***************************************************************************)
(* What decides which code and which model reach production.  The release  *)
(* gate judges the code over the golden disruptions (ADR-0007); only what  *)
(* it lets through is deployed, and then the stockout model has a life of  *)
(* its own: monitoring cycles, the registry alias, deployments, restarts.  *)
(***************************************************************************)
EXTENDS EvalGate, ModelLifecycle

vars == <<evalVars, lifeVars>>

Init == EvalInit /\ LifeInit

Next ==
  \/ EvalNext /\ UNCHANGED lifeVars
  \/ gate = "PASS" /\ LifeNext /\ UNCHANGED evalVars

Spec == Init /\ [][Next]_vars

TypeOK == EvalTypeOK /\ LifeTypeOK
=============================================================================
