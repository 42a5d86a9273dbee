------------------------------ MODULE MCFeatures ------------------------------
(***************************************************************************)
(* Two feature views for TLC: one whose ttl is longer than the window of a *)
(* daily materialisation, as those of demand and of macro are, and one     *)
(* whose ttl is shorter than a day, as that of logistics is.               *)
(***************************************************************************)
EXTENDS Features

CONSTANTS demand, logistics

MCTtl == [v \in View |-> IF v = demand THEN 6 ELSE 0]
=============================================================================
