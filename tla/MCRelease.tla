------------------------------ MODULE MCRelease ------------------------------
(***************************************************************************)
(* The values of TLC's instance of Release: the golden cases as requests,  *)
(* two overlapping monitoring cycles, and windows on both sides of and at  *)
(* each threshold.                                                         *)
(***************************************************************************)
EXTENDS Release, TLC

MCRequest == {"baseline", "covid", "suez_2021", "red_sea_2024"}

Of(a, p) == [actual |-> a, predicted |-> p]

\* Right forecasts, a mean error of exactly max_mape, and a mean that leaves
\* out a period without demand.
MCDemand ==
  { <<Of(10, 10)>>, <<Of(10, 9), Of(10, 7)>>, <<Of(0, 9), Of(4, 3)>> }

\* A stockout that was predicted, none, and one of two that was not.
MCEvents == { <<Of(1, 1)>>, <<Of(0, 0)>>, <<Of(1, 1), Of(1, 0)>> }

MCWindow == [demand : MCDemand, events : MCEvents]

MCAUC == {70, 72}

CycleSymmetry == Permutations(Cycle)
=============================================================================
