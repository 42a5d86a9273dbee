-------------------------- MODULE GovernedDecision --------------------------
(***************************************************************************)
(* What the co-pilot promises of every decision, with nothing of how: a    *)
(* run is opened, then it either acts, which takes a trace in the audit    *)
(* store first, or is handed to a planner and is resolved by an outcome;   *)
(* a run that fails is closed and never acts.                              *)
(***************************************************************************)
CONSTANTS
  Run,
  Forgetful    \* whether a restart may close a run that was handed over

VARIABLES
  phase,       \* where each run stands
  traced       \* the runs the audit store records as autonomous

vars == <<phase, traced>>

Phases == {"idle", "open", "acted", "escalated", "resolved", "closed"}

Init ==
  /\ phase = [r \in Run |-> "idle"]
  /\ traced = {}

Move(r, from, to) ==
  /\ phase[r] = from
  /\ phase' = [phase EXCEPT ![r] = to]
  /\ UNCHANGED traced

Open(r) == Move(r, "idle", "open")

\* The audit record is written while the run is still open.
Trace(r) ==
  /\ phase[r] = "open"
  /\ traced' = traced \cup {r}
  /\ UNCHANGED phase

Act(r) == r \in traced /\ Move(r, "open", "acted")
Escalate(r) == Move(r, "open", "escalated")
Resolve(r) == Move(r, "escalated", "resolved")

\* A failure closes the runs in flight, all those of the process at once; a
\* forgetful one also those that wait for a planner or were resolved.
Closable ==
  {r \in Run : \/ phase[r] = "open"
               \/ Forgetful /\ phase[r] \in {"escalated", "resolved"}}

Close ==
  \E S \in SUBSET Closable :
    /\ phase' = [r \in Run |-> IF r \in S THEN "closed" ELSE phase[r]]
    /\ UNCHANGED traced

Next ==
  \/ \E r \in Run : Open(r) \/ Trace(r) \/ Act(r) \/ Escalate(r) \/ Resolve(r)
  \/ Close

Spec == Init /\ [][Next]_vars
=============================================================================
