------------------------------- MODULE Breaker -------------------------------
(***************************************************************************)
(* governance/breaker.py: one CircuitBreaker shared by the threads that    *)
(* call an agent, each call bounded by call_with_timeout.  Nothing locks   *)
(* the breaker.  CPython switches threads at calls and not between simple  *)
(* loads and stores, which is where the steps below are cut.               *)
(*                                                                         *)
(* Time is the age of the last trip, which stops at the reset timeout:     *)
(* nothing tells greater ages apart.  The failure count stops at the       *)
(* threshold for the same reason.  A tick is long against the instructions *)
(* between reading the clock and using what was read.                      *)
(***************************************************************************)
EXTENDS Integers

CONSTANTS
  Caller,             \* the threads that may call through the breaker
  FailureThreshold,
  ResetTimeout        \* in ticks

ASSUME BreakerAssumption ==
  /\ FailureThreshold \in Nat \ {0}
  /\ ResetTimeout \in Nat

VARIABLES
  users,     \* the callers this breaker serves: one, or several that share it
  failures,
  opened,    \* _opened_at is not None
  age,       \* ticks since _opened_at, while opened
  pc,        \* where each caller stands
  worker,    \* the executor thread of a call in progress
  outcome,   \* how the caller's last call ended
  early      \* the calls that were let through before the last trip

vars == <<users, failures, opened, age, pc, worker, outcome, early>>

TypeOK ==
  /\ users \subseteq Caller
  /\ failures \in 0..FailureThreshold
  /\ opened \in BOOLEAN
  /\ age \in 0..ResetTimeout
  /\ pc \in [Caller -> {"idle", "reading", "waiting", "leaving",
                        "counting", "opening", "resetting"}]
  /\ worker \in [Caller -> {"none", "running", "returned", "raised"}]
  /\ outcome \in [Caller -> {"none", "ok", "failed", "refused", "type_error"}]
  /\ early \subseteq Caller

Init ==
  /\ users \in (SUBSET Caller) \ {{}}
  /\ failures = 0
  /\ opened = FALSE
  /\ age = 0
  /\ pc = [c \in Caller |-> "idle"]
  /\ worker = [c \in Caller |-> "none"]
  /\ outcome = [c \in Caller |-> "none"]
  /\ early = {}

-----------------------------------------------------------------------------
\* The call is let through: call_with_timeout hands fn to a worker.
Admit(c) ==
  /\ pc' = [pc EXCEPT ![c] = "waiting"]
  /\ worker' = [worker EXCEPT ![c] = "running"]
  /\ early' = early \ {c}
  /\ UNCHANGED outcome

\* Mutant: the answer and the caller's place are mixed up.
Return_swapped(c, how) ==
  /\ pc' = [pc EXCEPT ![c] = how]
  /\ outcome' = [outcome EXCEPT ![c] = "idle"]

Return(c, how) ==
  /\ pc' = [pc EXCEPT ![c] = "idle"]
  /\ outcome' = [outcome EXCEPT ![c] = how]

\* Mutant: is_open no longer tests for None first.
call_unchecked(c) ==
  /\ pc[c] = "idle"
  /\ pc' = [pc EXCEPT ![c] = "reading"]
  /\ UNCHANGED <<failures, opened, age, worker, outcome, early>>

\* call, first half of is_open: the test for None.
call(c) ==
  /\ pc[c] = "idle"
  /\ IF opened
       THEN pc' = [pc EXCEPT ![c] = "reading"] /\ UNCHANGED <<worker, outcome, early>>
       ELSE Admit(c)
  /\ UNCHANGED <<failures, opened, age>>

\* Mutant: the window ends one tick early.
Cooling_short == age < ResetTimeout - 1

Cooling == age < ResetTimeout

\* Mutant: a refused call renews the trip.
is_open_renewing(c) ==
  /\ pc[c] = "reading"
  /\ IF opened /\ ~Cooling
       THEN Admit(c) /\ UNCHANGED age
       ELSE /\ Return(c, IF opened THEN "refused" ELSE "type_error")
            /\ age' = 0
            /\ UNCHANGED <<worker, early>>
  /\ UNCHANGED <<failures, opened>>

\* Second half of is_open: _opened_at is read again, and is None by now if
\* another caller has reset the breaker.
is_open(c) ==
  /\ pc[c] = "reading"
  /\ IF opened /\ ~Cooling
       THEN Admit(c)
       ELSE /\ Return(c, IF opened THEN "refused" ELSE "type_error")
            /\ UNCHANGED <<worker, early>>
  /\ UNCHANGED <<failures, opened, age>>

-----------------------------------------------------------------------------
worker_ends(c) ==
  /\ worker[c] = "running"
  /\ \E how \in {"returned", "raised"} : worker' = [worker EXCEPT ![c] = how]
  /\ UNCHANGED <<failures, opened, age, pc, outcome, early>>

\* future.result hands over what the worker produced.
result_arrives(c) ==
  /\ pc[c] = "waiting"
  /\ worker[c] # "running"
  /\ pc' = [pc EXCEPT ![c] = IF worker[c] = "returned" THEN "resetting" ELSE "counting"]
  /\ worker' = [worker EXCEPT ![c] = "none"]
  /\ UNCHANGED <<failures, opened, age, outcome, early>>

\* The timeout elapses first: TimeoutError leaves the with block, whose exit
\* waits for the worker.
timeout(c) ==
  /\ pc[c] = "waiting"
  /\ worker[c] = "running"
  /\ pc' = [pc EXCEPT ![c] = "leaving"]
  /\ UNCHANGED <<failures, opened, age, worker, outcome, early>>

\* The worker has ended at last, what it produced is dropped.
executor_exit(c) ==
  /\ pc[c] = "leaving"
  /\ worker[c] # "running"
  /\ pc' = [pc EXCEPT ![c] = "counting"]
  /\ worker' = [worker EXCEPT ![c] = "none"]
  /\ UNCHANGED <<failures, opened, age, outcome, early>>

-----------------------------------------------------------------------------
\* _record_failure up to its reading of the clock.
record_failure(c) ==
  /\ pc[c] = "counting"
  /\ failures' = IF failures < FailureThreshold THEN failures + 1 ELSE failures
  /\ IF failures' = FailureThreshold
       THEN pc' = [pc EXCEPT ![c] = "opening"] /\ UNCHANGED outcome
       ELSE Return(c, "failed")
  /\ UNCHANGED <<opened, age, worker, early>>

\* Let through and not yet answered.
InProgress(c) == pc[c] \in {"waiting", "leaving", "counting", "opening", "resetting"}

\* Mutant: a trip starts the count anew.
record_trip_forgetting(c) ==
  /\ pc[c] = "opening"
  /\ opened' = TRUE
  /\ age' = 0
  /\ failures' = 0
  /\ early' = {o \in Caller \ {c} : InProgress(o)}
  /\ Return(c, "failed")
  /\ UNCHANGED worker

\* Its last assignment.
record_trip(c) ==
  /\ pc[c] = "opening"
  /\ opened' = TRUE
  /\ age' = 0
  /\ early' = {o \in Caller \ {c} : InProgress(o)}
  /\ Return(c, "failed")
  /\ UNCHANGED <<failures, worker>>

\* Mutant: only the trip is cleared.
reset_keeping_count(c) ==
  /\ pc[c] = "resetting"
  /\ opened' = FALSE
  /\ age' = 0
  /\ Return(c, "ok")
  /\ UNCHANGED <<failures, worker, early>>

reset(c) ==
  /\ pc[c] = "resetting"
  /\ failures' = 0
  /\ opened' = FALSE
  /\ age' = 0
  /\ Return(c, "ok")
  /\ UNCHANGED <<worker, early>>

tick ==
  /\ opened
  /\ age < ResetTimeout
  /\ age' = age + 1
  /\ UNCHANGED <<failures, opened, pc, worker, outcome, early>>

\* What a caller's own thread does once its call has begun.
CallerStep(c) ==
  \/ is_open(c) \/ result_arrives(c) \/ timeout(c) \/ executor_exit(c)
  \/ record_failure(c) \/ record_trip(c) \/ reset(c)

Next ==
  /\ UNCHANGED users
  /\ \/ \E c \in users : call(c) \/ worker_ends(c) \/ CallerStep(c)
     \/ tick

Spec == Init /\ [][Next]_vars

\* Threads run and time passes, but nothing makes an agent return.
FairSpec ==
  /\ Spec
  /\ \A c \in Caller : WF_vars(c \in users /\ CallerStep(c) /\ UNCHANGED users)
  /\ WF_vars(tick /\ UNCHANGED users)

-----------------------------------------------------------------------------
\* A threshold's worth of failures with no success in between has tripped the
\* breaker, or the caller that counted the last of them is about to
\* (_record_failure and _reset of overlapping calls).
TrippedWhenDue ==
  failures = FailureThreshold => opened \/ \E c \in Caller : pc[c] = "opening"

\* A breaker that has tripped lets a call through again, however many calls
\* keep coming and failing (is_open after the reset timeout).
HalfOpens == opened ~> (~opened \/ ~Cooling)

\* One thread calls through the breaker.
Unshared == \E c \in Caller : users = {c}

\* "half-opens again after reset_timeout seconds" (CircuitBreaker): inside its
\* window a breaker is closed only by the late success of a call it had let
\* through before that trip, and one that is not shared by nothing at all.
StaysOpenForTheWindow ==
  [][opened /\ age < ResetTimeout /\ ~opened' =>
       ~Unshared /\ \E c \in early : pc[c] = "resetting"]_vars

\* A call that fails while the breaker is half-open trips it again: it is open
\* for a full window (_record_failure keeps its count over the trip).  The
\* success of another caller's trial in between takes the count away.
FailedTrialReopens ==
  [][Unshared =>
       \A c \in Caller :
         opened /\ pc[c] # "idle" /\ pc'[c] = "idle" /\ outcome'[c] = "failed"
           => opened' /\ age' = 0]_vars

\* is_open answers with a truth value, unless another caller resets the
\* breaker between its two readings of _opened_at.
AnswersBool == Unshared => \A c \in Caller : outcome[c] # "type_error"

\* "the worker thread is abandoned (not killed) on timeout" (call_with_timeout):
\* a call that has timed out returns, whatever its agent does.
TimeoutBoundsCall == \A c \in Caller : (pc[c] = "leaving") ~> (pc[c] = "idle")
=============================================================================
