---------------------------- MODULE BreakerProofs ----------------------------
(***************************************************************************)
(* Proofs about Breaker, for any number of callers, any threshold and any  *)
(* reset timeout.                                                          *)
(***************************************************************************)
EXTENDS Breaker, TLAPS

THEOREM BreakerTypes == Spec => []TypeOK
<1>1. Init => TypeOK
  <2> SUFFICES ASSUME Init
               PROVE  TypeOK
    OBVIOUS
  <2>1. users \subseteq Caller /\ failures \in 0..FailureThreshold /\ age \in 0..ResetTimeout
    BY BreakerAssumption DEF Init
  <2>2. opened \in BOOLEAN
    BY DEF Init
  <2> QED
    BY <2>1, <2>2 DEF Init, TypeOK
<1>2. TypeOK /\ [Next]_vars => TypeOK'
  <2> SUFFICES ASSUME TypeOK, [Next]_vars
               PROVE  TypeOK'
    OBVIOUS
  <2>0. users' = users
    BY DEF Next, vars
  <2> USE <2>0, BreakerAssumption DEF TypeOK
  <2>1. ASSUME NEW c \in Caller, call(c)
        PROVE  TypeOK'
    BY <2>1 DEF call, Admit
  <2>2. ASSUME NEW c \in Caller, worker_ends(c)
        PROVE  TypeOK'
    BY <2>2 DEF worker_ends
  <2>3. ASSUME NEW c \in Caller, is_open(c)
        PROVE  TypeOK'
    BY <2>3 DEF is_open, Admit, Return
  <2>4. ASSUME NEW c \in Caller, result_arrives(c) \/ timeout(c) \/ executor_exit(c)
        PROVE  TypeOK'
    BY <2>4 DEF result_arrives, timeout, executor_exit
  <2>5. ASSUME NEW c \in Caller, record_failure(c)
        PROVE  TypeOK'
    BY <2>5 DEF record_failure, Return
  <2>6. ASSUME NEW c \in Caller, record_trip(c) \/ reset(c)
        PROVE  TypeOK'
    <3>1. opened' \in BOOLEAN
      BY <2>6, Zenon DEF record_trip, reset
    <3>2. failures' \in 0..FailureThreshold /\ age' \in 0..ResetTimeout
      BY <2>6 DEF record_trip, reset
    <3>3. /\ pc' \in [Caller -> {"idle", "reading", "waiting", "leaving",
                                 "counting", "opening", "resetting"}]
          /\ worker' \in [Caller -> {"none", "running", "returned", "raised"}]
          /\ outcome' \in [Caller -> {"none", "ok", "failed", "refused", "type_error"}]
      BY <2>6 DEF record_trip, reset, Return
    <3>4. early' \subseteq Caller
      BY <2>6 DEF record_trip, reset
    <3> QED
      BY <3>1, <3>2, <3>3, <3>4
  <2>7. CASE tick
    BY <2>7 DEF tick
  <2>8. CASE UNCHANGED vars
    BY <2>8 DEF vars
  <2> QED
    BY <2>1, <2>2, <2>3, <2>4, <2>5, <2>6, <2>7, <2>8 DEF Next, CallerStep
<1> QED
  BY <1>1, <1>2, PTL DEF Spec

-----------------------------------------------------------------------------
\* A count that reaches the threshold is followed by a trip, whoever resets or
\* counts in between.
THEOREM TripsWhenDue == Spec => []TrippedWhenDue
<1>1. Init => TrippedWhenDue
  BY BreakerAssumption DEF Init, TrippedWhenDue
<1>2. TypeOK /\ TrippedWhenDue /\ [Next]_vars => TrippedWhenDue'
  <2> SUFFICES ASSUME TypeOK, TrippedWhenDue, [Next]_vars
               PROVE  TrippedWhenDue'
    OBVIOUS
  <2> USE BreakerAssumption DEF TypeOK, TrippedWhenDue
  <2>1. ASSUME NEW c \in Caller, call(c) \/ is_open(c)
        PROVE  TrippedWhenDue'
    BY <2>1 DEF call, is_open, Admit, Return
  <2>2. ASSUME NEW c \in Caller, worker_ends(c)
        PROVE  TrippedWhenDue'
    BY <2>2 DEF worker_ends
  <2>3. ASSUME NEW c \in Caller, result_arrives(c) \/ timeout(c) \/ executor_exit(c)
        PROVE  TrippedWhenDue'
    BY <2>3 DEF result_arrives, timeout, executor_exit
  <2>4. ASSUME NEW c \in Caller, record_failure(c)
        PROVE  TrippedWhenDue'
    BY <2>4 DEF record_failure, Return
  <2>5. ASSUME NEW c \in Caller, record_trip(c) \/ reset(c)
        PROVE  TrippedWhenDue'
    BY <2>5 DEF record_trip, reset, Return
  <2>6. CASE tick \/ UNCHANGED vars
    BY <2>6 DEF tick, vars
  <2> QED
    BY <2>1, <2>2, <2>3, <2>4, <2>5, <2>6 DEF Next, CallerStep
<1> QED
  BY <1>1, <1>2, BreakerTypes, PTL DEF Spec

-----------------------------------------------------------------------------
\* While the window of an unshared breaker lasts no call is in progress, and
\* one that has tripped keeps a full count.
Alone(c) ==
  /\ opened /\ age < ResetTimeout => pc[c] \in {"idle", "reading"}
  /\ opened \/ pc[c] = "opening" => failures = FailureThreshold
  /\ pc[c] = "reading" => opened

\* Callers that do not use the breaker have no outcome.
AloneInv ==
  \A a \in Caller : users = {a} =>
    /\ Alone(a)
    /\ \A c \in Caller : outcome[c] # "type_error"
    /\ \A c \in Caller : c # a => pc[c] = "idle"

LEMMA AloneHolds == Spec => []AloneInv
<1>1. Init => AloneInv
  BY SMT DEF Init, AloneInv, Alone
<1>2. TypeOK /\ AloneInv /\ [Next]_vars => AloneInv'
  <2> SUFFICES ASSUME TypeOK, AloneInv, [Next]_vars,
                      NEW a \in Caller, users' = {a}
               PROVE  /\ Alone(a)'
                      /\ \A c \in Caller : outcome'[c] # "type_error"
                      /\ \A c \in Caller : c # a => pc'[c] = "idle"
    BY DEF AloneInv
  <2>9. users = {a}
    BY DEF Next, vars
  <2>0. /\ Alone(a)
        /\ \A c \in Caller : outcome[c] # "type_error"
        /\ \A c \in Caller : c # a => pc[c] = "idle"
    BY <2>9 DEF AloneInv
  <2> USE <2>0, BreakerAssumption DEF TypeOK, Alone
  <2>1. CASE call(a)
    BY <2>1 DEF call, Admit
  <2>2. CASE worker_ends(a)
    BY <2>2 DEF worker_ends
  <2>3. CASE is_open(a)
    BY <2>3 DEF is_open, Admit, Return, Cooling
  <2>4. CASE result_arrives(a) \/ timeout(a) \/ executor_exit(a)
    BY <2>4 DEF result_arrives, timeout, executor_exit
  <2>5. CASE record_failure(a)
    BY <2>5 DEF record_failure, Return
  <2>6. CASE record_trip(a)
    <3>1. /\ pc' = [pc EXCEPT ![a] = "idle"]
          /\ outcome' = [outcome EXCEPT ![a] = "failed"]
          /\ failures' = failures
      BY <2>6 DEF record_trip, Return
    <3>2. pc[a] = "opening"
      BY <2>6 DEF record_trip
    <3> QED
      BY <3>1, <3>2
  <2>7. CASE reset(a)
    <3>1. /\ pc' = [pc EXCEPT ![a] = "idle"]
          /\ outcome' = [outcome EXCEPT ![a] = "ok"]
      BY <2>7 DEF reset, Return
    <3>2. ~opened'
      BY <2>7, Zenon DEF reset
    <3> QED
      BY <3>1, <3>2
  <2>8. CASE tick \/ UNCHANGED vars
    BY <2>8 DEF tick, vars
  <2> QED
    BY <2>1, <2>2, <2>3, <2>4, <2>5, <2>6, <2>7, <2>8, <2>9 DEF Next, CallerStep
<1> QED
  BY <1>1, <1>2, BreakerTypes, PTL DEF Spec

\* Inside the window, whatever is in progress was let through before the trip.
EarlyInv == opened /\ age < ResetTimeout => \A c \in users : InProgress(c) => c \in early

LEMMA EarlyHolds == Spec => []EarlyInv
<1>1. Init => EarlyInv
  BY DEF Init, EarlyInv
<1>2. TypeOK /\ EarlyInv /\ [Next]_vars => EarlyInv'
  <2> SUFFICES ASSUME TypeOK, EarlyInv, [Next]_vars
               PROVE  EarlyInv'
    OBVIOUS
  <2>0. users' = users
    BY DEF Next, vars
  <2> USE <2>0, BreakerAssumption DEF TypeOK, EarlyInv, InProgress
  <2>1. ASSUME NEW c \in Caller, call(c) \/ is_open(c)
        PROVE  EarlyInv'
    BY <2>1 DEF call, is_open, Admit, Return, Cooling
  <2>2. ASSUME NEW c \in Caller, worker_ends(c)
        PROVE  EarlyInv'
    BY <2>2 DEF worker_ends
  <2>3. ASSUME NEW c \in Caller, result_arrives(c) \/ timeout(c) \/ executor_exit(c)
        PROVE  EarlyInv'
    BY <2>3 DEF result_arrives, timeout, executor_exit
  <2>4. ASSUME NEW c \in Caller, record_failure(c) \/ record_trip(c)
        PROVE  EarlyInv'
    BY <2>4 DEF record_failure, record_trip, Return
  <2>5. ASSUME NEW c \in Caller, reset(c)
        PROVE  EarlyInv'
    BY <2>5, Zenon DEF reset
  <2>6. CASE tick \/ UNCHANGED vars
    BY <2>6 DEF tick, vars
  <2> QED
    BY <2>1, <2>2, <2>3, <2>4, <2>5, <2>6 DEF Next, CallerStep
<1> QED
  BY <1>1, <1>2, BreakerTypes, PTL DEF Spec

\* Inside its window a breaker is closed by calls from before the trip only,
\* and an unshared one by none.
THEOREM StaysOpen == Spec => StaysOpenForTheWindow
<1>1. AloneInv /\ EarlyInv /\ TypeOK /\ [Next]_vars
        => [opened /\ age < ResetTimeout /\ ~opened' =>
              ~Unshared /\ \E c \in early : pc[c] = "resetting"]_vars
  <2> SUFFICES ASSUME AloneInv, EarlyInv, TypeOK, Next,
                      opened, age < ResetTimeout, ~opened'
               PROVE  ~Unshared /\ \E c \in early : pc[c] = "resetting"
    BY Zenon
  <2>1. PICK c \in users : reset(c)
    BY Zenon DEF Next, CallerStep, call, worker_ends, is_open, result_arrives, timeout,
                 executor_exit, record_failure, record_trip, tick
  <2>2. pc[c] = "resetting" /\ c \in Caller
    BY <2>1 DEF reset, TypeOK
  <2>3. c \in early
    BY <2>1, <2>2 DEF EarlyInv, InProgress
  <2>4. ~Unshared
    BY <2>1, <2>2 DEF Unshared, AloneInv, Alone
  <2> QED
    BY <2>2, <2>3, <2>4
<1> QED
  BY <1>1, AloneHolds, EarlyHolds, BreakerTypes, PTL DEF Spec, StaysOpenForTheWindow

\* is_open of an unshared breaker always answers.
THEOREM AloneAnswers == Spec => []AnswersBool
<1>1. AloneInv => AnswersBool
  BY DEF AloneInv, AnswersBool, Unshared
<1> QED
  BY <1>1, AloneHolds, PTL

\* A failed trial of an unshared breaker trips it again.
THEOREM AloneReopens == Spec => FailedTrialReopens
<1>1. AloneInv /\ TypeOK /\ [Next]_vars =>
        [Unshared =>
           \A c \in Caller :
             opened /\ pc[c] # "idle" /\ pc'[c] = "idle" /\ outcome'[c] = "failed"
               => opened' /\ age' = 0]_vars
  <2> SUFFICES ASSUME AloneInv, TypeOK, Next, opened,
                      NEW a \in Caller, users = {a}, NEW c \in Caller,
                      pc[c] # "idle", pc'[c] = "idle", outcome'[c] = "failed"
               PROVE  opened' /\ age' = 0
    BY Zenon DEF Unshared
  <2>0. c = a /\ Alone(a)
    BY DEF AloneInv
  <2>1. CASE record_trip(a)
    BY <2>1 DEF record_trip
  <2>2. CASE record_failure(a)
    BY <2>0, <2>2 DEF record_failure, Alone, TypeOK
  <2>3. CASE is_open(a) \/ reset(a)
    BY <2>0, <2>3 DEF is_open, reset, Admit, Return, TypeOK
  <2>4. CASE call(a) \/ worker_ends(a) \/ result_arrives(a) \/ timeout(a)
               \/ executor_exit(a) \/ tick
    BY <2>0, <2>4 DEF call, Admit, worker_ends, result_arrives, timeout, executor_exit,
                tick, TypeOK
  <2> QED
    BY <2>0, <2>1, <2>2, <2>3, <2>4, Zenon DEF Next, CallerStep
<1> QED
  BY <1>1, AloneHolds, BreakerTypes, PTL DEF Spec, FailedTrialReopens
=============================================================================
