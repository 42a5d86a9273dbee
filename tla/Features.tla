------------------------------- MODULE Features -------------------------------
(***************************************************************************)
(* The feature pipelines: one daily ingest DAG per feature view, which     *)
(* rewrites the view's parquet file, and the daily DAG that materialises   *)
(* the files into the Feast online store the agents read.                  *)
(*                                                                         *)
(* The four DAGs are all scheduled @daily and nothing orders them within a *)
(* day.  Time is counted in days and every timestamp is kept as its age,   *)
(* so that time goes on for ever: a row of age 0 is stamped today, and an  *)
(* age stops growing at MaxAge.  Rows are daily and stamped at midnight,   *)
(* and a file holds every one of its source up to the newest, so that its  *)
(* newest age says what is in it.                                          *)
(***************************************************************************)
EXTENDS Integers

CONSTANTS
  View,      \* the feature views, each with an ingest DAG of its own
  Ttl,       \* the ttl of each view, in whole days (4 hours are 0)
  Lag,       \* how many days the newest published row may be behind
  MaxAge     \* bound: an age from here on is only "old"

ASSUME FeatureAssumption ==
  /\ Ttl \in [View -> Nat]
  /\ MaxAge \in Nat
  /\ MaxAge > 3
  /\ Lag \subseteq 0..(MaxAge - 1)

Age == 0..MaxAge
OlderBy1(a) == IF a < MaxAge THEN a + 1 ELSE MaxAge

VARIABLES
  job,        \* today's run of each ingest DAG
  frame,      \* the frame such a run has built: newest age, and its validity
  file,       \* the parquet file: newest age, validity, readable or not
  mat,        \* today's run of the materialisation DAG
  loaded,     \* the views it has loaded
  upto,       \* the end of the last materialised window, 0 for never
  online,     \* the online row: its age, and whether its frame was valid
  good_days   \* how many days in a row, up to 2, were good ones

vars == <<job, frame, file, mat, loaded, upto, online, good_days>>

TypeOK ==
  /\ job \in [View -> {"due", "built", "writing", "done", "failed"}]
  /\ frame \in [View -> [age : Age, valid : BOOLEAN]]
  /\ file \in [View -> [age : Age, valid : BOOLEAN, readable : BOOLEAN]]
  /\ mat \in {"due", "loading", "done", "failed"}
  /\ loaded \subseteq View
  /\ upto \in [View -> Age]
  /\ online \in [View -> [age : Age, valid : BOOLEAN]]
  /\ good_days \in [View -> 0..2]

\* A new deployment: no file and no online row, which is as good as an old one.
Init ==
  /\ job = [v \in View |-> "due"]
  /\ frame = [v \in View |-> [age |-> MaxAge, valid |-> TRUE]]
  /\ file = [v \in View |-> [age |-> MaxAge, valid |-> TRUE, readable |-> FALSE]]
  /\ mat = "due"
  /\ loaded = {}
  /\ upto = [v \in View |-> 0]
  /\ online = [v \in View |-> [age |-> MaxAge, valid |-> TRUE]]
  /\ good_days = [v \in View |-> 0]

-----------------------------------------------------------------------------
\* The ingest DAG of a view: fetch and transform, then validate_and_write.

\* A source may be behind, and a staged file replaced by an older one.
build(v) ==
  /\ job[v] = "due"
  /\ \E a \in Lag, ok \in BOOLEAN :
       frame' = [frame EXCEPT ![v] = [age |-> a, valid |-> ok]]
  /\ job' = [job EXCEPT ![v] = "built"]
  /\ UNCHANGED <<file, mat, loaded, upto, online, good_days>>

\* The source is unreachable, or its rows do not transform.
build_raises(v) ==
  /\ job[v] = "due"
  /\ job' = [job EXCEPT ![v] = "failed"]
  /\ UNCHANGED <<frame, file, mat, loaded, upto, online, good_days>>

validate_raises(v) ==
  /\ job[v] = "built"
  /\ ~frame[v].valid
  /\ job' = [job EXCEPT ![v] = "failed"]
  /\ UNCHANGED <<frame, file, mat, loaded, upto, online, good_days>>

\* Mutant: the frame is written before its report is looked at.
start_write_unchecked(v) ==
  /\ job[v] = "built"
  /\ job' = [job EXCEPT ![v] = "writing"]
  /\ file' = [file EXCEPT ![v].readable = FALSE]
  /\ UNCHANGED <<frame, mat, loaded, upto, online, good_days>>

\* to_parquet writes over the file in place.
start_write(v) ==
  /\ job[v] = "built"
  /\ frame[v].valid
  /\ job' = [job EXCEPT ![v] = "writing"]
  /\ file' = [file EXCEPT ![v].readable = FALSE]
  /\ UNCHANGED <<frame, mat, loaded, upto, online, good_days>>

\* Mutant: the frame takes the place of the file's record.
finish_write_raw(v) ==
  /\ job[v] = "writing"
  /\ job' = [job EXCEPT ![v] = "done"]
  /\ file' = [file EXCEPT ![v] = frame[v]]
  /\ UNCHANGED <<frame, mat, loaded, upto, online, good_days>>

finish_write(v) ==
  /\ job[v] = "writing"
  /\ job' = [job EXCEPT ![v] = "done"]
  /\ file' = [file EXCEPT ![v] = [age |-> frame[v].age, valid |-> frame[v].valid,
                                  readable |-> TRUE]]
  /\ UNCHANGED <<frame, mat, loaded, upto, online, good_days>>

\* The task is killed, or the disk is full: the file stays cut short.
write_raises(v) ==
  /\ job[v] = "writing"
  /\ job' = [job EXCEPT ![v] = "failed"]
  /\ UNCHANGED <<frame, file, mat, loaded, upto, online, good_days>>

-----------------------------------------------------------------------------
\* The materialisation DAG: feast apply, then feast materialize-incremental
\* up to the logical date, which is yesterday, one view after the other.

feast_apply ==
  /\ mat = "due"
  /\ mat' = "loading"
  /\ UNCHANGED <<job, frame, file, loaded, upto, online, good_days>>

\* The file store takes the rows from the start of a window on and before its
\* end, midnight of yesterday.
\* Mutant: before its end by more than a day.
NewestRow_late(v) == IF file[v].age > 3 THEN file[v].age ELSE 3

NewestRow(v) == IF file[v].age > 2 THEN file[v].age ELSE 2

\* Mutant: every window opens ttl ago.
InWindow_ttl(v, a) == a < Ttl[v]

\* A window opens where the last one closed, the first one ttl before now.
InWindow(v, a) == IF upto[v] = 0 THEN a < Ttl[v] ELSE a <= upto[v]

feast_materialize(v) ==
  /\ mat = "loading"
  /\ v \notin loaded
  /\ file[v].readable
  /\ online' = IF InWindow(v, NewestRow(v))
                 THEN [online EXCEPT ![v] = [age |-> NewestRow(v),
                                             valid |-> file[v].valid]]
                 ELSE online
  /\ upto' = [upto EXCEPT ![v] = 1]
  /\ loaded' = loaded \cup {v}
  /\ mat' = IF loaded \cup {v} = View THEN "done" ELSE "loading"
  /\ UNCHANGED <<job, frame, file, good_days>>

\* A file that is missing, cut short or being written ends the whole command.
feast_materialize_raises(v) ==
  /\ mat = "loading"
  /\ v \notin loaded
  /\ ~file[v].readable
  /\ mat' = "failed"
  /\ UNCHANGED <<job, frame, file, loaded, upto, online, good_days>>

-----------------------------------------------------------------------------
\* Both DAGs of the view succeeded today.
Succeeded(v) == job[v] = "done" /\ mat = "done"

\* They did on rows that a punctual source would have: up to yesterday's.
GoodDay(v) == Succeeded(v) /\ file[v].age <= 1

NextGood(v) ==
  IF ~GoodDay(v) THEN 0 ELSE IF good_days[v] < 2 THEN good_days[v] + 1 ELSE 2

\* The next day.  A run takes far less than one, so none is under way; a run
\* the scheduler has not started by then is not made up for (catchup=False).
Midnight ==
  /\ \A v \in View : job[v] \notin {"built", "writing"}
  /\ mat # "loading"
  /\ good_days' = [v \in View |-> NextGood(v)]
  /\ job' = [v \in View |-> "due"]
  /\ mat' = "due"
  /\ loaded' = {}
  /\ frame' = [v \in View |-> [frame[v] EXCEPT !.age = OlderBy1(@)]]
  /\ file' = [v \in View |-> [file[v] EXCEPT !.age = OlderBy1(@)]]
  /\ online' = [v \in View |-> [online[v] EXCEPT !.age = OlderBy1(@)]]
  /\ upto' = [v \in View |-> IF upto[v] = 0 THEN 0 ELSE OlderBy1(upto[v])]

ingest(v) ==
  \/ build(v) \/ build_raises(v) \/ validate_raises(v)
  \/ start_write(v) \/ finish_write(v) \/ write_raises(v)

Next ==
  \/ \E v \in View : ingest(v)
  \/ feast_apply
  \/ \E v \in View : feast_materialize(v) \/ feast_materialize_raises(v)
  \/ Midnight

Spec == Init /\ [][Next]_vars

-----------------------------------------------------------------------------
\* After two days on which its own ingest and the materialisation both
\* succeeded and the ingest found yesterday's row, in whichever order they ran
\* and whatever had failed or come late before, of this view or of the others,
\* the row the agents read is at most three days old (validate_and_write,
\* feast_materialize).
FreshAfterGoodDays ==
  \A v \in View : good_days[v] = 2 => online[v].age <= 3

\* A materialisation never puts an older row in the place of a newer one, even
\* where a source is replaced by one that is further behind or its ingest runs
\* before some materialisations and after others (feast_materialize over the
\* incremental windows).
NeverStepsBack ==
  [][\A v \in View : v \notin loaded /\ v \in loaded' =>
       online'[v].age <= online[v].age]_vars

\* No row reaches the online store from a frame that failed its validation,
\* whatever a failed or a cut-short run left in the file (validate_and_write).
OnlineIsValidated ==
  \A v \in View : online[v].valid

\* "Runs after the three ingest DAGs have refreshed the parquet sources"
\* (materialize_features_dag.py): at the end of a day on which both DAGs
\* succeeded, the online store has the newest row of the refreshed file that a
\* materialisation of this day may load.
LoadsRefreshedFiles ==
  \A v \in View : Succeeded(v) => online[v].age <= NewestRow(v)

-----------------------------------------------------------------------------
\* The inductive invariants of FeaturesProofs.

\* Validity is carried from the report to the file to the online row.
ValidInv ==
  \A v \in View :
    /\ job[v] = "writing" => frame[v].valid
    /\ file[v].valid
    /\ online[v].valid

\* What a day has left behind: the window after a materialisation, and on the
\* day after a good one the file until the next ingest, and the row that was
\* loaded from it or from one as recent.
FreshInv ==
  /\ mat = "done" => loaded = View
  /\ \A v \in View :
       /\ v \in loaded => upto[v] = 1
       /\ good_days[v] > 0 =>
            /\ v \notin loaded => upto[v] = 2
            /\ job[v] # "done" => file[v].age <= 2
            /\ v \in loaded /\ (job[v] # "done" \/ file[v].age <= 1) => online[v].age <= 2
       /\ good_days[v] = 2 => online[v].age <= 3

\* No row of an open window is older than the one that was loaded last.
WindowInv ==
  \A v \in View : IF upto[v] = 0 THEN online[v].age = MaxAge ELSE upto[v] <= online[v].age
=============================================================================
