--------------------------- MODULE FeaturesProofs ---------------------------
(***************************************************************************)
(* Proofs about Features, for any set of views, any ttl of each and any    *)
(* number of days.                                                         *)
(***************************************************************************)
EXTENDS Features, TLAPS

-----------------------------------------------------------------------------
LEMMA AgeGrows ==
  ASSUME NEW a \in Age
  PROVE  OlderBy1(a) \in Age /\ OlderBy1(a) <= a + 1
  BY FeatureAssumption DEF Age, OlderBy1

\* The type invariant: every age stays within its bound for ever.
THEOREM FeatureTypes == Spec => []TypeOK
<1>1. Init => TypeOK
  BY FeatureAssumption DEF Init, TypeOK, Age
<1>2. TypeOK /\ [Next]_vars => TypeOK'
  <2> SUFFICES ASSUME TypeOK, [Next]_vars PROVE TypeOK'
    OBVIOUS
  <2> USE DEF TypeOK
  <2>1. ASSUME NEW v \in View, build(v) PROVE TypeOK'
    <3>1. Lag \subseteq Age
      BY FeatureAssumption DEF Age
    <3> QED BY <2>1, <3>1 DEF build
  <2>2. ASSUME NEW v \in View, build_raises(v) \/ validate_raises(v) \/ write_raises(v)
        PROVE  TypeOK'
    BY <2>2 DEF build_raises, validate_raises, write_raises
  <2>3. ASSUME NEW v \in View, start_write(v) PROVE TypeOK'
    BY <2>3 DEF start_write
  <2>4. ASSUME NEW v \in View, finish_write(v) PROVE TypeOK'
    BY <2>4 DEF finish_write
  <2>5. CASE feast_apply
    BY <2>5 DEF feast_apply
  <2>6. ASSUME NEW v \in View, feast_materialize(v) PROVE TypeOK'
    <3>1. NewestRow(v) \in Age /\ 1 \in Age
      BY FeatureAssumption DEF NewestRow, Age
    <3> QED BY <2>6, <3>1 DEF feast_materialize
  <2>7. ASSUME NEW v \in View, feast_materialize_raises(v) PROVE TypeOK'
    BY <2>7 DEF feast_materialize_raises
  <2>8. CASE Midnight
    <3>1. good_days' \in [View -> 0..2]
      <4>1. \A v \in View : NextGood(v) \in 0..2
        BY DEF NextGood
      <4> QED BY <2>8, <4>1 DEF Midnight
    <3>2. upto' \in [View -> Age]
      BY <2>8, AgeGrows, FeatureAssumption DEF Midnight, Age
    <3> QED BY <2>8, <3>1, <3>2, AgeGrows DEF Midnight
  <2>9. CASE UNCHANGED vars
    BY <2>9 DEF vars
  <2> QED BY <2>1, <2>2, <2>3, <2>4, <2>5, <2>6, <2>7, <2>8, <2>9 DEF Next, ingest
<1> QED BY <1>1, <1>2, PTL DEF Spec

-----------------------------------------------------------------------------
\* Nothing that failed its validation is ever read: not after a failed run,
\* a run cut short in the middle of the write, or any number of either.
THEOREM OnlineIsValidatedHolds == Spec => []OnlineIsValidated
<1>1. Init => ValidInv
  <2> SUFFICES ASSUME Init, NEW v \in View
               PROVE  job[v] # "writing" /\ file[v].valid /\ online[v].valid
    BY DEF ValidInv
  <2>1. job[v] = "due"
    BY DEF Init
  <2>2. file[v] = [age |-> MaxAge, valid |-> TRUE, readable |-> FALSE]
    BY DEF Init
  <2>3. online[v] = [age |-> MaxAge, valid |-> TRUE]
    BY DEF Init
  <2> QED BY <2>1, <2>2, <2>3
<1>2. TypeOK /\ ValidInv /\ [Next]_vars => ValidInv'
  <2> SUFFICES ASSUME TypeOK, ValidInv, [Next]_vars PROVE ValidInv'
    OBVIOUS
  <2> USE DEF TypeOK, ValidInv
  <2>1. ASSUME NEW v \in View, ingest(v) PROVE ValidInv'
    <3>1. CASE build(v)
      BY <3>1 DEF build
    <3>2. CASE build_raises(v) \/ validate_raises(v) \/ write_raises(v)
      BY <3>2 DEF build_raises, validate_raises, write_raises
    <3>3. CASE start_write(v)
      BY <3>3 DEF start_write
    <3>4. CASE finish_write(v)
      BY <3>4 DEF finish_write
    <3> QED BY <2>1, <3>1, <3>2, <3>3, <3>4 DEF ingest
  <2>2. CASE feast_apply
    BY <2>2 DEF feast_apply
  <2>3. ASSUME NEW v \in View, feast_materialize(v) PROVE ValidInv'
    BY <2>3 DEF feast_materialize
  <2>4. ASSUME NEW v \in View, feast_materialize_raises(v) PROVE ValidInv'
    BY <2>4 DEF feast_materialize_raises
  <2>5. CASE Midnight
    BY <2>5 DEF Midnight
  <2>6. CASE UNCHANGED vars
    BY <2>6 DEF vars
  <2> QED BY <2>1, <2>2, <2>3, <2>4, <2>5, <2>6 DEF Next
<1>3. ValidInv => OnlineIsValidated
  BY DEF ValidInv, OnlineIsValidated
<1> QED BY <1>1, <1>2, <1>3, FeatureTypes, PTL DEF Spec

-----------------------------------------------------------------------------
\* Two good days make a view fresh, whatever its source may lag on others, for
\* every order in which the jobs of each day ran and everything that failed
\* before or meanwhile.
THEOREM FreshAfterGoodDaysHolds == Spec => []FreshAfterGoodDays
<1>1. Init => FreshInv
  BY DEF Init, FreshInv
<1>2. TypeOK /\ FreshInv /\ [Next]_vars => FreshInv'
  <2> SUFFICES ASSUME TypeOK, FreshInv, [Next]_vars PROVE FreshInv'
    OBVIOUS
  <2> USE DEF TypeOK, FreshInv
  <2>1. ASSUME NEW v \in View, ingest(v) PROVE FreshInv'
    <3>1. CASE build(v)
      BY <3>1 DEF build
    <3>2. CASE build_raises(v) \/ validate_raises(v) \/ write_raises(v)
      BY <3>2 DEF build_raises, validate_raises, write_raises
    <3>3. CASE start_write(v)
      BY <3>3 DEF start_write
    <3>4. CASE finish_write(v)
      <4>1. /\ job[v] # "done" /\ job'[v] = "done" /\ file'[v].age = frame[v].age
            /\ \A u \in View \ {v} : job'[u] = job[u] /\ file'[u] = file[u]
            /\ UNCHANGED <<mat, loaded, upto, online, good_days>>
        BY <3>4 DEF finish_write
      <4> QED BY <4>1
    <3> QED BY <2>1, <3>1, <3>2, <3>3, <3>4 DEF ingest
  <2>2. CASE feast_apply
    BY <2>2 DEF feast_apply
  <2>3. ASSUME NEW v \in View, feast_materialize(v) PROVE FreshInv'
    <3>1. /\ loaded' = loaded \cup {v} /\ v \notin loaded
          /\ upto' = [upto EXCEPT ![v] = 1]
          /\ mat' = "done" => loaded' = View
          /\ UNCHANGED <<job, frame, file, good_days>>
      BY <2>3 DEF feast_materialize
    <3>2. \A u \in View \ {v} : online'[u] = online[u]
      BY <2>3 DEF feast_materialize
    <3>3. ASSUME good_days[v] > 0, job[v] # "done" \/ file[v].age <= 1
          PROVE  online'[v].age = 2
      <4>1. NewestRow(v) = 2 /\ InWindow(v, NewestRow(v))
        BY <3>1, <3>3 DEF NewestRow, InWindow, Age
      <4> QED BY <2>3, <4>1 DEF feast_materialize
    <3>4. ASSUME good_days[v] = 2 PROVE online'[v].age <= 3
      <4>1. CASE InWindow(v, NewestRow(v))
        <5>1. NewestRow(v) <= 2
          BY <3>1, <3>4, <4>1 DEF InWindow
        <5>2. online'[v].age = NewestRow(v)
          BY <2>3, <4>1 DEF feast_materialize
        <5>3. NewestRow(v) \in Int
          BY DEF NewestRow, Age
        <5> QED BY <5>1, <5>2, <5>3
      <4>2. CASE ~InWindow(v, NewestRow(v))
        BY <2>3, <3>4, <4>2 DEF feast_materialize
      <4> QED BY <4>1, <4>2
    <3> QED BY <3>1, <3>2, <3>3, <3>4
  <2>4. ASSUME NEW v \in View, feast_materialize_raises(v) PROVE FreshInv'
    BY <2>4 DEF feast_materialize_raises
  <2>5. CASE Midnight
    <3>1. mat' = "due" /\ loaded' = {} /\ \A v \in View : job'[v] = "due"
      BY <2>5 DEF Midnight
    <3> SUFFICES ASSUME NEW v \in View
                 PROVE  /\ good_days'[v] > 0 => file'[v].age <= 2 /\ upto'[v] = 2
                        /\ good_days'[v] = 2 => online'[v].age <= 3
      BY <3>1
    <3>2. good_days'[v] = NextGood(v) /\ good_days[v] \in 0..2
      BY <2>5 DEF Midnight
    <3>3. good_days'[v] > 0 => GoodDay(v)
      BY <3>2 DEF NextGood
    <3>4. good_days'[v] = 2 => good_days[v] > 0
      BY <3>2 DEF NextGood
    <3>5. GoodDay(v) => v \in loaded /\ upto[v] = 1 /\ file[v].age <= 1
      BY DEF GoodDay, Succeeded
    <3>6. good_days'[v] = 2 => online[v].age <= 2
      BY <3>3, <3>4, <3>5
    <3>7. file'[v].age = OlderBy1(file[v].age) /\ online'[v].age = OlderBy1(online[v].age)
      BY <2>5 DEF Midnight
    <3>8. upto[v] = 1 => upto'[v] = 2
      BY <2>5, FeatureAssumption DEF Midnight, OlderBy1
    <3>9. \A a \in Age : (a <= 1 => OlderBy1(a) <= 2) /\ (a <= 2 => OlderBy1(a) <= 3)
      BY AgeGrows DEF Age
    <3> QED BY <3>3, <3>5, <3>6, <3>7, <3>8, <3>9
  <2>6. CASE UNCHANGED vars
    BY <2>6 DEF vars
  <2> QED BY <2>1, <2>2, <2>3, <2>4, <2>5, <2>6 DEF Next
<1>3. FreshInv => FreshAfterGoodDays
  BY DEF FreshInv, FreshAfterGoodDays
<1> QED BY <1>1, <1>2, <1>3, FeatureTypes, PTL DEF Spec

-----------------------------------------------------------------------------
\* A window opens where the last one closed, so what it loads is never older
\* than what is there, however the source or its file goes back.
THEOREM NeverStepsBackHolds == Spec => NeverStepsBack
<1>1. Init => WindowInv
  <2> SUFFICES ASSUME Init, NEW v \in View
               PROVE  upto[v] = 0 /\ online[v].age = MaxAge
    BY DEF WindowInv
  <2>1. online[v] = [age |-> MaxAge, valid |-> TRUE]
    BY DEF Init
  <2> QED BY <2>1 DEF Init
<1>2. TypeOK /\ WindowInv /\ [Next]_vars => WindowInv'
  <2> SUFFICES ASSUME TypeOK, WindowInv, [Next]_vars PROVE WindowInv'
    OBVIOUS
  <2> USE DEF TypeOK, WindowInv
  <2>1. ASSUME NEW v \in View, ingest(v) PROVE WindowInv'
    BY <2>1 DEF ingest, build, build_raises, validate_raises, start_write, finish_write,
                write_raises
  <2>2. CASE feast_apply
    BY <2>2 DEF feast_apply
  <2>3. ASSUME NEW v \in View, feast_materialize(v) PROVE WindowInv'
    <3>1. /\ upto' = [upto EXCEPT ![v] = 1]
          /\ \A u \in View \ {v} : online'[u] = online[u]
      BY <2>3 DEF feast_materialize
    <3>2. 1 <= online'[v].age
      <4>1. CASE InWindow(v, NewestRow(v))
        <5>1. online'[v].age = NewestRow(v)
          BY <2>3, <4>1 DEF feast_materialize
        <5> QED BY <5>1 DEF NewestRow, Age
      <4>2. CASE ~InWindow(v, NewestRow(v))
        <5>1. online'[v] = online[v]
          BY <2>3, <4>2 DEF feast_materialize
        <5> QED BY <5>1, FeatureAssumption DEF Age
      <4> QED BY <4>1, <4>2
    <3> QED BY <3>1, <3>2
  <2>4. ASSUME NEW v \in View, feast_materialize_raises(v) PROVE WindowInv'
    BY <2>4 DEF feast_materialize_raises
  <2>5. CASE Midnight
    <3> SUFFICES ASSUME NEW v \in View
                 PROVE  IF upto'[v] = 0 THEN online'[v].age = MaxAge
                                        ELSE upto'[v] <= online'[v].age
      OBVIOUS
    <3>1. /\ upto'[v] = IF upto[v] = 0 THEN 0 ELSE OlderBy1(upto[v])
          /\ online'[v].age = OlderBy1(online[v].age)
      BY <2>5 DEF Midnight
    <3>2. upto[v] \in Age /\ online[v].age \in Age
      OBVIOUS
    <3> QED BY <3>1, <3>2, FeatureAssumption DEF OlderBy1, Age
  <2>6. CASE UNCHANGED vars
    BY <2>6 DEF vars
  <2> QED BY <2>1, <2>2, <2>3, <2>4, <2>5, <2>6 DEF Next
<1>3. TypeOK /\ WindowInv /\ [Next]_vars =>
        [\A v \in View : v \notin loaded /\ v \in loaded' =>
           online'[v].age <= online[v].age]_vars
  <2> SUFFICES ASSUME TypeOK, WindowInv, Next, NEW v \in View, v \notin loaded, v \in loaded'
               PROVE  online'[v].age <= online[v].age
    OBVIOUS
  <2> USE DEF TypeOK, WindowInv
  <2>1. feast_materialize(v)
    <3>1. \A u \in View : ingest(u) => loaded' = loaded
      BY DEF ingest, build, build_raises, validate_raises, start_write, finish_write,
             write_raises
    <3>2. feast_apply => loaded' = loaded
      BY DEF feast_apply
    <3>3. \A u \in View : feast_materialize(u) => loaded' = loaded \cup {u}
      BY DEF feast_materialize
    <3>4. \A u \in View : feast_materialize_raises(u) => loaded' = loaded
      BY DEF feast_materialize_raises
    <3>5. Midnight => loaded' = {}
      BY DEF Midnight
    <3> QED BY <3>1, <3>2, <3>3, <3>4, <3>5 DEF Next
  <2>2. CASE InWindow(v, NewestRow(v))
    <3>1. online'[v].age = NewestRow(v)
      BY <2>1, <2>2 DEF feast_materialize
    <3>2. NewestRow(v) \in Age
      BY FeatureAssumption DEF NewestRow, Age
    <3>3. CASE upto[v] = 0
      BY <3>1, <3>2, <3>3 DEF Age
    <3>4. CASE upto[v] # 0
      BY <2>2, <3>1, <3>2, <3>4 DEF InWindow, Age
    <3> QED BY <3>3, <3>4
  <2>3. CASE ~InWindow(v, NewestRow(v))
    BY <2>1, <2>3 DEF feast_materialize, Age
  <2> QED BY <2>2, <2>3
<1> QED BY <1>1, <1>2, <1>3, FeatureTypes, PTL DEF Spec, NeverStepsBack
=============================================================================
