SPECIFICATION FairSpec
CONSTANTS
  ROUTINE_MAX_PROB = 30
  REVIEW_MIN_PROB = 55
  CRITICAL_MIN_PROB = 75
  NARROW_INTERVAL_RATIO = 20
  HIGH_UNCERTAINTY_RATIO = 50
  NoValue = NoValue
  Request = {q1, q2}
  Ported = {q1}
  Run = {r1}
  Delivery = {d1, d2}
  Forecast <- AllForecasts
  Prob = {10, 40, 60, 90}
  DurableCheckpoints = FALSE
  BriefWriterWired = FALSE
  PrometheusInstalled = TRUE
  MaxCrashes = 1
INVARIANTS
  TypeOK
  AutonomyNeedsFullPicture
  GraphAgrees
PROPERTIES
  UndoableWhenCompleted
  AutonomyOnlyShrinks
  EveryRunIsAnswered
CHECK_DEADLOCK FALSE
