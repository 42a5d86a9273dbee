SPECIFICATION Spec
CONSTANTS
  ROUTINE_MAX_PROB = 30
  REVIEW_MIN_PROB = 55
  CRITICAL_MIN_PROB = 75
  NARROW_INTERVAL_RATIO = 20
  HIGH_UNCERTAINTY_RATIO = 50
  NoValue = NoValue
  Request = {q1}
  Ported = {q1}
  Run = {r1, r2}
  Delivery = {d1}
  Forecast <- OneForecast
  Prob = {10}
  DurableCheckpoints = TRUE
  BriefWriterWired = FALSE
  PrometheusInstalled = TRUE
  MaxCrashes = 0
INVARIANTS
  RetryActsOnce
CHECK_DEADLOCK FALSE
