SPECIFICATION Spec
CONSTANTS
  ROUTINE_MAX_PROB = 30
  REVIEW_MIN_PROB = 55
  CRITICAL_MIN_PROB = 75
  NARROW_INTERVAL_RATIO = 20
  HIGH_UNCERTAINTY_RATIO = 50
  NoValue = NoValue
  Request = {q1}
  Ported = {q1}
  Run = {r1, r2}
  Delivery = {d1, d2}
  Forecast <- OneForecast
  Prob = {10, 60}
  DurableCheckpoints = TRUE
  BriefWriterWired = TRUE
  PrometheusInstalled = TRUE
  MaxCrashes = 1
SYMMETRY Symmetry
INVARIANTS
  GraphInv
  NoAuditNoAutonomy
  HumanGate
  OutcomeIsThePlanners
  ErrorMeansNoAction
  OnlyModelOrRaceRefuses
PROPERTIES
  GovernedSpec
CHECK_DEADLOCK FALSE
