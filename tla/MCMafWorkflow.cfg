SPECIFICATION FairSpec
CONSTANTS
  ROUTINE_MAX_PROB = 30
  REVIEW_MIN_PROB = 55
  CRITICAL_MIN_PROB = 75
  NARROW_INTERVAL_RATIO = 20
  HIGH_UNCERTAINTY_RATIO = 50
  NoValue = NoValue
  Request = {q1, q2}
  Ported = {q1}
  Forecast <- MCForecast
  Prob = {10, 40, 60, 90}
INVARIANTS
  TypeOK
  PortAgrees
  FailsOnlyWhereEscalated
PROPERTIES
  PortAnswers
CHECK_DEADLOCK FALSE
