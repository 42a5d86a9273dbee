SPECIFICATION Spec
CONSTANTS
  ROUTINE_MAX_PROB = 30
  REVIEW_MIN_PROB = 55
  CRITICAL_MIN_PROB = 75
  NARROW_INTERVAL_RATIO = 20
  HIGH_UNCERTAINTY_RATIO = 50
  NoValue = NoValue
  Request = {q1, q2}
  Ported = {q1}
  BaseColumn = {"lag_7", "lag_28"}
  Prob = {0, 29, 30, 31, 54, 55, 56, 75, 76, 100}
  Median <- MCMedian
  Width = {0, 1, 3, 4, 5, 9, 10, 11, 30}
  Sentiment = {54, 55, 56}
  Fault = {"http", "key", "empty", "short", "crossed"}
INVARIANTS
  GravestRowWins
  AutonomyIsReversible
PROPERTIES
  TierNeverEases
  LostRegimeKeepsTheRest
CHECK_DEADLOCK FALSE
