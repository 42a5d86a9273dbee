SPECIFICATION Spec
CONSTANTS
  ROUTINE_MAX_PROB = 30
  REVIEW_MIN_PROB = 55
  CRITICAL_MIN_PROB = 75
  NARROW_INTERVAL_RATIO = 20
  HIGH_UNCERTAINTY_RATIO = 50
  NoValue = NoValue
  Request <- MCRequest
  Ported <- MCRequest
  BaseColumn = {}
  repeats = 3
  min_reproducibility = 95
  min_accuracy = 100
  max_mape = 20
  min_f1 = 70
  Scale = 20
  Cycle = {m1, m2}
  Window <- MCWindow
  AUC <- MCAUC
  margin = 2
  MaxVersion = 3
  None = None
SYMMETRY CycleSymmetry
INVARIANTS
  TypeOK
  PassMeansNoMiss
  ReplayPasses
  CorrectionHeals
  ExactWindowRetrainsIfQuiet
PROPERTIES
  AutoPromotionImproves
CHECK_DEADLOCK FALSE
