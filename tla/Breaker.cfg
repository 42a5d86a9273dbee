SPECIFICATION FairSpec
CONSTANTS
  Caller = {c1, c2}
  FailureThreshold = 2
  ResetTimeout = 2
INVARIANTS
  TypeOK
  TrippedWhenDue
  AnswersBool
PROPERTIES
  HalfOpens
  StaysOpenForTheWindow
  FailedTrialReopens
