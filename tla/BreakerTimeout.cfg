SPECIFICATION FairSpec
CONSTANTS
  Caller = {c1}
  FailureThreshold = 2
  ResetTimeout = 2
PROPERTIES
  TimeoutBoundsCall
