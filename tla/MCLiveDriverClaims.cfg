SPECIFICATION Spec
CONSTANTS
  MaxMessages = 2
  MaxSteps = 1
  ResumedAt = 0
CHECK_DEADLOCK FALSE
INVARIANT LiveDriverClaims
