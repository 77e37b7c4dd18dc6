SPECIFICATION Spec
CONSTANTS
  MaxEvents = 3
  MaxFailures = 1
  MaxRestarts = 1
INVARIANT AppendContinuesLog
