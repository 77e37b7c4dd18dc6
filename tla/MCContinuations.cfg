SPECIFICATION Spec
CONSTANTS
  Depth = 2
  Tended <- MCTended
  MaxEpochs = 2
  MaxCalls = 3
INVARIANTS TypeOK TeardownInOrder AcceptedIsKept
PROPERTIES ContinuationsSettle
CHECK_DEADLOCK FALSE
