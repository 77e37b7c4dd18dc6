SPECIFICATION FairSpec
CONSTANTS
  NumCalls = 3
  MaxParallel = 2
INVARIANTS
  TypeOK
  StepKept
PROPERTIES
  ResultsKept
  StopsHold
  Terminates
