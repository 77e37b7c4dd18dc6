SPECIFICATION FairSpec
CONSTANTS
  MaxMessages = 2
  MaxSteps = 2
  ResumedAt = 0
\* A disposed agent really stops.
CHECK_DEADLOCK FALSE
INVARIANTS
  TypeOK
  RestOwesNothing
  MessagesKept
PROPERTIES
  TurnLogAccepts
  AbortGoverns
  DriverProgresses
