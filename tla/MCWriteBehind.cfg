SPECIFICATION FairSpec
CONSTANTS
  MaxEvents = 4
  MaxFlushes = 2
  MaxFailures = 2
INVARIANTS
  TypeOK
  AckedInOrder
  NoStrandedWork
PROPERTIES
  QueueKept
  WriterProgresses
