SPECIFICATION FairSpec
CONSTANTS
  MaxRecords = 2
  Interval = 1
  Horizon = 2
  Budget <- SmallBudget
\* A disposed runtime with the clock at its bound has nothing left to do.
CHECK_DEADLOCK FALSE
INVARIANTS
  TypeOK
  RemindersOwned
  RemindersKept
PROPERTIES
  RemindersServed
