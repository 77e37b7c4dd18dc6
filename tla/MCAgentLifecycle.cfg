SPECIFICATION FairSpec
CONSTANTS
  a = a
  b = b
  c = c
  Callers = {a, b, c}
  nobody = nobody
  Plays <- SmallPlays
\* When every call has returned nobody has to call again.
CHECK_DEADLOCK FALSE
INVARIANTS
  TypeOK
  OwnerContinuesLog
  PreparationsFresh
PROPERTIES
  LogOwned
  CallsReturn
