SPECIFICATION FairRegistrySpec
CONSTANTS
  Jobs = {j1, j2}
  Waits = {w1, w2}
  Agents = {a}
  Nobody = nobody
  MaxActive = 2
\* A registry that was disposed of really stops.
CHECK_DEADLOCK FALSE
INVARIANTS
  RegistryTypeOK
PROPERTIES
  OutcomesKept
  CallsReturn
