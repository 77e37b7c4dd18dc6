SPECIFICATION FairSpec
CONSTANTS
  MaxEvents = 3
  MaxFailures = 2
  MaxRestarts = 2
INVARIANTS
  TypeOK
  FileAgrees
PROPERTIES
  LogKept
  EverythingStored
