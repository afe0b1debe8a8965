SPECIFICATION FairSpec
CONSTANTS
  MaxHeight = 2
  MaxSync = 1
  SyncLimit = 2
  Space = 2
  BatchSize = 2
  MaxRequests = 1
INVARIANT
  TypeOK
PROPERTIES
  AloneTheLoopIsSafe
  AloneTheLoopCatchesUp
  SavesEnd
