SPECIFICATION Spec
CONSTANTS
  MaxHeight = 2
  MaxSync = 1
  SyncLimit = 2
  Space = 3
  BatchSize = 2
  MaxRequests = 1
INVARIANT
  SafeBlocksAreStored
