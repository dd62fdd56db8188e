SPECIFICATION FairStoreSpec
CONSTANTS
  Actor <- MCActor
  Reader <- MCReader
  None = None
  MaxEdit = 4
  MaxDamage = 1
INVARIANTS ShowsNewest AckIsSaved
PROPERTIES SavesAtomically NeverOlder FlushReturns
CHECK_DEADLOCK FALSE
