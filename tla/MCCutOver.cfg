SPECIFICATION FairSpec
CONSTANTS
  MaxGen = 3
  Frame = 2
  HoldLimit = 1
  SwitchTimeout = 2
  StallLimit = 1
  Lead = 2
  MaxNow = 5
  MaxBlocks = 3
INVARIANTS CutAtKeyframe InOrder NothingLost NoOrphan
PROPERTIES SwapDecided KeepsPromise
CHECK_DEADLOCK FALSE
