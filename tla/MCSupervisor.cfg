SPECIFICATION FairSpec
CONSTANTS
  low = low
  high = high
  gpu = gpu
  cpu = cpu
  MaxGen = 6
  Setting = {low, high}
  Default = high
  Encoder = {gpu, cpu}
  Failures = 1
  Device = {"shared", "exclusive"}
  MaxChanges = 2
  MaxTrouble = 2
INVARIANTS NoLeak RunIsOnAir SharedRetriedOnce OneReader
PROPERTIES ComesBack SwapSettled
CHECK_DEADLOCK FALSE
