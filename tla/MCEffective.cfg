SPECIFICATION Spec
CONSTANTS
  low = low
  high = high
  gpu = gpu
  cpu = cpu
  MaxGen = 9
  Setting = {low, high}
  Default = high
  Encoder = {gpu, cpu}
  Failures = 1
  Device = {"shared"}
  MaxChanges = 3
  MaxTrouble = 2
INVARIANT EffectiveIsSent
CHECK_DEADLOCK FALSE
