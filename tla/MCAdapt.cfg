SPECIFICATION AdaptFairSpec
CONSTANTS
  Last = 3
  Interval = 1
  Retry = 1
  DownAfter = 2
  Cooldown = 3
  MinGap = 1
  UpHold = 2
  FlapWindow = 4
  MaxHold = 4
  ResetCalm = 6
  Cap = 8
PROPERTIES UpAfterCalm FailedRecoveryWaits Recovers GivesWay
