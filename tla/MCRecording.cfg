SPECIFICATION FairSpec
CONSTANTS
  h264 = h264
  av1 = av1
  Codec <- TwoCodecs
  MaxFrame = 2
  MaxSeg = 2
  MaxTrim = 1
  MaxStamp = 3
CHECK_DEADLOCK FALSE
INVARIANTS TypeOK KeptByItsSink CrashIsFound
PROPERTY OrphansHandled
