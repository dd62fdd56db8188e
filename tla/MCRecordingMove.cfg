SPECIFICATION Spec
CONSTANTS
  h264 = h264
  av1 = av1
  Codec <- TwoCodecs
  MaxFrame = 3
  MaxSeg = 2
  MaxTrim = 1
  MaxStamp = 2
CHECK_DEADLOCK FALSE
INVARIANT RecordedIsKept
