INIT MCInit
NEXT Next
CONSTANTS
  s1 = s1
  small = small
  large = large
  plain = plain
  tuned = tuned
  Sink = {s1}
  Kind = {"record", "whip"}
  Size = {small, large}
  Params = {plain, tuned}
  MaxGen = 2
  MergeWait = 1
  Late = 1
  MaxNow = 2
  MaxBlocks = 3
INVARIANTS TypeOK SinkDecodable Unbroken WaitsAtMost CutReachesSinks
CHECK_DEADLOCK FALSE
