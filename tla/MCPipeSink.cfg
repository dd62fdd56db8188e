SPECIFICATION FairSpec
CONSTANTS
  k1 = k1
  k2 = k2
  None = None
  Kid = {k1, k2}
  Limit = 2
  Backoff <- TwoDelays
  Stable = 2
INVARIANTS TypeOK Decodable
PROPERTY Reconnects
