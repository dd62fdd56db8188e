SPECIFICATION FairSpec
CONSTANTS
  canon = canon
  link = link
  page = page
  Camera = {canon, link}
  First = canon
  Client = {page}
  Loss = "slate"
  MaxFaults = 1
  MaxRequests = 2
  Repeats = FALSE
INVARIANTS OneWriter RestIsCovered
PROPERTIES NeverUnfed ReaderIsServed
