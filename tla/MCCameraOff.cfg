SPECIFICATION Spec
CONSTANTS
  canon = canon
  link = link
  page = page
  Camera = {canon, link}
  First = canon
  Client = {page}
  Loss = "slate"
  MaxFaults = 0
  MaxRequests = 1
  Repeats = FALSE
INVARIANT OffMeansOff
