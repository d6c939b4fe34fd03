\* Two requests, two difficulty periods, a reorganisation, an outage.
CONSTANTS
  Requests = {r1, r2}
  Limit = 3
  Interval = 2
  None = None
  MaxHeight = 3
  MaxBranch = 1
  MaxOutages = 1
SPECIFICATION FairSpec
INVARIANTS TypeOK CacheIsWindow NewerAboveOlder ProjectionIsOfItsPeriod
PROPERTY TipIsShown
