\* Two tips, four templates, two of a tip retained, timers that overlap.
CONSTANTS
  Tip = {tipA, tipB}
  MinInterval = 2
  WaitTimeout = 1
  StaleDelay = 3
  MaxRetained = 2
  MaxTemplate = 4
  MaxActive = 1
  None = None
SPECIFICATION FairSpec
INVARIANTS TypeOK RefreshesMatchTip CacheServesRecent TipLatency
PROPERTIES KeepsPromise StopsWhenCancelled
