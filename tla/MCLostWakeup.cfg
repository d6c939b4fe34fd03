\* One connection is enough.
CONSTANTS
  Tip = {tipA, tipB}
  MinInterval = 2
  WaitTimeout = 1
  StaleDelay = 3
  MaxRetained = 2
  MaxTemplate = 2
  MaxActive = 1
  None = None
SPECIFICATION FairSpec
PROPERTIES WakesForMiners
