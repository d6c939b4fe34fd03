\* One template after that of the start is enough.
CONSTANTS
  Tip = {tipA, tipB}
  MinInterval = 2
  WaitTimeout = 1
  StaleDelay = 3
  MaxRetained = 2
  MaxTemplate = 3
  MaxActive = 1
  None = None
SPECIFICATION FairSpec
INVARIANTS TipsPublishAtOnce
