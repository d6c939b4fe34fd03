\* Two connections, two miners, a restart, one failing write.
CONSTANTS
  Conns = {c1, c2}
  Miners = {m1, m2}
  CM = CM
  None = None
  MaxChannel = 2
  MaxOpened = 2
  MaxShares = 1
  MaxFailures = 1
  MaxQueued = 2
  MaxRuns = 2
SPECIFICATION Spec
INVARIANTS TypeOK ConnectedHaveSession WriterKnowsOpenChannels MiningIsOnRecord
SYMMETRY Symmetry
CHECK_DEADLOCK FALSE
