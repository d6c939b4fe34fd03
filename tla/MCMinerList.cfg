\* A miner with two sessions, two requests, a restart.
CONSTANTS
  Sessions = {s1, s2}
  m1 = m1
  Miners = {m1}
  MinerOf <- OneMiner
  s1 = s1
  s2 = s2
  c1 = c1
  c2 = c2
  Clients = {c1, c2}
  ClientOf <- OwnClients
  Others = 2
  Requests = {r1, r2}
  None = None
  ClientsPage = 2
  ChannelsPage = 1
  MaxQueued = 1
SPECIFICATION Spec
SYMMETRY Symmetry
INVARIANTS TypeOK MiningIsConnected ConnectedIsRecent KnownMinersStay
CHECK_DEADLOCK FALSE
