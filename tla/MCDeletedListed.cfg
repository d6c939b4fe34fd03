\* One session, one request at a time, with or without monitoring.
CONSTANTS
  Sessions = {s1}
  m1 = m1
  Miners = {m1}
  MinerOf <- OneMiner
  s1 = s1
  s2 = s2
  c1 = c1
  c2 = c2
  Clients = {c1}
  ClientOf <- FirstClient
  Others = 0
  Requests = {r1}
  None = None
  ClientsPage = 1
  ChannelsPage = 1
  MaxQueued = 1
SPECIFICATION Spec
INVARIANT DeletedIsUnlisted
CHECK_DEADLOCK FALSE
