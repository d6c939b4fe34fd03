\* Two connections, one channel each, two templates.
CONSTANTS
  Downstream = {d1, d2}
  Address = {a1}
  AddressesOf <- SharedAddresses
  PoolScript = PoolScript
  Flags <- PlainClients
  MaxTemplate = 2
  MaxChannelId = 2
  MaxQueued = 1
  CM = CM
  None = None
SPECIFICATION FairSpec
INVARIANTS TypeOK ActiveCounted ConnsHaveSenders ChannelTablesAgree
PROPERTIES ShutdownOnlyWhileTipChanges ConnectionsAreForgotten
CHECK_DEADLOCK FALSE
