\* One connection whose channels belong to two miners.
CONSTANTS
  Downstream = {d1}
  Address = {a1, a2}
  AddressesOf <- SharedAddresses
  PoolScript = PoolScript
  Flags <- PlainClients
  MaxTemplate = 2
  MaxChannelId = 3
  MaxQueued = 1
  CM = CM
  None = None
SPECIFICATION Spec
INVARIANTS MinersArePaid
CHECK_DEADLOCK FALSE
