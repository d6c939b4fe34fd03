\* One connection of any kind, two channels, four templates; and all texts of
\* up to five tokens, and of up to five after what the forms begin with.
CONSTANTS
  Downstream = {d1}
  Address = {a1}
  AddressesOf <- SharedAddresses
  PoolScript = PoolScript
  Flags <- EveryClient
  MaxTemplate = 4
  MaxChannelId = 3
  MaxQueued = 1
  CM = CM
  None = None
  Nobody = "nobody"
  MaxTokens = 5
SPECIFICATION JobsSpec
INVARIANTS ChannelsInStep MinersArePaid ClientWorksOnServerJob PaysWhomItNames AcceptedIsListed
CHECK_DEADLOCK FALSE
