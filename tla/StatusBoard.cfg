SPECIFICATION BoardSpec
CONSTANTS
  Worlds <- SmallWorlds
  Asks <- SmallAsks
  Kinds = {"warning"}
  MaxRequests = 2
  MaxMessages = 1
INVARIANT DemandIsKnown
INVARIANT SleepIsShown
