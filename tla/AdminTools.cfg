CONSTANTS
  Objects = {"socket", "stream", "worldSocket", "world", "udp"}
  MaxHandles = 5
  Commands = {"account", "delete", "time"}
  kMaxSlices = 2
  MaxRequests = 3
  MaxCrashes = 1
SPECIFICATION FairSpec
 
INVARIANT HandlesOwned
PROPERTY EveryCommandEnds
PROPERTY ToolPlayersLeave
CHECK_DEADLOCK FALSE
