CONSTANTS
  Byte = 4
  kMaxEntitiesPerSnapshot = 3
  Capacity = 56
  MaxPlayers = 3
  MaxTick = 3
  MaxOnWire = 2
  Disorderly = {FALSE}
SPECIFICATION ReplicationSpec
INVARIANT WholeSnapshots
PROPERTY NeverOlder
CHECK_DEADLOCK FALSE
