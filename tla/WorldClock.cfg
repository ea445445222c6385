CONSTANTS
  Day = 5
  kMaxSpeed = 3
  kMaxLatency = 1
  Values <- MCValues
  Configured = 2
  MaxNow = 6
  MaxPending = 1
SPECIFICATION Spec
INVARIANT OnlyUntickedTimeIsLost
