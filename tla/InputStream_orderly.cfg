CONSTANTS
  Faults = {"loss", "reordering"}
  EarlyInput = FALSE
  SeqSpace = 10
  kMaxPending = 2
  MaxIssue = 4
  MaxTicks = 3
  MaxSessions = 2
  MaxInFlight = 2
SPECIFICATION Spec
 
 
INVARIANT OneJumpPerIntent
