CONSTANTS
  Tokens = {t1, t2}
  Addresses = {a1}
  MaxConnections = 2
  MaxPlayers = 2
  MaxDbFailures = 1
  Overlapping = FALSE
SPECIFICATION FairSpec
INVARIANT NoGhosts
INVARIANT NoPhantoms
 
 
PROPERTY ClosedPlayersLeave
