CONSTANTS
  Tokens = {t1}
  Addresses = {a1}
  MaxConnections = 2
  MaxPlayers = 2
  MaxDbFailures = 1
  Overlapping = TRUE
SPECIFICATION FairSpec
INVARIANT TypeOK
INVARIANT RegistriesAgree
INVARIANT OnlyOwnersSteer
 
PROPERTY SilentPlayersLeave
