CONSTANTS
  Messages <- MCMessages
  kMaxPayloadSize = 2
  Capacity = 3
  MaxSent = 4
SPECIFICATION FairStreamSpec
PROPERTY ImplementsChannel
PROPERTY AcceptedArrives
CHECK_DEADLOCK FALSE
