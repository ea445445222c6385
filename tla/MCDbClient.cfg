CONSTANTS
  MaxCalls = 5
  IdSpace = 3
  MaxPending = 3
SPECIFICATION FairSpec
INVARIANT RightAnswer
INVARIANT NoCallForgotten
PROPERTY EveryCallCalledBack
PROPERTY ImplementsService
