CONSTANTS
  Others = {o1}
  Limit = 2
  MaxSessions = 2
  MaxSnapshots = 2
  Faults = {"loss", "crash"}
SPECIFICATION FairSpec
INVARIANT ScreenMatchesSession
INVARIANT ReportedAreDrawn
INVARIANT ResourcesInOrder
INVARIANT SceneMatchesFlags
INVARIANT PlayingOnIsHeard
 
PROPERTY StreamStarts
