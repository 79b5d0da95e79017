SPECIFICATION TerminalsFairSpec
CONSTANTS
  Ids = {s1, s2}
  Viewers = {v1}
  MaxSessions = 1
  Replay = 1
  SubBuffer = 1
  MaxOut = 2
  None = None
INVARIANTS LimitHolds StreamIsWhole OnlyLateSurvive
PROPERTIES ViewerLearns IdleIsClosed
CHECK_DEADLOCK FALSE
