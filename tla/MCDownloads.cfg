SPECIFICATION MCSpec
CONSTANTS
  Handlers = {h1, h2}
  Ops = {"pause", "altspeed"}
  StatusTTL = 1
  ErrTTL = 2
  LoginBackoff = 2
  AppsTTL = 1
  CallTime = 1
  RefreshTime = 1
  MaxRev = 2
INVARIANTS RejectionsAreSpaced ActionIsSeen AppliedAtMostOnce AnswersAreRecent
SYMMETRY Symmetric
