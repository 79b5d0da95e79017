SPECIFICATION Spec
CONSTANTS
  Jobs = {j1, j2, j3}
  MaxRecent = 2
  None = None
  Notices = {n1, n2}
  Browsers = {b1}
  Buffer = 2
SYMMETRY Alike
INVARIANTS CancelIsRecorded SettledViewIsRight
CHECK_DEADLOCK FALSE
