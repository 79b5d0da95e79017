SPECIFICATION MCSpec
CONSTANTS
  Servers = {a}
  AutoStart = {}
  Savers = {1, 2}
  None = None
INVARIANTS QuietFileIsRight StopsAreAwaited
PROPERTY ShutdownEnds
