SPECIFICATION Spec
CONSTANTS
  Parts = {level, region}
  FirstPart = level
  Keep = 1
  MaxSave = 2
  MaxTime = 2
  MaxPipe = 2
  None = None
INVARIANTS CalmArchiveIsEven SavesAreBack PruneKeepsNewest
