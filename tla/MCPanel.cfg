SPECIFICATION FairSpec
CONSTANTS
  Configs <- Files
  Builds = {1, 2}
  Junk = Junk
  None = None
INVARIANTS BinaryIsLeft RunsOnSoundConfig
PROPERTY UpdateTakesEffect
