SPECIFICATION MCSpec
CONSTANTS
  Slots = {s1, s2}
  Periods = {1, 2}
  RetryDelay = 1
  MaxRetries = 1
  Askers = 1
  SaveFaults = TRUE
  None = None
INVARIANTS FileIsCurrent RunNowIsPending NextRunFits
PROPERTIES OncePerOccurrence DueIsServed
