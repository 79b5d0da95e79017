SPECIFICATION Spec
CONSTANTS
  Tokens = {t1, t2}
  Requests = {r1, r2}
  MaxFail = 2
  Slots = 1
  MaxLines = 2
  MaxScan = 3
  MaxEntries = 4
INVARIANTS FailuresBounded RevokedStaysOut LoginLasts EntriesAreKept
