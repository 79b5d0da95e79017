SPECIFICATION MCSpec
CONSTANTS
  s1 = s1
  s2 = s2
  c1 = c1
  c2 = c2
  Slots = {s1, s2}
  Callers = {c1, c2}
  None = None
  RestartLimit = 2
  Window = 1
  PipeCap = 1
INVARIANTS AtMostOneProcess RelaunchRate
PROPERTIES ReturnMeansGone StopEndsServer ImplementsLifecycle
