SPECIFICATION FaultlessSpec
CONSTANTS
  Servers = {a}
  AutoStart = {}
  Savers = {k1}
  None = None
PROPERTY ResumesWhoWasUp
