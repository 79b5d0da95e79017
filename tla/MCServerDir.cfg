SPECIFICATION ServerDirSpec
CONSTANTS
  Files = {jar, world}
  Jar = jar
  Archives = {a1, a2}
  Requests = {r1, r2}
  MaxTime = 2
  Nil = Nil
SYMMETRY Alike
PROPERTIES NothingDeleted RestoredIsArchived
