SPECIFICATION MCSpec
CONSTANTS
  p1 = p1
  p2 = p2
  f1 = f1
  v1 = v1
  v2 = v2
  f2 = f2
  Procs = {p1, p2}
  Variants = {v1, v2}
  Finals = {f1, f2}
  Requests <- AllRequests
  MaxRemovals = 2
  r1 = r1
  r2 = r2
  MaxCommands = 3
  Renderers = {r1, r2}
  MaxAtOnce = 2
  None = None
  Torn = Torn
SYMMETRY Symmetric
INVARIANTS ReleaseIsTested FilesAreWhole SyntheticRunIsWhole
PROPERTIES AloneTestIsFinal
CHECK_DEADLOCK FALSE
