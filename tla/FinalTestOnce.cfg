SPECIFICATION MCSpec
CONSTANTS
  p1 = p1
  p2 = p2
  f1 = f1
  v1 = v1
  v2 = v2
  f2 = f2
  Procs = {p1}
  Variants = {v1, v2}
  Finals = {f1, f2}
  Requests <- AllRequests
  MaxRemovals = 2
  r1 = r1
  r2 = r2
  MaxCommands = 1
  Renderers = {r1, r2}
  MaxAtOnce = 2
  None = None
  Torn = Torn
INVARIANT FinalTestOnce
CHECK_DEADLOCK FALSE
