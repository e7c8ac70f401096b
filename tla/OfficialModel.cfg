SPECIFICATION MCSpec
CONSTANTS
  gateway = gateway
  main = main
  t1 = t1
  t2 = t2
  Servers = {gateway, main}
  Threads = {t1, t2}
  Home <- TwoHomes
  Devices = {d1, d2}
  Runs = {r1, r2}
  UncaughtErrors = TRUE
  None = None
INVARIANTS IInv AloneTestIsFrozen
PROPERTIES AloneRunEnds
CHECK_DEADLOCK FALSE
