SPECIFICATION MCSpec
CONSTANTS
  v1 = v1
  v2 = v2
  w1 = w1
  s1 = s1
  s2 = s2
  d1 = d1
  d2 = d2
  ada = ada
  ben = ben
  cyd = cyd
  Threads = {t1, t2}
  Runs = {r1, r2}
  Sessions = {x1, x2}
  Folders <- TheFolders
  DatasetOf <- TheDatasets
  Bundles <- Pool
  SitePicks <- TheSitePicks
  RisePool <- TheRises
  ManualPool <- TheManuals
  MaxEvaluated = 2
  MaxStamps = 3
  MaxChanges = 2
  MaxHorizon = 2
  Levels = {1, 2, 3, 4, 5, 6, 7, 8, 9}
  MinTrain = 2
  MinActivation = 4
  MinSites = 2
  MinCalibration = 2
  None = None
INVARIANTS HoldoutsAreUnseen AloneTrainedOnRegistered CalibratedIsInDistribution ProvenanceIsKept
CHECK_DEADLOCK FALSE
