SPECIFICATION MCSpec
CONSTANTS
  z1 = z1
  z2 = z2
  e1 = e1
  e2 = e2
  e3 = e3
  e4 = e4
  e5 = e5
  e6 = e6
  e7 = e7
  e8 = e8
  e9 = e9
  s1 = s1
  Sites = {1, 2}
  ZoneOf <- Zones
  FirstHour = 1
  LastHour = 20
  Horizon = 2
  History = 1
  Stride = 1
  TrainEnd = 9
  ValidationEnd = 15
  TestEnd = 20
  Buffer = 1
  Positive = {"A", "B"}
  Day = 4
  MaxSoft = 1
  Spacing = 2
  Month = 6
  Ratio = 1
  Forecasts <- Issued
  MergeGap = 0
  Cooldown = 2
  Lookahead = 4
  Catalogs <- PoolCatalogs
  Levels = {0, 1}
  Scored = 1
  Due <- DueHours
  Reviewed <- Versions
  Reference <- FrozenRows
  Window = 2
  Steps = {2, 4}
  MaxFaults = 1
  MaxReports = 2
  None = None
  Rejected = Rejected
INVARIANTS NoSplitLeak NegativesAreEvidence FitsAreBlind EventsAreCounted ReportsAreTrue
CHECK_DEADLOCK FALSE
