SPECIFICATION FairSpec
CONSTANTS
  t1 = t1
  t2 = t2
  brighton = brighton
  qingdao = qingdao
  calm = calm
  storm = storm
  a1 = a1
  a2 = a2
  s1 = s1
  Threads = {t1, t2}
  Server = t1
  Places = {brighton, qingdao}
  Ttl = 2
  GeoTtl = 3
  MaxClock = 4
  None = None
  Window = 2
  MaxGap = 2
  MaxSeqGap = 1
  MaxUptimeGap = 2
  MaxAge = 2
  Ahead = 1
  Scenarios = {calm, storm}
  Artifacts = {a1, a2}
  Sessions = {s1}
  MaxRows = 3
  MaxChanges = 2
  Searchable = {brighton}
  ModelLoaded = TRUE
INVARIANTS LiveIsFresh WindowIsDecided FrozenContext QuietIsOfOneMoment
PROPERTIES EveryRequestAnswered
CHECK_DEADLOCK FALSE
