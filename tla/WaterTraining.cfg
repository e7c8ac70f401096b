SPECIFICATION MCSpec
CONSTANTS
  s1 = s1
  s2 = s2
  s3 = s3
  s4 = s4
  calm = calm
  swell = swell
  storm = storm
  Processes = {gateway, internal}
  Sessions = {s1, s2, s3, s4}
  Recording <- Recordings
  Scenario <- Scenarios
  FirstLabels <- Labelling
  Window = 2
  MaxGap = 2
  MaxSeqGap = 2
  MaxUptimeGap = 2
  MaxAge = 5
  Ahead = 1
  MinSessions = 3
  MinTargets = 5
  MinPerClass = 2
  MinClassSessions = 2
  MinMixed = 2
  MinScenarios = 3
  Recommended = 4
  MaxTrainings = 2
  MaxRelabels = 1
  None = None
  Torn = Torn
SYMMETRY Symmetry
INVARIANTS ModelIsTraceable HonestEvaluation WindowsAreWhole
CHECK_DEADLOCK FALSE
