SPECIFICATION LinkSpec
CONSTANTS
  MaxSessions = 1
  NoId = NoId
INVARIANT StopFailedKeepsId
CHECK_DEADLOCK FALSE
