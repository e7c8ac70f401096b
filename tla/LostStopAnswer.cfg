SPECIFICATION FairSpec
CONSTANTS
  MaxSessions = 1
  NoId = NoId
PROPERTY ReconnectFindsOut
CHECK_DEADLOCK FALSE
