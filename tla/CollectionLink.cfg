SPECIFICATION FairSpec
CONSTANTS
  MaxSessions = 2
  NoId = NoId
INVARIANT DisplayIsTrue
PROPERTIES TransientEnds ResumesAfterReboot
CHECK_DEADLOCK FALSE
