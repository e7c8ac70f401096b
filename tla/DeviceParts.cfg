CONSTANTS
  BlockSize = 2
  SpaceSize = 6
  SeqSpace = 6
  Timeout = 2
  Baseline = 1
  EnterFrames = 2
  ExitFrames = 1
  ZoneEnterFrames = 1
  ZoneExitFrames = 1
  VisionModes = {"person_classifier", "face_detection"}
  Interval = 1
  Slowest = 2
  MaxPass = 1
  WireSpace = 1
  MaxRestarts = 1
  Nothing = Nothing
  EchoTimeout = 2
  PingInterval = 4
  QuietTime = 2
  RiseDelay = 3
  Reach = 1
  Longest = 4
  MaxLag = 1
  ClockSpace = 5
  Fresh = 1
  BaselineReset = 2
  RiskMaximumAge = 1
  Period = 1
  MaxGap = 2
  LongSilence = {"sonar"}
  Levels = {0, 2}
  Rises = {0, 3}
  None = None
SPECIFICATION MCSpec
INVARIANTS IInv CommandsAreCurrent EchoIsOfThePing
PROPERTIES DamageFailsClosed RefinesIssuer PictureIsRecent WaterIsFresh GreenIsBacked
