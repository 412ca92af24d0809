SPECIFICATION FanoutSpec
CONSTANTS
  Platforms = {fb, ig}
  StartTries = 2
  PollTries = 1
  PageTries = 1
  FirstInterval = 1
  LastInterval = 2
  PollTimeout = 2
  PageSize = 1
  MaxItems = 2
  Threshold = 2
  RecoveryTimeout = 1
  HalfOpenMaxCalls = 1
  Attempts = 3
  MaxClock = 1
INVARIANTS FanoutTypeOK 
PROPERTIES NotCalledWhileOpen EveryAttemptEnds
CHECK_DEADLOCK FALSE
