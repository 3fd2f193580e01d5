SPECIFICATION FairSpec
CONSTANTS
  MaxAttempts = 2
  Interval = 1
  ConnectTimeout = 2
  Timeout = 1
  Epoch = 3
  MaxConnects = 3
  MaxQueue = 2
  MaxIdle = 5
  MaxTime = 16
CHECK_DEADLOCK FALSE
INVARIANTS
  TypeOK
  OneOutcome
  HeartbeatQueued
  TwoChainsAtMost
  ConnectedByWelcome
PROPERTIES
  AttemptsEnd
