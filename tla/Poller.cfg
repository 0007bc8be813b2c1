SPECIFICATION Spec
CONSTANTS
  None = None
  AsleepSecs = 1
  StreamIdleSecs = 3
  StreamSuspendSecs = 2
  PollSecs = 1
  KeeperSecs = 1
  GraceSecs = 2
  ActiveSecs = 1
  Fast = FALSE
  CarSettings <- BothModes
  Readings <- MCReadings
  RetryAfters = {9}
  RateLimitMax = 2
  NormalSecs = 1
  CallSecs = 1
  ProbeSecs = 1
  StreamIdle = 1
  StreamPatience = 1
  Lateness = 1
  MaxTime = 16
INVARIANTS
  TypeOK
  SilenceBounded
  ParkedIsSuspended
  OnlyOnlineIsTouched
PROPERTIES
  DeadlineFixed
  PollingSuspendsAfterIdle
