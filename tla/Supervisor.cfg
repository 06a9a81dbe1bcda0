\* Both supervisors, any number of runs; three restarts of a component with
\* backoffs of 1, 2 and 3 seconds (the cap), one failed process check.
CONSTANTS
  MonitorInterval = 2
  Pause = 2
  RedisMaxRetries = 2
  XttsDetectTimeout = 3
  ApiHealthTimeout = 2
  TriggerAttempts = 2
  BackoffBase = 1
  BackoffMax = 3
  MaxAttempts = 3
  MaxBlind = 1
SPECIFICATION FairSpec
INVARIANTS
  TypeOK
  SoleWorker
  LeftBehind
  ApiBackInTime
PROPERTIES
  RestartsSpaced
  DeadIsHandled
