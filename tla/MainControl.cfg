\* The release build, 30 s period, 60 s window, one retry; a tick is 10 s.
SPECIFICATION FairSpec
CONSTANTS
  UpdatePeriod = 3
  WdtWindow = 6
  RetryCount = 1
  HaltNap = 3
  Debug = FALSE
INVARIANTS
  TypeOK
  IdleIsFed
  SemaphoreAvailable
  WatchdogArmed
  SyncHasSlack
PROPERTIES
  LostWakeupRecovered
  UpdatesRecur
