\* Two failures trip the breaker; the clock runs past two recovery periods.
CONSTANTS
  Threads = {t1, t2, t3}
  FailureThreshold = 2
  RecoveryTimeout = 2
  NoTime = NoTime
  MaxClock = 5
  MaxFailures = 4
SPECIFICATION FairSpec
INVARIANTS
  TypeOK
  OpenIsStamped
PROPERTIES
  TrialOnlyAfterRecovery
  MeetsContract
  OpenBreakerRecovers
