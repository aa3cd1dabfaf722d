\* Which exceptions leave `call`.
CONSTANTS
  Threads = {t1, t2, t3}
  FailureThreshold = 2
  RecoveryTimeout = 2
  NoTime = NoTime
  MaxClock = 5
  MaxFailures = 4
SPECIFICATION Spec
INVARIANT OnlyDocumentedExceptions
