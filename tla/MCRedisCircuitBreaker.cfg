\* Two failures trip the breaker; the clock runs past two recovery periods.
CONSTANTS
  Callers = {c1, c2, c3}
  FailureThreshold = 2
  RecoveryTimeout = 1
  NoTime = NoTime
  MaxClock = 3
  MaxFailures = 3
  MaxCuts = 1
SPECIFICATION FairSpec
INVARIANTS
  TypeOK
  KeysAgree
PROPERTIES
  LostTripMadeUp
  OpenBreakerRecovers
