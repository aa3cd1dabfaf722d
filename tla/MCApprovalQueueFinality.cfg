\* A decision and a status poll that overlap around the timeout.
CONSTANTS
  Threads = {t1, t2}
  Requests = {r1}
  Timeout = 1
  NoTime = NoTime
  NoRole = NoRole
  NoRequest = NoRequest
  MaxClock = 2
SPECIFICATION Spec
PROPERTY ResolutionIsFinal
CHECK_DEADLOCK FALSE
