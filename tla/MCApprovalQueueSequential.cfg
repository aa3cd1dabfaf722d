\* One thread: the queue as its tests use it.
\* It stops when every request is resolved and the clock has run out.
CONSTANTS
  Threads = {t1}
  Requests = {r1, r2}
  Timeout = 2
  NoTime = NoTime
  NoRole = NoRole
  NoRequest = NoRequest
  MaxClock = 3
SPECIFICATION FairSpec
INVARIANT DepthExact
PROPERTIES
  MeetsContract
  PolledRequestResolves
CHECK_DEADLOCK FALSE
