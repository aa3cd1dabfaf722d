\* Two threads and two requests: every overlap of submit, get and decide.
\* The system stops when every request is resolved and the clock has run out.
CONSTANTS
  Threads = {t1, t2}
  Requests = {r1, r2}
  Timeout = 1
  NoTime = NoTime
  NoRole = NoRole
  NoRequest = NoRequest
  MaxClock = 2
SPECIFICATION Spec
SYMMETRY Symmetry
INVARIANTS
  TypeOK
  OneDecider
  DecisionsCountedOnce
  EveryResolutionCounted
  ExpiredOnlyAfterTimeout
  DecisionAttributed
PROPERTY NoResurrection
CHECK_DEADLOCK FALSE
