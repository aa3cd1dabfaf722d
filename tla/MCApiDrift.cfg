\* Liveness of the drift loop: no held calls, no turns; the log outgrows the
\* check interval and may expire in between.
CONSTANTS
  task = task
  refinement = refinement
  pivot = pivot
  Sessions = {s1, s2}
  Texts = {task, refinement, pivot}
  InitialText = task
  Similar <- SimilarTexts
  CheckInterval = 2
  NoDecision = NoDecision
  Threads = {t1, t2}
  Requests = {}
  LoopStarted = TRUE
  Decisions <- AllowedOnly
  NoRequest = NoRequest
  NoJob = NoJob
  MaxAttempts = 3
  MaxTurns = 0
  MaxRestarts = 0
SPECIFICATION FairSpec
INVARIANTS
  TypeOK
PROPERTIES
  ChecksSpaced
  DriftChecked
CHECK_DEADLOCK FALSE
