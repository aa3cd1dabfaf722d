\* A session is opened while the loop scans another one.
CONSTANTS
  task = task
  refinement = refinement
  pivot = pivot
  Sessions = {s1, s2}
  Texts = {task, refinement, pivot}
  InitialText = task
  Similar <- SimilarTexts
  CheckInterval = 2
  NoDecision = NoDecision
  Threads = {t1, t2}
  Requests = {}
  LoopStarted = TRUE
  Decisions <- AllowedOnly
  NoRequest = NoRequest
  NoJob = NoJob
  MaxAttempts = 0
  MaxTurns = 0
  MaxRestarts = 0
SPECIFICATION Spec
INVARIANTS
  SnapshotNeverInterrupted
CHECK_DEADLOCK FALSE
