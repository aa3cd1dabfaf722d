\* Safety: two sessions, two threads, one held call, overlapping turns, one restart.
CONSTANTS
  task = task
  refinement = refinement
  pivot = pivot
  Sessions = {s1, s2}
  Texts = {task, refinement, pivot}
  InitialText = task
  Similar <- SimilarTexts
  CheckInterval = 1
  NoDecision = NoDecision
  Threads = {t1, t2}
  Requests = {r1}
  LoopStarted = FALSE
  Decisions <- AllowedOrHeld
  NoRequest = NoRequest
  NoJob = NoJob
  MaxAttempts = 2
  MaxTurns = 2
  MaxRestarts = 1
SPECIFICATION Spec
SYMMETRY Symmetry
INVARIANTS
  IssuedSessionsServed
  RetentionBounded
PROPERTIES
  SubTasksOpenOnNewTasks
CHECK_DEADLOCK FALSE
