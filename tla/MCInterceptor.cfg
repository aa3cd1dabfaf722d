SPECIFICATION Spec
CONSTANTS
  inbox = inbox
  reply_email = reply_email
  pay = pay
  ghost = ghost
  Tools = {inbox, reply_email, pay, ghost}
  Registered = {inbox, reply_email, pay}
  TierOf <- TierOfTool
  Baseline = {inbox, reply_email}
  Outbound = {reply_email, pay}
  OversizedParams = {}
  RateThreshold = 2
  OutboundThreshold = 2
  Threads = {t1, t2}
  Sessions = {s1}
  Params = {p1, p2}
  ShadowModes = {TRUE, FALSE}
  ExternalFindings <- Externals
  Requests = {r1, r2}
  FailureThreshold = 1
  NoRequest = NoRequest
  NoCall = NoCall
  NoReply = NoReply
  MaxAttempts = 2
  MaxFailures = 1
SYMMETRY Symmetry
INVARIANTS
  TypeOK
  IrreversibleRunsOnlyClean
  NothingRunsUnlogged
  HeldCallsLinked
  AllowedTellsTheTruth
PROPERTIES
  MeetsContract
CHECK_DEADLOCK FALSE
