SPECIFICATION MCSpec
CONSTANTS
  NoConfidence = NoConfidence
  CallKinds <- MCCallKinds
  DriftAnswers <- MCDriftAnswers
  MaxCalls = 2
  MaxSample = 2
  Bins = 10
  Classes = {injection, exfiltration}
  Levels = {0, 1, 2}
  Samples <- MCSamples
  MinSamples = 2
  PsiBins = 2
  Widening = 10
  RoundingError = 2
INVARIANTS
  LegitimateTasksRunClean
  AttacksShowAtTheirCall
  BaselinesAgree
  PromotionNeverRegresses
  BinsLoseOnlyTheTop
CHECK_DEADLOCK FALSE
