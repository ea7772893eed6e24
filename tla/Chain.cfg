SPECIFICATION ChainFairSpec
CONSTANTS
  Ops = {o1, o2}
  MaxAttempts = 3
  Retriable = {o1}
  Calls <- TwoByThree
  Answers <- SampleAnswers
  Quiet <- QuietResults
  CfgFailureThreshold = 1
  CfgResetTimeout = 1
  CfgMaxHalfOpenRequests = 1
  CfgSuccessThreshold = 2
  FailureOutcomes <- DefaultFailures
  Observed = TRUE
  TransportOutcomes <- Outcomes
  MayPanic = FALSE
  MaxConcurrent = 2
  MaxTime = 2
  Unit = 2
  CfgRate = 1
  CfgBurst = 1
  Blocking = {o2}
  RespectRetryAfter = TRUE
  HintSeconds = {1}
  HintDates = {}
  DurationBits = 6
CHECK_DEADLOCK FALSE
INVARIANTS BodiesReleased OnlyTransientRetried ReportedOnce StreamPublishesInOrder
PROPERTIES StreamRespectsRetryAfter CanceledOperationsEnd ProbeSlotsRelease
