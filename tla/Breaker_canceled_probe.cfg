SPECIFICATION Spec
CONSTANTS
  Calls = {c1, c2}
  CfgFailureThreshold = 1
  CfgResetTimeout = 1
  CfgMaxHalfOpenRequests = 0
  CfgSuccessThreshold = 0
  FailureOutcomes <- DefaultFailures
  Observed = FALSE
  TransportOutcomes = {"error", "canceled"}
  MayPanic = FALSE
  MaxConcurrent = 1
  MaxTime = 1
CHECK_DEADLOCK FALSE
INVARIANT ClosesOnSuccessfulProbes
