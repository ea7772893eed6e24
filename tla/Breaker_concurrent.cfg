SPECIFICATION Spec
CONSTANTS
  Calls = {c1, c2, c3, c4, c5, c6}
  CfgFailureThreshold = 2
  CfgResetTimeout = 2
  CfgMaxHalfOpenRequests = 2
  CfgSuccessThreshold = 2
  FailureOutcomes <- DefaultFailures
  Observed = TRUE
  TransportOutcomes = {"response", "error"}
  MayPanic = TRUE
  MaxConcurrent = 3
  MaxTime = 3
CHECK_DEADLOCK FALSE
SYMMETRY CallSymmetry
INVARIANTS TypeOK ProbeAccounting OpenHasNoLiveCalls StaleResultsDiscarded EveryTransitionJustified EachTransitionPublishedOnce
PROPERTY ImplementsContract
