SPECIFICATION Spec
CONSTANTS
  Calls = {c1, c2}
  Blocking = {c1, c2}
  Unit = 2
  CfgRate = 1
  CfgBurst = 1
  MaxTime = 4
  RespectRetryAfter = TRUE
  HintSeconds = {1}
  HintDates = {}
  DurationBits = 6
  MaxConcurrent = 2
CHECK_DEADLOCK FALSE
PROPERTY RetryAfterRespected
