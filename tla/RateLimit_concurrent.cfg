SPECIFICATION FairSpec
CONSTANTS
  Calls = {c1, c2, c3}
  Blocking = {c1, c2, c3}
  Unit = 1
  CfgRate = 1
  CfgBurst = 1
  MaxTime = 3
  RespectRetryAfter = TRUE
  HintSeconds = {2, 5}
  HintDates = {2}
  DurationBits = 3
  MaxConcurrent = 2
CHECK_DEADLOCK FALSE
INVARIANTS TypeOK ShortCircuitsAreClean
PROPERTIES SeenWindowHonoured CancellationFreesCaller
