SPECIFICATION Spec
CONSTANTS
  CfgMaxAttempts = 2
  AttemptTimeout = FALSE
  RetryAllMethods = FALSE
CHECK_DEADLOCK FALSE
PROPERTY CanceledNeverRetried
