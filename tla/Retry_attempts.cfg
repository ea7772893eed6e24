SPECIFICATION TFairSpec
CONSTANTS
  CfgMaxAttempts = 4
  AttemptTimeout = TRUE
  RetryAllMethods = FALSE
CHECK_DEADLOCK FALSE
INVARIANTS BudgetCoversExchange TypeOK NothingSentTwice NoRequestBodyLeaks OneResponseOpen ContextsFollowBodies
PROPERTIES ReturnedResponseReadable DoneCallsEnd
