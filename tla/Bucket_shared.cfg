SPECIFICATION BucketSpec
CONSTANTS
  Calls = {c1, c2, c3, c4}
  Blocking = {c1, c2, c3}
  Unit = 3
  CfgRate = 2
  CfgBurst = 2
  MaxTime = 6
SYMMETRY CallerSymmetry
CHECK_DEADLOCK FALSE
INVARIANTS BucketTypeOK RateEnvelope NoFutileWaiting
PROPERTY ImplementsEagerBucket
