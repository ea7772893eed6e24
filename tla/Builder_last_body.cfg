SPECIFICATION Spec
CONSTANTS
  Readers = {"fits"}
  Broken = {}
  ByteBodies = {"bytes"}
  Size <- OneOfEach
  MaxBuffer = 2
  Keys = {}
  Values = {}
  Templates <- PathAndQuery
  TransportErrors <- NetErrorChains
  MaxAttempts = 1
  MaxExecutions = 1
  MaxLayers = 2
CHECK_DEADLOCK FALSE
INVARIANT LastBodyWins
