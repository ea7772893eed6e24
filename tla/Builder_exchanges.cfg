SPECIFICATION Spec
CONSTANTS
  Readers = {"fits", "over", "large", "broken"}
  Broken = {"broken"}
  ByteBodies = {"bytes"}
  Size <- SmallSizes
  MaxBuffer = 2
  Keys = {"a", "b"}
  Values <- AwkwardValues
  Templates <- PathAndQuery
  TransportErrors <- NetErrorChains
  MaxAttempts = 2
  MaxExecutions = 2
  MaxLayers = 5
CHECK_DEADLOCK FALSE
INVARIANTS TypeOK SentAsDescribed HeadersAsSet DeadlineFollowsBody UrlAsDescribed KindSurvivesWrapping RootCauseDecides
