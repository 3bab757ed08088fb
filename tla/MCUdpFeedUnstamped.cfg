SPECIFICATION FeedSpec
CONSTANTS
  FirstSequence = 1
  LastSequence = 5
  MaximumReorderDepth = 2
  MaxReceived = 3
  MaxMisses = 1
  MaxUndecodable = 1
  QueueBound = 1
  Timestamp <- Unstamped
  UpdateStrategy = TRUE
PROPERTIES EmptyCallRetries
CHECK_DEADLOCK FALSE
