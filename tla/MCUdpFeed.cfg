SPECIFICATION FairSpec
CONSTANTS
  FirstSequence = 1
  LastSequence = 5
  MaximumReorderDepth = 2
  MaxReceived = 3
  MaxMisses = 1
  MaxUndecodable = 1
  QueueBound = 1
  Timestamp <- Increasing
  UpdateStrategy = TRUE
INVARIANTS NoQuotesOnIncompleteBook RecoveryRecordsPaired
PROPERTIES OperatorStopKept QuotesAreCurrent GapStartsAtAGap RecoveryEnds StrategyResumes
CHECK_DEADLOCK FALSE
