SPECIFICATION Spec
CONSTANTS
  FirstSequence = 2
  LastSequence = 7
  MaximumReorderDepth = 3
  MaxReceived = 6
  MaxMisses = 2
INVARIANTS TypeOK HeldWithinWindow StateMatchesBuffer EveryEventAccounted
PROPERTIES HeldUntilApplied RetryRepairs
CHECK_DEADLOCK FALSE
