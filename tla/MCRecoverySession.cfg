SPECIFICATION FairSpec
CONSTANTS
  OrderIds = {1, 2, 3, 4}
  Prices = {1}
  Quantities = {1, 2}
  Participants = {0}
  Symbols = {1}
  DefaultSymbol = 1
  RequestSize = 2
  RecordSize = 2
  Valid <- ValidEvent
  FirstSequence = 1
  LastSequence = 5
  MaximumReorderDepth = 3
  MaxReceived = 4
  MaxMisses = 2
  Recordings <- SmallRecordings
  Sources <- SmallSources
  Garbled <- OtherQuantity
INVARIANTS RecoveredBookIsClean HeldEventsAreGenuine FetchEndsInOrder
PROPERTIES ImplementsSequencer OnlyTheServerHangs
CHECK_DEADLOCK FALSE
