SPECIFICATION Spec
CONSTANTS
  Batches <- SmallBatches
  Valid <- ValidEvent
  Faults = 2
  OrderIds = {1, 2, 3}
  Prices = {1}
  Quantities = {1, 2}
  Participants = {0}
  Symbols = {1}
  DefaultSymbol = 1
  Options <- WithReset
  MaxSequence = 3
INVARIANT NoSequenceTwice
