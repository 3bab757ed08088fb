SPECIFICATION LobsterSpec
CONSTANTS
  Rows <- SmallRows
  SymbolId = 1
  MaxRows = 5
  OrderIds = {1, 2}
  Prices = {1, 2}
  Quantities = {1, 2, 3}
  Participants = {0}
  Symbols = {1}
  DefaultSymbol = 1
  Options <- WithReset
  MaxSequence = 10
INVARIANTS NothingRejected BookHoldsWhatStands
CHECK_DEADLOCK FALSE
