SPECIFICATION Spec
CONSTANTS
  OrderIds = {a, b, c}
  a = a
  b = b
  c = c
  Prices = {0, 1, 2}
  Quantities = {0, 1, 2}
  Participants = {7}
  Symbols = {1, 2}
  DefaultSymbol = 1
  PriceLimit = 3
  QuantityLimit = 3
  TotalLimit = 4
  MaxTrades = 1
SYMMETRY IdSymmetry
INVARIANTS TypeOK IndexConsistent TotalsExact
PROPERTIES RejectionsChangeNothing RemainderNeverCrosses
