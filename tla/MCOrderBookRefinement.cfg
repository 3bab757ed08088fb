SPECIFICATION HistorySpec
CONSTANTS
  OrderIds = {a, b, c}
  a = a
  b = b
  c = c
  Prices = {1, 2}
  Quantities = {1, 2}
  Participants = {7}
  Symbols = {1}
  DefaultSymbol = 1
  PriceLimit = 3
  QuantityLimit = 3
  TotalLimit = 7
  MaxTrades = 1
SYMMETRY IdSymmetry
PROPERTIES KeepsPriceTimePriority
