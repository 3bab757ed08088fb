SPECIFICATION Spec
CONSTANTS
  BookTrades <- FewBookTrades
  OtherTrades <- FewOtherTrades
  Participants = {1, 2}
  Unknown = 0
  Symbols = {1, 2}
  DefaultSymbol = 1
  NoSymbol = 0
  InitialCash = {10}
  MarkPrices = {2, 3}
  MaxHistory = 3
  MaxOther = 1
INVARIANTS EquityReconciles EachTradeCountedOnce
