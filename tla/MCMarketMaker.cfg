SPECIFICATION Spec
CONSTANTS
  MarketOrders <- SmallMarket
  FirstStrategyId = 10
  LastStrategyId = 13
  StrategyParticipant = 5001
  StrategySymbol = 1
  Symbol = 1
  Prices = {1, 2, 3, 4, 5, 6, 7, 8, 9}
  QuoteQuantity = 2
  HalfSpread = 1
  Skew = 1
  TargetPosition = 0
  TickSize = 1
  MaximumOrderSize = 2
  MaximumPosition = 3
  MaximumNotional = 14
  MaximumMarketAge = 0
  Timestamps = {1, 2}
  MaxTrades = 2
  MaxFills = 2
INVARIANTS OnlyActiveQuotesRest PositionWithinLimit InventoryExact EachFillWrittenOnce
PROPERTIES QuotesNeverTake
VIEW WhatMatters
