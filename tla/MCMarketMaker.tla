--------------------------- MODULE MCMarketMaker ---------------------------
(***************************************************************************)
(* The market is two orders: a bid and an ask of one lot that stand at 3   *)
(* and 4, inside the strategy's quotes at 2 and 5, or of two lots that     *)
(* come to hit whatever stands on the other side.  At position 2 the skew  *)
(* takes the bid below the lowest price, at -2 it would take it to the     *)
(* best ask.                                                               *)
(***************************************************************************)
EXTENDS MarketMaker

Order(id, side, price, quantity) ==
  [id |-> id, side |-> side, price |-> price, quantity |-> quantity,
   participant_id |-> 0, symbol_id |-> Symbol]

SmallMarket ==
  {Order(1, "Buy", 3, 1), Order(1, "Buy", 7, 2), Order(2, "Sell", 4, 1), Order(2, "Sell", 1, 2)}

\* What the strategy reads of a trade: its own orders and their fills.
Own(id) == IF id \in StrategyIds THEN id ELSE NoOrder
Read(t) ==
  LET maker == Own(t.maker_order_id)
      taker == Own(t.taker_order_id)
  IN  <<maker, FillsOf(t, {maker}), taker, FillsOf(t, {taker})>>

\* What the bridge has still to write, and what it has written; of no concern
\* once it has missed a reset.
Telling ==
  IF unnoticed /\ cursor <= Len(fills) THEN << >>
  ELSE <<written, Total(SubSeq(fills, FirstUnwritten + 1, Len(fills)))>>

\* No step and no property depends on the rest of a trade, on what the last call
\* of the engine returned, nor on the single fills.
WhatMatters ==
  <<queue, [n \in DOMAIN trades |-> Read(trades[n])], pc, now, quotes, killSwitch,
    lastMarketUpdate, owned, position, processed, activeVars, nextId, exposure, lost,
    Len(fills), cursor, unnoticed, Telling>>
=============================================================================
