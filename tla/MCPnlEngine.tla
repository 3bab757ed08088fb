---------------------------- MODULE MCPnlEngine ----------------------------
(***************************************************************************)
(* Trades of the book among two participants, one of them with itself and  *)
(* one with an unknown maker, and direct trades of a second symbol, one of *)
(* them not valid.                                                         *)
(***************************************************************************)
EXTENDS PnlEngine

Deal(maker, taker, side, price, quantity, symbol) ==
  [maker_participant_id |-> maker, taker_participant_id |-> taker,
   aggressor_side |-> side, price |-> price, quantity |-> quantity, symbol_id |-> symbol]

FewBookTrades ==
  {Deal(1, 2, "Buy", 4, 1, 1), Deal(1, 2, "Sell", 3, 2, 1), Deal(2, 2, "Buy", 3, 1, 1),
   Deal(0, 1, "Sell", 2, 2, 1)}

FewOtherTrades == {Deal(0, 1, "Buy", 3, 1, 2), Deal(1, 0, "Buy", 0, 1, 2)}
=============================================================================
