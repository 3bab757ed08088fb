------------------------- MODULE MCRecoverySession -------------------------
(***************************************************************************)
(* Recordings of up to five events whose order matters to the book, one of *)
(* them up to the largest number there is, and one that the book refuses.  *)
(***************************************************************************)
EXTENDS RecoverySession

Event(sequence, type, id, side, quantity) ==
  [sequence_number |-> sequence, type |-> type, order_id |-> id, side |-> side,
   price |-> 1, quantity |-> quantity, participant_id |-> 0, symbol_id |-> 1]

Rest == Event(1, "Add", 1, "Buy", 2)
Behind == Event(2, "Add", 2, "Buy", 2)
Hit == Event(3, "Execute", 3, "Sell", 1)
Shrink == Event(4, "Modify", 2, "Buy", 1)
Sweep == Event(5, "Execute", 4, "Sell", 2)
Withdraw == Event(3, "Cancel", 1, "Buy", 1)
HitBehind == Event(4, "Execute", 3, "Sell", 1)
Stray == Event(2, "Cancel", 3, "Buy", 1)

SmallRecordings == 
  {<<Rest, Behind, Hit, Shrink, Sweep>>, <<Rest, Behind, Withdraw, HitBehind>>, <<Rest, Stray>>}

\* The source in memory has some events twice and the fourth not at all.
SmallSources ==
  {[tcp |-> TRUE, places |-> << >>], [tcp |-> FALSE, places |-> <<1, 2, 3, 5, 1, 2>>]}

\* Damage changes the quantity.
OtherQuantity(e) == [e EXCEPT !.quantity = 3 - @]
=============================================================================
