-------------------------- MODULE MCRecordedReplay --------------------------
(***************************************************************************)
(* Logs of up to three events, in any order of their sequence numbers, the *)
(* largest of which is the largest there is, one event not being valid and *)
(* one that the book refuses unless the order it cancels is there.         *)
(***************************************************************************)
EXTENDS RecordedReplay

Event(sequence, type, id, side, price, quantity) ==
  [sequence_number |-> sequence, type |-> type, order_id |-> id, side |-> side,
   price |-> price, quantity |-> quantity, participant_id |-> 0, symbol_id |-> 1]

Rest == Event(1, "Add", 1, "Buy", 1, 2)
Hit == Event(2, "Execute", 2, "Sell", 1, 1)
Shrink == Event(2, "Modify", 1, "Buy", 1, 1)
Withdraw == Event(3, "Cancel", 1, "Buy", 0, 0)
NoPrice == Event(3, "Add", 3, "Sell", 0, 1)

\* Without the reset the trades of replay after replay pile up.
WithReset ==
  [reset_book_before_replay : {TRUE}, stop_on_rejection : BOOLEAN, expected_first_sequence : {0, 1}]

SmallBatches ==
  {<<Rest, Hit, Withdraw>>, <<Rest, Shrink, Withdraw>>, <<Rest, Withdraw>>, <<Hit, Withdraw, Withdraw>>,
   <<Rest, Hit, Hit>>, <<Hit, Rest>>, <<Rest, NoPrice>>, << >>}
=============================================================================
