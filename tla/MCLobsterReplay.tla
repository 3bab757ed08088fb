-------------------------- MODULE MCLobsterReplay --------------------------
(***************************************************************************)
(* Files of up to five rows about two orders on one side or the other of   *)
(* two prices.                                                             *)
(***************************************************************************)
EXTENDS LobsterReplay

Row(type, id, size, price, direction) ==
  [type |-> type, id |-> id, size |-> size, price |-> price, direction |-> direction]

SmallRows ==
  {Row(1, 1, 1, 1, 1), Row(1, 1, 3, 1, 1), Row(1, 2, 2, 1, 1), Row(1, 2, 2, 2, -1)}
    \cup {Row(2, 1, 1, 1, 1), Row(2, 1, 2, 1, 1), Row(4, 2, 2, 1, 1)}
    \cup {Row(3, 1, 0, 1, 1), Row(3, 2, 0, 1, -1), Row(5, 1, 1, 1, 1), Row(1, 1, 1, 1, 0)}

WithReset ==
  [reset_book_before_replay : {TRUE}, stop_on_rejection : {FALSE}, expected_first_sequence : {1}]
=============================================================================
