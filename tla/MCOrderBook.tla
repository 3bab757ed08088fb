---------------------------- MODULE MCOrderBook ----------------------------
(***************************************************************************)
(* The order book on small sets.  TotalLimit is so small that two orders   *)
(* of the largest quantity wrap the total of their level, as 2^32 + 2 of   *)
(* them wrap a uint64 total in the code.                                   *)
(***************************************************************************)
EXTENDS OrderBook, SequencesExt

IdSymmetry == Permutations(OrderIds)
=============================================================================
