----------------------- MODULE MCOrderBookRefinement -----------------------
(* The refinement on small sets; no total wraps around here, since a total *)
(* beyond uint64 makes modifyOrder refuse reductions MatchingSpec allows.  *)
EXTENDS OrderBookRefinement, TLC

IdSymmetry == Permutations(OrderIds)
=============================================================================
