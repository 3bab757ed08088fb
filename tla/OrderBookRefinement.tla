------------------------ MODULE OrderBookRefinement ------------------------
(***************************************************************************)
(* OrderBook implements MatchingSpec.  While executeOrder loops, the       *)
(* abstract engine is still where the call found it: the history variables *)
(* bookBefore and tradesBefore remember that, and the abstract match       *)
(* happens in the step that returns.                                       *)
(***************************************************************************)
EXTENDS OrderBook

VARIABLES bookBefore, tradesBefore

historyVars == <<book, orderIndex, tradeHistory, frame, result, bookBefore, tradesBefore>>

Remember ==
  IF frame' = << >>
    THEN bookBefore' = book' /\ tradesBefore' = tradeHistory'
    ELSE UNCHANGED <<bookBefore, tradesBefore>>

HistoryInit == Init /\ bookBefore = book /\ tradesBefore = tradeHistory

HistoryNext == Next /\ Remember

HistorySpec == HistoryInit /\ [][HistoryNext]_historyVars

Abstract == INSTANCE MatchingSpec WITH
  queue  <- [key \in Side \X Prices |-> LevelAt(bookBefore, key[1], key[2]).orders],
  trades <- tradesBefore,
  answer <- result

\* executeOrder's loop over the front of the best level, together with the
\* index, the levels that come and go and modifyOrder's two ways, gives price
\* and then time priority: each taker is served as if in one step, by quantity
\* ahead in priority, and its trades, its answer and its remainder are those.
KeepsPriceTimePriority == Abstract!Spec
=============================================================================
