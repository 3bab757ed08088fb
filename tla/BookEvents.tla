----------------------------- MODULE BookEvents -----------------------------
(***************************************************************************)
(* Applying a market event to the book: validateMarketEvent and            *)
(* applyMarketEvent.  The book is MatchingSpec, which OrderBook            *)
(* implements.                                                             *)
(***************************************************************************)
EXTENDS Integers, SequencesExt

CONSTANTS OrderIds, Prices, Quantities, Participants, Symbols, DefaultSymbol

VARIABLES queue, trades, answer  \* the book

bookVars == <<queue, trades, answer>>

Book == INSTANCE MatchingSpec WITH MaxTrades <- 0

\* validateMarketEvent.
ValidEvent(e) ==
  /\ e.sequence_number # 0
  /\ e.order_id # 0
  /\ e.symbol_id = DefaultSymbol
  /\ e.type # "Cancel" => e.price > 0 /\ e.quantity > 0

OrderOf(e) ==
  [id |-> e.order_id, side |-> e.side, price |-> e.price, quantity |-> e.quantity,
   participant_id |-> e.participant_id, symbol_id |-> e.symbol_id]

\* The call of the book for a valid event, which the book may refuse.
AppliedToBook(e) ==
  \/ e.type = "Add" /\ \E o \in {OrderOf(e)} : Book!Add(o)
  \/ e.type = "Cancel" /\ Book!Cancel(e.order_id)
  \/ e.type = "Modify" /\ Book!Modify(e.order_id, e.price, e.quantity)
  \/ e.type = "Execute" /\ \E o \in {OrderOf(e)} : Book!Execute(o)

\* applyMarketEvent where the event is accepted.
AppliesEvent(e) == ValidEvent(e) /\ AppliedToBook(e) /\ answer'.accepted

\* applyMarketEvent where it is not.
RefusesEvent(e) ==
  \/ ~ValidEvent(e) /\ UNCHANGED bookVars
  \/ ValidEvent(e) /\ AppliedToBook(e) /\ ~answer'.accepted
=============================================================================
