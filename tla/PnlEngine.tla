----------------------------- MODULE PnlEngine -----------------------------
(***************************************************************************)
(* The profit-and-loss engine of include/pnl_engine.hpp: one account per   *)
(* participant, in it one average-cost position per symbol, fed from the   *)
(* trade history of the book through a cursor, or trade by trade.          *)
(*                                                                         *)
(* The code computes in long double; here prices are exact ratios, so that *)
(* what is shown is the accounting, not its rounding.                      *)
(***************************************************************************)
EXTENDS Integers, SequencesExt

CONSTANTS
  BookTrades,     \* what the book may append to its history
  OtherTrades,    \* what processTrade may be called with directly
  Participants,   \* who may have an account
  Unknown,        \* UnknownParticipant
  Symbols,
  DefaultSymbol,  \* what the book trades
  NoSymbol,       \* symbol 0
  InitialCash,    \* what registerAccount may be called with
  MarkPrices,     \* prices set by setMarkPrice, or found in the book
  MaxHistory,     \* bound of the model on the trade history
  MaxOther        \* bound of the model on direct calls of processTrade

ASSUME PnlAssumption ==
  /\ Unknown \notin Participants
  /\ NoSymbol \notin Symbols /\ DefaultSymbol \in Symbols /\ IsFiniteSet(Symbols)
  /\ MarkPrices \subseteq Nat \ {0} /\ InitialCash \subseteq Int

Trade ==
  [maker_participant_id : Participants \cup {Unknown},
   taker_participant_id : Participants \cup {Unknown},
   aggressor_side : {"Buy", "Sell"}, price : Int, quantity : Nat,
   symbol_id : Symbols \cup {NoSymbol}]

VARIABLES
  history,    \* tradeHistory of the book
  processed,  \* processed_trade_count_
  accounts,   \* accounts_
  marks,      \* mark_prices_
  statistics, \* statistics_ of the trades, processed and rejected
  others,     \* number of direct calls of processTrade made
  stale       \* history variable: resetOrderBook erased trades already processed

vars == <<history, processed, accounts, marks, statistics, others, stale>>

----------------------------------------------------------------------------
(* Ratios, in lowest terms *)

Ratio(n, d) ==
  LET divisor == Max({k \in 1 .. d : n % k = 0 /\ d % k = 0})
  IN  [n |-> n \div divisor, d |-> d \div divisor]

Whole(n) == [n |-> n, d |-> 1]
Zero == Whole(0)
Plus(x, y) == Ratio(x.n * y.d + y.n * x.d, x.d * y.d)
Times(k, x) == Ratio(k * x.n, x.d)
Minus(x, y) == Plus(x, Times(-1, y))
Over(x, k) == Ratio(x.n, x.d * k)

----------------------------------------------------------------------------
(* Fills *)

Flat == [position |-> 0, average_entry_price |-> Zero, realised_pnl |-> Zero]

Magnitude(x) == IF x < 0 THEN -x ELSE x
SameSign(x, y) == (x > 0 /\ y > 0) \/ (x < 0 /\ y < 0)

\* What closing a position that was bought, or sold, at average earns a unit.
GainPerUnit(position, average, price) ==
  IF position > 0 THEN Minus(price, average) ELSE Minus(average, price)

\* updateAverageCostPosition by a signed quantity.
Extended(s, quantity, price) ==
  [s EXCEPT !.position = @ + quantity,
            !.average_entry_price =
              Over(Plus(Times(Magnitude(s.position), @), Times(Magnitude(quantity), price)),
                   Magnitude(s.position + quantity))]

\* Mutant: a position that changes sign keeps its average.
AverageKept(s, rest, price) ==
  IF rest = 0 THEN Zero ELSE s.average_entry_price

\* The average of what is left, or of what was opened in the other direction.
AverageAfter(s, rest, price) ==
  IF rest = 0 THEN Zero
  ELSE IF SameSign(rest, s.position) THEN s.average_entry_price
  ELSE price

Closed(s, quantity, price) ==
  LET rest == s.position + quantity
      gain == Times(Min({Magnitude(s.position), Magnitude(quantity)}),
                    GainPerUnit(s.position, s.average_entry_price, price))
  IN  [position |-> rest,
       average_entry_price |-> AverageAfter(s, rest, price),
       realised_pnl |-> Plus(s.realised_pnl, gain)]

Updated(s, quantity, price) ==
  IF s.position = 0
    THEN [s EXCEPT !.position = quantity, !.average_entry_price = price]
  ELSE IF SameSign(s.position, quantity)
    THEN Extended(s, quantity, price)
  ELSE Closed(s, quantity, price)

Signed(side, quantity) == IF side = "Buy" THEN quantity ELSE -quantity

OppositeSide(side) == IF side = "Buy" THEN "Sell" ELSE "Buy"

OpenedAccount(cash) ==
  [initial_cash |-> cash, cash_balance |-> cash, symbols |-> [s \in Symbols |-> Flat]]

\* applyFill, which opens an account for a participant that has none.
WithFill(all, participant, symbol, side, price, quantity) ==
  IF participant = Unknown THEN all
  ELSE LET account == IF participant \in DOMAIN all THEN all[participant] ELSE OpenedAccount(0)
           filled  == [account EXCEPT
                         !.cash_balance = @ - Signed(side, quantity) * price,
                         !.symbols[symbol] = Updated(@, Signed(side, quantity), Whole(price))]
       IN  [p \in DOMAIN all \cup {participant} |->
              IF p = participant THEN filled ELSE all[p]]

ValidTrade(t) == t.price > 0 /\ t.quantity > 0 /\ t.symbol_id # NoSymbol

\* The book makes valid trades of its own symbol; none that is booked by hand is one.
ASSUME TradesAssumption ==
  /\ BookTrades \subseteq {t \in Trade : ValidTrade(t) /\ t.symbol_id = DefaultSymbol}
  /\ OtherTrades \subseteq {t \in Trade : ~(ValidTrade(t) /\ t.symbol_id = DefaultSymbol)}

\* processTrade: the maker's fill, then the taker's.
WithTrade(all, t) ==
  IF ValidTrade(t)
    THEN WithFill(WithFill(all, t.maker_participant_id, t.symbol_id,
                           OppositeSide(t.aggressor_side), t.price, t.quantity),
                  t.taker_participant_id, t.symbol_id, t.aggressor_side, t.price, t.quantity)
    ELSE all

Counted(trades) ==
  LET valid == Len(SelectSeq(trades, ValidTrade))
  IN  [trades_processed |-> statistics.trades_processed + valid,
       trades_rejected  |-> statistics.trades_rejected + Len(trades) - valid]

----------------------------------------------------------------------------
(* The book *)

BookExecutes(t) ==
  /\ Len(history) < MaxHistory
  /\ history' = Append(history, t)
  /\ UNCHANGED <<processed, accounts, marks, statistics, others, stale>>

ResetOrderBook ==
  /\ history' = << >>
  /\ stale' = (stale \/ processed > 0)
  /\ UNCHANGED <<processed, accounts, marks, statistics, others>>

----------------------------------------------------------------------------
(* Calls of the engine *)

\* It throws, and changes nothing, when the participant has an account.
RegisterAccount(participant, cash) ==
  /\ participant \notin DOMAIN accounts
  /\ accounts' = [p \in DOMAIN accounts \cup {participant} |->
                    IF p = participant THEN OpenedAccount(cash) ELSE accounts[p]]
  /\ UNCHANGED <<history, processed, marks, statistics, others, stale>>

\* Mutant: the cursor stays where it was.
CursorKept(trades) == processed

CursorAfter(trades) == Len(trades)

\* A history shorter than what has been processed is refused.
ProcessNewTrades ==
  /\ processed <= Len(history)
  /\ LET new == SubSeq(history, processed + 1, Len(history))
     IN  /\ accounts' = FoldLeft(WithTrade, accounts, new)
         /\ statistics' = Counted(new)
  /\ processed' = CursorAfter(history)
  /\ UNCHANGED <<history, marks, others, stale>>

ProcessTrade(t) ==
  /\ others < MaxOther
  /\ others' = others + 1
  /\ accounts' = WithTrade(accounts, t)
  /\ statistics' = Counted(<<t>>)
  /\ UNCHANGED <<history, processed, marks, stale>>

SetMark(symbol, price) ==
  /\ marks' = [s \in DOMAIN marks \cup {symbol} |-> IF s = symbol THEN price ELSE marks[s]]
  /\ UNCHANGED <<history, processed, accounts, statistics, others, stale>>

SetMarkPrice == \E symbol \in Symbols, price \in MarkPrices : SetMark(symbol, Whole(price))

\* The midpoint of the best prices; a one-sided book gives the price it has.
MarkFromCurrentOrderBook ==
  \/ \E bid, ask \in MarkPrices : bid < ask /\ SetMark(DefaultSymbol, Ratio(bid + ask, 2))
  \/ \E price \in MarkPrices : SetMark(DefaultSymbol, Whole(price))

Reset ==
  /\ accounts' = << >>
  /\ marks' = << >>
  /\ statistics' = [trades_processed |-> 0, trades_rejected |-> 0]
  /\ processed' = 0
  /\ stale' = FALSE
  /\ UNCHANGED <<history, others>>

Init ==
  /\ history = << >>
  /\ processed = 0
  /\ accounts = << >>
  /\ marks = << >>
  /\ statistics = [trades_processed |-> 0, trades_rejected |-> 0]
  /\ others = 0
  /\ stale = FALSE

Next ==
  \/ \E t \in BookTrades : BookExecutes(t)
  \/ ResetOrderBook
  \/ \E p \in Participants, cash \in InitialCash : RegisterAccount(p, cash)
  \/ ProcessNewTrades
  \/ \E t \in OtherTrades : ProcessTrade(t)
  \/ SetMarkPrice
  \/ MarkFromCurrentOrderBook
  \/ Reset

Spec == Init /\ [][Next]_vars

----------------------------------------------------------------------------
(* What the engine reports *)

SumOfSymbols(account, Value(_)) ==
  FoldFunction(Plus, Zero, [s \in Symbols |-> Value(s)])

RealisedPnl(p) == SumOfSymbols(accounts[p], LAMBDA s : accounts[p].symbols[s].realised_pnl)

UnrealisedOf(p, s) ==
  LET state == accounts[p].symbols[s]
  IN  IF s \notin DOMAIN marks \/ state.position = 0 THEN Zero
      ELSE Times(Magnitude(state.position),
                 GainPerUnit(state.position, state.average_entry_price, marks[s]))

UnrealisedPnl(p) == SumOfSymbols(accounts[p], LAMBDA s : UnrealisedOf(p, s))

\* A position without a mark is valued at its average entry price.
AccountEquity(p) ==
  Plus(Whole(accounts[p].cash_balance),
       SumOfSymbols(accounts[p], LAMBDA s :
         Times(accounts[p].symbols[s].position,
               IF s \in DOMAIN marks THEN marks[s]
               ELSE accounts[p].symbols[s].average_entry_price)))

----------------------------------------------------------------------------
(* Properties *)

\* The two ways the report computes what an account is worth agree: cash and
\* marked positions, which know nothing of averages, against initial cash with
\* realised and unrealised profit, through extensions, partial closes and
\* changes of sign, and whatever positions have a mark.
EquityReconciles ==
  \A p \in DOMAIN accounts :
    AccountEquity(p) =
      Plus(Whole(accounts[p].initial_cash), Plus(RealisedPnl(p), UnrealisedPnl(p)))

NetOf(trades, p) ==
  FoldLeft(LAMBDA sum, t :
             sum + (IF t.maker_participant_id = p THEN -Signed(t.aggressor_side, t.quantity) ELSE 0)
                 + (IF t.taker_participant_id = p THEN Signed(t.aggressor_side, t.quantity) ELSE 0),
           0, trades)

\* Positions in the book's symbol are the net of the processed part of its
\* history, each trade counted once, when the rule the engine states is kept
\* (its reset after resetOrderBook).
EachTradeCountedOnce ==
  ~stale =>
    \A p \in Participants :
      (IF p \in DOMAIN accounts THEN accounts[p].symbols[DefaultSymbol].position ELSE 0)
        = NetOf(SubSeq(history, 1, processed), p)
=============================================================================
