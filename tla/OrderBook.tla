----------------------------- MODULE OrderBook -----------------------------
(***************************************************************************)
(* The matching engine of src/order_book.cpp: the price levels of the two  *)
(* sides, the index from order ids to their place in a level, and the      *)
(* trade history.  The engine is single threaded; executeOrder's matching  *)
(* loop is modelled one iteration at a time (its stack frame is the        *)
(* variable frame) and no other operation can run while it does.           *)
(*                                                                         *)
(* std::map is a function whose domain is the set of its keys, std::list   *)
(* is a sequence, and the list iterator kept in orderIndex is the one node *)
(* of the level that holds the order.                                      *)
(***************************************************************************)
EXTENDS Integers, Sequences, Functions

CONSTANTS
  OrderIds,       \* OrderId values
  Prices,         \* Price values (int64, so possibly 0 or negative)
  Quantities,     \* Quantity values (uint32, so possibly 0)
  Participants,   \* ParticipantId values
  Symbols,        \* SymbolId values
  DefaultSymbol,  \* the one symbol this engine trades
  PriceLimit,     \* 2^63 in the code: a price is in -PriceLimit .. PriceLimit - 1
  QuantityLimit,  \* 2^32 in the code: a quantity is in 0 .. QuantityLimit - 1
  TotalLimit,     \* 2^64 in the code: an AggregateQuantity is in 0 .. TotalLimit - 1
  MaxTrades       \* bound: no executeOrder starts once this many trades exist

ASSUME ConstantsAssumption ==
  /\ PriceLimit \in Nat
  /\ Prices \subseteq -PriceLimit .. PriceLimit - 1
  /\ QuantityLimit \in Nat \ {0}
  /\ Quantities \subseteq 0 .. QuantityLimit - 1
  /\ TotalLimit \in Nat
  /\ QuantityLimit <= TotalLimit
  /\ DefaultSymbol \in Symbols
  /\ MaxTrades \in Nat

VARIABLES
  book,          \* bids and asks: side -> price -> PriceLevel
  orderIndex,    \* order id -> the level its node is in
  tradeHistory,  \* every trade since the last reset
  frame,         \* << >> or the frame of the executeOrder call that is looping
  result         \* what the last completed operation returned

vars == <<book, orderIndex, tradeHistory, frame, result>>

----------------------------------------------------------------------------
(* Types *)

Side == {"Buy", "Sell"}

Order == [id : OrderIds, side : Side, price : Prices, quantity : Quantities,
          participant_id : Participants, symbol_id : Symbols]

\* An order whose quantity has been reduced by fills.
RestingOrder == [id : OrderIds, side : Side, price : Prices, quantity : 0 .. QuantityLimit - 1,
                 participant_id : Participants, symbol_id : Symbols]

PriceLevel == [total_quantity : 0 .. TotalLimit - 1, orders : Seq(RestingOrder)]

Location == [side : Side, price : Prices]

Trade == [maker_order_id : OrderIds, taker_order_id : OrderIds, price : Prices,
          quantity : 0 .. QuantityLimit - 1, aggressor_side : Side,
          maker_participant_id : Participants, taker_participant_id : Participants,
          symbol_id : Symbols]

Frame == [order : RestingOrder, original : Quantities, trades : Seq(Trade)]

Result == [accepted : BOOLEAN, executed : 0 .. QuantityLimit - 1,
           remaining : 0 .. QuantityLimit - 1, trades : Seq(Trade)]

----------------------------------------------------------------------------
(* Arithmetic and the two orderings of price *)

\* A total of width AggregateQuantity plus and minus a Quantity.
WrapAdd(x, y) == IF x + y < TotalLimit THEN x + y ELSE x + y - TotalLimit
WrapSub(x, y) == IF x >= y THEN x - y ELSE x - y + TotalLimit

Opposite(side) == IF side = "Buy" THEN "Sell" ELSE "Buy"

\* std::greater for bids and std::less for asks: p comes before q.
Better(side, p, q) == IF side = "Buy" THEN p > q ELSE p < q

\* Mutant: an incoming order does not trade at its own limit.
AdmitsBelowLimit(o, p) == IF o.side = "Buy" THEN p < o.price ELSE p > o.price

\* The limit of the incoming order o admits a trade at the resting price p.
Admits(o, p) == IF o.side = "Buy" THEN p <= o.price ELSE p >= o.price

----------------------------------------------------------------------------
(* Finite maps *)

WithEntry(f, key, value) ==
  [k \in DOMAIN f \cup {key} |-> IF k = key THEN value ELSE f[k]]

WithoutEntry(f, key) == [k \in DOMAIN f \ {key} |-> f[k]]

----------------------------------------------------------------------------
(* The levels of a book b *)

EmptyLevel == [total_quantity |-> 0, orders |-> << >>]

\* operator[] of the map: a level that is not there is created empty.
LevelAt(b, side, price) ==
  IF price \in DOMAIN b[side] THEN b[side][price] ELSE EmptyLevel

\* A level whose last order has gone is erased from its side.
StoreLevel(b, side, price, level) ==
  [b EXCEPT ![side] = IF level.orders = << >>
                        THEN WithoutEntry(@, price)
                        ELSE WithEntry(@, price, level)]

\* begin() of a side that is not empty.
BestPrice(b, side) ==
  CHOOSE p \in DOMAIN b[side] : \A q \in DOMAIN b[side] : ~Better(side, q, p)

PositionOf(orders, id) == CHOOSE i \in DOMAIN orders : orders[i].id = id

WithoutPosition(orders, n) ==
  [i \in 1 .. Len(orders) - 1 |-> IF i < n THEN orders[i] ELSE orders[i + 1]]

\* The order at position n keeps its place with another quantity.
Resized(orders, n, quantity) == [orders EXCEPT ![n].quantity = quantity]

Amended(o, price, quantity) == [o EXCEPT !.price = price, !.quantity = quantity]

\* Mutant: push_front instead of push_back.
EnqueuedAtFront(b, o) ==
  LET level == LevelAt(b, o.side, o.price)
  IN  StoreLevel(b, o.side, o.price,
        [total_quantity |-> WrapAdd(level.total_quantity, o.quantity),
         orders         |-> <<o>> \o level.orders])

\* o joins the back of the queue at its price.
Enqueued(b, o) ==
  LET level == LevelAt(b, o.side, o.price)
  IN  StoreLevel(b, o.side, o.price,
        [total_quantity |-> WrapAdd(level.total_quantity, o.quantity),
         orders         |-> Append(level.orders, o)])

\* Mutant: pop_front instead of erasing the node of the index.
DequeuedFromFront(b, location, id) ==
  LET level == b[location.side][location.price]
  IN  StoreLevel(b, location.side, location.price,
        [total_quantity |-> WrapSub(level.total_quantity, level.orders[1].quantity),
         orders         |-> Tail(level.orders)])

\* The node of order id leaves the level the index names.
Dequeued(b, location, id) ==
  LET level == b[location.side][location.price]
      n     == PositionOf(level.orders, id)
  IN  StoreLevel(b, location.side, location.price,
        [total_quantity |-> WrapSub(level.total_quantity, level.orders[n].quantity),
         orders         |-> WithoutPosition(level.orders, n)])

\* Mutant: a fill that does not empty the maker leaves the level's total stale.
FrontFilledStaleTotal(b, side, price, fill) ==
  LET level == b[side][price]
      left  == level.orders[1].quantity - fill
  IN  StoreLevel(b, side, price,
        IF left = 0
          THEN [total_quantity |-> WrapSub(level.total_quantity, fill),
                orders         |-> Tail(level.orders)]
          ELSE [level EXCEPT !.orders[1].quantity = left])

\* The order at the front of the level at price loses fill, and leaves when
\* nothing of it is left.
FrontFilled(b, side, price, fill) ==
  LET level == b[side][price]
      front == level.orders[1]
      left  == front.quantity - fill
  IN  StoreLevel(b, side, price,
        [total_quantity |-> WrapSub(level.total_quantity, fill),
         orders         |-> IF left = 0
                              THEN WithoutPosition(level.orders, 1)
                              ELSE Resized(level.orders, 1, left)])

----------------------------------------------------------------------------
(* Operations *)

Idle == frame = << >>

Returns(accepted) ==
  result' = [accepted |-> accepted, executed |-> 0, remaining |-> 0, trades |-> << >>]

\* What addOrder and executeOrder refuse, given the index they find.
Refused(index, o) ==
  \/ o.quantity = 0
  \/ o.price <= 0
  \/ o.symbol_id # DefaultSymbol
  \/ o.id \in DOMAIN index

\* The part of addOrder that changes state.
Rests(o) ==
  /\ book' = Enqueued(book, o)
  /\ orderIndex' = WithEntry(orderIndex, o.id, [side |-> o.side, price |-> o.price])

Rejects ==
  /\ Returns(FALSE)
  /\ UNCHANGED <<book, orderIndex, tradeHistory, frame>>

AddOrder(o) ==
  /\ Idle
  /\ \/ /\ Refused(orderIndex, o)
        /\ Rejects
     \/ /\ ~Refused(orderIndex, o)
        /\ Rests(o)
        /\ Returns(TRUE)
        /\ UNCHANGED <<tradeHistory, frame>>

CancelOrder(id) ==
  /\ Idle
  /\ \/ /\ id \notin DOMAIN orderIndex
        /\ Rejects
     \/ /\ id \in DOMAIN orderIndex
        /\ book' = Dequeued(book, orderIndex[id], id)
        /\ orderIndex' = WithoutEntry(orderIndex, id)
        /\ Returns(TRUE)
        /\ UNCHANGED <<tradeHistory, frame>>

\* A reduction at the same price is made in place and keeps the order's place
\* in the queue, unless the level's total (a wrapping sum) is below it.
ReducesInPlace(location, newQuantity, id) ==
  LET level     == book[location.side][location.price]
      n         == PositionOf(level.orders, id)
      reduction == level.orders[n].quantity - newQuantity
  IN  IF level.total_quantity < reduction
        THEN Rejects
        ELSE /\ book' = StoreLevel(book, location.side, location.price,
                          [total_quantity |-> level.total_quantity - reduction,
                           orders |-> Resized(level.orders, n, newQuantity)])
             /\ Returns(TRUE)
             /\ UNCHANGED <<orderIndex, tradeHistory, frame>>

\* A new price or a larger quantity goes to the back of its queue: cancelOrder
\* and then addOrder, whose answer is the answer.
Reinserts(location, existing, newPrice, newQuantity) ==
  LET modified == Amended(existing, newPrice, newQuantity)
      without  == Dequeued(book, location, existing.id)
      index    == WithoutEntry(orderIndex, existing.id)
  IN  /\ IF Refused(index, modified)
           THEN /\ book' = without
                /\ orderIndex' = index
                /\ Returns(FALSE)
           ELSE /\ book' = Enqueued(without, modified)
                /\ orderIndex' = WithEntry(index, existing.id,
                                           [side |-> modified.side, price |-> newPrice])
                /\ Returns(TRUE)
      /\ UNCHANGED <<tradeHistory, frame>>

\* Mutant: the arguments of modifyOrder are left for addOrder to check.
AmendmentUnchecked(newPrice, newQuantity) == FALSE

\* modifyOrder looks at its arguments before it touches the book.
BadAmendment(newPrice, newQuantity) == newQuantity = 0 \/ newPrice <= 0

ModifyOrder(id, newPrice, newQuantity) ==
  /\ Idle
  /\ IF id \notin DOMAIN orderIndex \/ BadAmendment(newPrice, newQuantity)
       THEN Rejects
       ELSE LET location == orderIndex[id]
                orders   == book[location.side][location.price].orders
                existing == orders[PositionOf(orders, id)]
            IN  \/ /\ location.price = newPrice
                   /\ existing.quantity = newQuantity
                   /\ Returns(TRUE)
                   /\ UNCHANGED <<book, orderIndex, tradeHistory, frame>>
                \/ /\ location.price = newPrice
                   /\ newQuantity < existing.quantity
                   /\ ReducesInPlace(location, newQuantity, id)
                \/ /\ location.price # newPrice \/ newQuantity > existing.quantity
                   /\ Reinserts(location, existing, newPrice, newQuantity)

----------------------------------------------------------------------------
(* executeOrder: the early return, one iteration of the loop, what follows it *)

StartExecute(o) ==
  /\ Idle
  /\ Len(tradeHistory) < MaxTrades
  /\ UNCHANGED <<book, orderIndex, tradeHistory>>
  /\ \/ /\ Refused(orderIndex, o)
        /\ result' = [accepted |-> FALSE, executed |-> 0,
                      remaining |-> o.quantity, trades |-> << >>]
        /\ UNCHANGED frame
     \/ /\ ~Refused(orderIndex, o)
        /\ frame' = <<[order |-> o, original |-> o.quantity, trades |-> << >>]>>
        /\ UNCHANGED result

\* The condition of the while and of the break in it.
CanMatch(o) ==
  /\ o.quantity > 0
  /\ DOMAIN book[Opposite(o.side)] # {}
  /\ Admits(o, BestPrice(book, Opposite(o.side)))

\* The frame f of a call that has traded fill more.
Advanced(f, fill, trade) ==
  [f EXCEPT ![1].order.quantity = @ - fill, ![1].trades = Append(@, trade)]

\* Mutant: what the resting order has is not looked at.
WholeTaker(taker, maker) == taker.quantity

\* std::min of what the two orders have.
FillQuantity(taker, maker) ==
  IF taker.quantity <= maker.quantity THEN taker.quantity ELSE maker.quantity

MatchStep ==
  /\ ~Idle
  /\ CanMatch(frame[1].order)
  /\ LET taker == frame[1].order
         side  == Opposite(taker.side)
         price == BestPrice(book, side)
         maker == book[side][price].orders[1]
         fill  == FillQuantity(taker, maker)
         trade == [maker_order_id       |-> maker.id,
                   taker_order_id       |-> taker.id,
                   price                |-> maker.price,
                   quantity             |-> fill,
                   aggressor_side       |-> taker.side,
                   maker_participant_id |-> maker.participant_id,
                   taker_participant_id |-> taker.participant_id,
                   symbol_id            |-> taker.symbol_id]
     IN  /\ book' = FrontFilled(book, side, price, fill)
         /\ orderIndex' = IF fill = maker.quantity
                            THEN WithoutEntry(orderIndex, maker.id)
                            ELSE orderIndex
         /\ tradeHistory' = Append(tradeHistory, trade)
         /\ frame' = Advanced(frame, fill, trade)
  /\ UNCHANGED result

FinishExecute ==
  /\ ~Idle
  /\ ~CanMatch(frame[1].order)
  /\ LET o       == frame[1].order
         refused == o.quantity > 0 /\ Refused(orderIndex, o)
     IN  /\ IF o.quantity > 0 /\ ~refused
              THEN Rests(o)
              ELSE UNCHANGED <<book, orderIndex>>
         /\ result' = [accepted  |-> ~refused,
                       executed  |-> frame[1].original - o.quantity,
                       remaining |-> o.quantity,
                       trades    |-> frame[1].trades]
  /\ frame' = << >>
  /\ UNCHANGED tradeHistory

ResetOrderBook ==
  /\ Idle
  /\ book' = [side \in Side |-> << >>]
  /\ orderIndex' = << >>
  /\ tradeHistory' = << >>
  /\ Returns(TRUE)
  /\ UNCHANGED frame

----------------------------------------------------------------------------

Init ==
  /\ book = [side \in Side |-> << >>]
  /\ orderIndex = << >>
  /\ tradeHistory = << >>
  /\ frame = << >>
  /\ result = [accepted |-> TRUE, executed |-> 0, remaining |-> 0, trades |-> << >>]

Next ==
  \/ \E o \in Order : AddOrder(o)
  \/ \E id \in OrderIds : CancelOrder(id)
  \/ \E id \in OrderIds, price \in Prices, quantity \in Quantities :
       ModifyOrder(id, price, quantity)
  \/ \E o \in Order : StartExecute(o)
  \/ MatchStep
  \/ FinishExecute
  \/ ResetOrderBook

Spec == Init /\ [][Next]_vars

----------------------------------------------------------------------------
(* Properties *)

\* Every variable has its type: the declarations of types.hpp and
\* order_book.hpp, with no quantity and no total outside its width.
TypeOK ==
  /\ DOMAIN book = Side
  /\ \A side \in Side :
       /\ DOMAIN book[side] \subseteq Prices
       /\ \A p \in DOMAIN book[side] : book[side][p] \in PriceLevel
  /\ DOMAIN orderIndex \subseteq OrderIds
  /\ \A id \in DOMAIN orderIndex : orderIndex[id] \in Location
  /\ tradeHistory \in Seq(Trade)
  /\ frame \in Seq(Frame) /\ Len(frame) <= 1
  /\ result \in Result

\* Each order in a level belongs there, has quantity left, and is where the
\* index says it is.
OrdersIndexed ==
  \A side \in Side : \A p \in DOMAIN book[side] :
    LET orders == book[side][p].orders
    IN  /\ orders # << >>
        /\ \A n \in DOMAIN orders :
             /\ orders[n].side = side
             /\ orders[n].price = p
             /\ orders[n].quantity > 0
             /\ orders[n].id \in DOMAIN orderIndex
             /\ orderIndex[orders[n].id].side = side
             /\ orderIndex[orders[n].id].price = p

\* An order id is in its level once.
OrdersUnique ==
  \A side \in Side : \A p \in DOMAIN book[side] :
    LET orders == book[side][p].orders
    IN  \A m, n \in DOMAIN orders : orders[m].id = orders[n].id => m = n

\* Each entry of the index leads to a live node of an existing level.
IndexReachesOrders ==
  \A id \in DOMAIN orderIndex :
    LET location == orderIndex[id]
    IN  /\ location.price \in DOMAIN book[location.side]
        /\ \E n \in DOMAIN book[location.side][location.price].orders :
             book[location.side][location.price].orders[n].id = id

\* What checkBookInvariants (src/validation.cpp) verifies about the links
\* between the index and the levels, after every loop iteration too: no empty
\* level, no dangling or missing iterator, no order in two places.
IndexConsistent == OrdersIndexed /\ OrdersUnique /\ IndexReachesOrders

Sizes(orders) == [n \in DOMAIN orders |-> orders[n].quantity]

\* The total of each level is the sum, modulo 2^64, of the quantities of its
\* orders: the cached total that modifyOrder and the snapshots read is never
\* stale after an add, a cancel, a reduction in place or a partial fill.
TotalsExact ==
  \A side \in Side : \A p \in DOMAIN book[side] :
    book[side][p].total_quantity = SumFunction(Sizes(book[side][p].orders)) % TotalLimit

\* An operation that answers false, an executeOrder after any number of loop
\* iterations included, has changed nothing: a modifyOrder is never half done.
RejectionsChangeNothing ==
  [][frame' = << >> /\ ~result'.accepted
       => result'.trades = << >> /\ UNCHANGED <<book, orderIndex, tradeHistory>>]_vars

\* executeOrder never leaves its own remainder resting at a price at which the
\* other side could still trade with it, even on a book addOrder has crossed.
RemainderNeverCrosses ==
  [][frame # << >> /\ frame' = << >> /\ result'.remaining > 0
       => LET o == frame[1].order
          IN  \A p \in DOMAIN book'[Opposite(o.side)] :
                IF o.side = "Buy" THEN o.price < p ELSE p < o.price]_vars
=============================================================================
