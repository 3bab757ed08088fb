--------------------------- MODULE MatchingSpec ---------------------------
(***************************************************************************)
(* What the matching engine promises, with none of its machinery: for each *)
(* side and price a queue of orders, and a match stated as one step.  There*)
(* are no levels to create and erase, no cached totals, no index and no    *)
(* loop: what an incoming order takes from a resting one is defined by the *)
(* quantity that stands before it in price-time priority.                  *)
(***************************************************************************)
EXTENDS Integers, SequencesExt

CONSTANTS OrderIds, Prices, Quantities, Participants, Symbols, DefaultSymbol, MaxTrades

VARIABLES
  queue,   \* <<side, price>> -> the orders resting there, oldest first
  trades,  \* every trade since the last reset
  answer   \* what the last operation returned

specVars == <<queue, trades, answer>>

Sides == {"Buy", "Sell"}
OtherSide(side) == CHOOSE s \in Sides : s # side

Request == [id : OrderIds, side : Sides, price : Prices, quantity : Quantities,
            participant_id : Participants, symbol_id : Symbols]

----------------------------------------------------------------------------
(* Resting orders and their priority, in the queues q *)

\* The places of resting orders: side, price and position in the queue.
Places(q, side) ==
  UNION {{<<side, p, n>> : n \in DOMAIN q[<<side, p>>]} : p \in Prices}

OrderAt(q, place) == q[<<place[1], place[2]>>][place[3]]

RestingIn(q) == {OrderAt(q, place) : place \in Places(q, "Buy") \cup Places(q, "Sell")}

Resting == RestingIn(queue)

PlaceOf(q, id) ==
  CHOOSE place \in Places(q, "Buy") \cup Places(q, "Sell") : OrderAt(q, place).id = id

RestingIds == {o.id : o \in Resting}

\* Price first (a higher bid, a lower ask), then time.
Before(x, y) ==
  \/ IF x[1] = "Buy" THEN x[2] > y[2] ELSE x[2] < y[2]
  \/ x[2] = y[2] /\ x[3] < y[3]

\* The places an incoming order may trade with.
Reach(q, o) ==
  {place \in Places(q, OtherSide(o.side)) :
     IF o.side = "Buy" THEN place[2] <= o.price ELSE place[2] >= o.price}

\* What o leaves to the order at place once everything before it is served.
Taken(q, o, place) ==
  LET before == {x \in Reach(q, o) : Before(x, place)}
      ahead == SumFunction([x \in before |-> OrderAt(q, x).quantity])
      offer == o.quantity - ahead
  IN  Max({0, Min({offer, OrderAt(q, place).quantity})})

Fill(q, o, place) ==
  LET maker == OrderAt(q, place)
  IN  [maker_order_id       |-> maker.id,
       taker_order_id       |-> o.id,
       price                |-> place[2],
       quantity             |-> Taken(q, o, place),
       aggressor_side       |-> o.side,
       maker_participant_id |-> maker.participant_id,
       taker_participant_id |-> o.participant_id,
       symbol_id            |-> o.symbol_id]

\* The fills of o, best price and oldest order first.
Fills(q, o) ==
  LET served == {x \in Reach(q, o) : Taken(q, o, x) > 0}
      nth(n) == CHOOSE x \in served : Cardinality({y \in served : Before(y, x)}) = n - 1
  IN  [n \in 1 .. Cardinality(served) |-> Fill(q, o, nth(n))]

Left(q, o) == o.quantity - SumFunction([x \in Reach(q, o) |-> Taken(q, o, x)])

\* The queue at key once o has taken what it takes there: the orders it fills
\* stand before those it does not.
Served(q, o, key) ==
  LET place(n) == <<key[1], key[2], n>>
      reduced == [n \in DOMAIN q[key] |->
                    IF place(n) \in Reach(q, o)
                      THEN [q[key][n] EXCEPT !.quantity = @ - Taken(q, o, place(n))]
                      ELSE q[key][n]]
      left == {n \in DOMAIN reduced : reduced[n].quantity > 0}
  IN  IF left = {} THEN << >> ELSE SubSeq(reduced, Min(left), Len(reduced))

----------------------------------------------------------------------------
(* Where an operation that is accepted leaves the queues q *)

AfterAdd(q, o) == [q EXCEPT ![<<o.side, o.price>>] = Append(@, o)]

AfterCancel(q, id) ==
  LET place == PlaceOf(q, id)
  IN  [q EXCEPT ![<<place[1], place[2]>>] = RemoveAt(@, place[3])]

\* A smaller quantity at the same price keeps the order's priority; any other
\* change sends the order to the back of the queue at its new price.
AfterModify(q, id, price, quantity) ==
  LET place == PlaceOf(q, id)
      old == OrderAt(q, place)
      new == [old EXCEPT !.price = price, !.quantity = quantity]
  IN  IF price = old.price /\ quantity <= old.quantity
        THEN [q EXCEPT ![<<old.side, price>>] = ReplaceAt(@, place[3], new)]
        ELSE [AfterCancel(q, id) EXCEPT ![<<old.side, price>>] = Append(@, new)]

AfterExecute(q, o) ==
  LET left == Left(q, o)
  IN  [key \in DOMAIN q |->
         IF key # <<o.side, o.price>> THEN Served(q, o, key)
         ELSE IF left > 0 THEN Append(q[key], [o EXCEPT !.quantity = left])
         ELSE q[key]]

----------------------------------------------------------------------------
(* Operations *)

Answers(accepted) ==
  answer' = [accepted |-> accepted, executed |-> 0, remaining |-> 0, trades |-> << >>]

Acceptable(o) ==
  /\ o.quantity > 0
  /\ o.price > 0
  /\ o.symbol_id = DefaultSymbol
  /\ o.id \notin RestingIds

Add(o) ==
  /\ UNCHANGED trades
  /\ IF Acceptable(o)
       THEN queue' = AfterAdd(queue, o) /\ Answers(TRUE)
       ELSE Answers(FALSE) /\ UNCHANGED queue

Cancel(id) ==
  /\ UNCHANGED trades
  /\ IF id \in RestingIds
       THEN queue' = AfterCancel(queue, id) /\ Answers(TRUE)
       ELSE Answers(FALSE) /\ UNCHANGED queue

Modify(id, price, quantity) ==
  /\ UNCHANGED trades
  /\ IF id \in RestingIds /\ quantity # 0 /\ price > 0
       THEN queue' = AfterModify(queue, id, price, quantity) /\ Answers(TRUE)
       ELSE Answers(FALSE) /\ UNCHANGED queue

Execute(o) ==
  IF Acceptable(o)
    THEN LET left == Left(queue, o)
         IN  /\ trades' = trades \o Fills(queue, o)
             /\ queue' = AfterExecute(queue, o)
             /\ answer' = [accepted |-> TRUE, executed |-> o.quantity - left,
                           remaining |-> left, trades |-> Fills(queue, o)]
    ELSE /\ answer' = [accepted |-> FALSE, executed |-> 0,
                       remaining |-> o.quantity, trades |-> << >>]
         /\ UNCHANGED <<queue, trades>>

Reset ==
  /\ queue' = [key \in DOMAIN queue |-> << >>]
  /\ trades' = << >>
  /\ Answers(TRUE)

Init ==
  /\ queue = [key \in Sides \X Prices |-> << >>]
  /\ trades = << >>
  /\ answer = [accepted |-> TRUE, executed |-> 0, remaining |-> 0, trades |-> << >>]

Next ==
  \/ \E o \in Request : Add(o)
  \/ \E id \in OrderIds : Cancel(id)
  \/ \E id \in OrderIds, price \in Prices, quantity \in Quantities : Modify(id, price, quantity)
  \/ Reset
  \/ \E o \in Request : Execute(o)

Spec == Init /\ [][Next]_specVars
=============================================================================
