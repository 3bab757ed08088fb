---------------------------- MODULE MarketMaker ----------------------------
(***************************************************************************)
(* The market-making strategy of include/market_maker_strategy.hpp with    *)
(* its RiskManager and InventoryTracker (include/risk_management.hpp).  It *)
(* quotes on the book the market trades in: the engine is MatchingSpec,    *)
(* which OrderBook implements, and each call the strategy makes of it is a *)
(* step of its own.  The program is single threaded here: the market moves *)
(* between two calls of the strategy, never within one.  The recorder of   *)
(* fills (include/analytics/simulation_telemetry_bridge.hpp), which reads  *)
(* the tracker, is part of it.                                             *)
(*                                                                         *)
(* Prices are integers and long double halves of them are doubled.         *)
(***************************************************************************)
EXTENDS Integers, SequencesExt

CONSTANTS
  MarketOrders,      \* the orders other participants may send
  FirstStrategyId,   \* first_strategy_order_id
  LastStrategyId,    \* bound of the model: no quotes are made with a larger id
  StrategyParticipant, \* participant_id
  StrategySymbol,    \* symbol_id, which nothing checks
  Symbol,            \* DefaultSymbol
  Prices,            \* what a quote may come to
  QuoteQuantity,     \* quote_quantity
  HalfSpread,        \* half_spread_ticks
  Skew,              \* inventory_skew_per_unit
  TargetPosition,    \* target_position
  TickSize,          \* tick_size
  MaximumOrderSize,  \* maximum_order_size
  MaximumPosition,   \* maximum_absolute_position
  MaximumNotional,   \* maximum_notional_exposure
  MaximumMarketAge,  \* maximum_market_age_ns
  Timestamps,        \* the times at which the strategy is called
  MaxTrades,         \* bound of the model on the trade history
  MaxFills           \* bound of the model on the fills the market makes after

ASSUME ConfigAssumption ==
  /\ QuoteQuantity \in Nat \ {0}
  /\ HalfSpread \in Nat \ {0}
  /\ TickSize \in Nat \ {0}
  /\ Skew \in Nat
  /\ TargetPosition \in Int
  /\ MaximumPosition \in Nat
  /\ FirstStrategyId \in Nat \ {0} /\ LastStrategyId \in Nat

\* There is a highest price.  The ids of the others are not taken from those of
\* the strategy, and nobody trades in its name.
ASSUME MarketAssumption ==
  /\ Prices \subseteq Nat \ {0} /\ \E top \in Prices : \A p \in Prices : p <= top
  /\ MarketOrders \subseteq
       [id : {o.id : o \in MarketOrders}, side : {"Buy", "Sell"}, price : Prices, quantity : Nat,
        participant_id : {o.participant_id : o \in MarketOrders},
        symbol_id : {o.symbol_id : o \in MarketOrders}]
  /\ \A o \in MarketOrders :
       /\ o.id \notin {0} \cup FirstStrategyId .. LastStrategyId
       /\ o.participant_id # StrategyParticipant

VARIABLES
  queue, trades, answer,  \* the engine
  pc,                \* the call of the engine that comes next in a call of the strategy
  now,               \* the argument currentTimestamp of that call
  quotes,            \* << >> or the two orders refreshQuotes has made
  killSwitch,        \* kill_switch_active_
  lastMarketUpdate,  \* last_market_update_ns_
  owned,             \* the keys of owned_order_sides_
  activeBid,         \* active_bid_order_id_, NoOrder when it has no value
  activeAsk,         \* active_ask_order_id_
  nextId,            \* next_order_id_
  position,          \* position_ of the inventory tracker
  processed,         \* processed_trade_count_
  fills,             \* fills_ of the inventory tracker, as signed quantities
  cursor,            \* fill_cursor_ of the telemetry bridge
  exposure,          \* history variable: the strategy's fills since it was reset
  lost,              \* history variable: resetOrderBook erased a fill not yet processed
  written,           \* history variable: the fills written to fills.csv since the reset, summed
  unnoticed          \* history variable: the bridge has not noticed resetStrategy

engineVars == <<queue, trades, answer>>
inventoryVars == <<owned, position, processed, fills>>
activeVars == <<activeBid, activeAsk>>
bridgeVars == <<cursor, written, unnoticed>>
historyVars == <<exposure, lost, bridgeVars>>
vars == <<engineVars, pc, now, quotes, killSwitch, lastMarketUpdate,
          inventoryVars, activeVars, nextId, historyVars>>

StrategyIds == FirstStrategyId .. LastStrategyId

NoOrder == 0

Engine == INSTANCE MatchingSpec WITH
  OrderIds <- {o.id : o \in MarketOrders} \cup StrategyIds,
  Quantities <- {o.quantity : o \in MarketOrders} \cup {QuoteQuantity},
  Participants <- {o.participant_id : o \in MarketOrders} \cup {StrategyParticipant},
  Symbols <- {Symbol, StrategySymbol},
  DefaultSymbol <- Symbol

----------------------------------------------------------------------------
(* The book as the strategy sees it                                        *)

Resting(id) == id \in Engine!RestingIds

PricesOf(side) == {p \in Prices : queue[<<side, p>>] # << >>}

TwoSided == PricesOf("Buy") # {} /\ PricesOf("Sell") # {}
BestBid == Max(PricesOf("Buy"))
BestAsk == Min(PricesOf("Sell"))

----------------------------------------------------------------------------
(* Inventory                                                               *)

Total(quantities) == SumFunction(quantities)

SignedQuantity(t) == IF t.aggressor_side = "Buy" THEN t.quantity ELSE -t.quantity

\* What a trade fills of the maker and of the taker, each if it is in ids.
Filled(t, ids, maker, taker) ==
  (IF t.maker_order_id \in ids THEN <<maker>> ELSE << >>)
    \o (IF t.taker_order_id \in ids THEN <<taker>> ELSE << >>)

\* Mutant: the maker is taken to be on the side of the aggressor.
MakerWithAggressor(t, ids) == Filled(t, ids, SignedQuantity(t), SignedQuantity(t))

\* The maker is on the side opposite to the aggressor.
FillsOf(t, ids) == Filled(t, ids, -SignedQuantity(t), SignedQuantity(t))

\* A history shorter than what has been processed is a new one.
FirstUnprocessed(history) ==
  IF processed > Len(history) THEN 1 ELSE processed + 1

\* The fills among the trades of a history that have not been processed.
NewFills(history, ids) ==
  LET gathered[n \in 0 .. Len(history)] ==
        IF n < FirstUnprocessed(history) THEN << >>
        ELSE gathered[n - 1] \o FillsOf(history[n], ids)
  IN  gathered[Len(history)]

\* processNewTrades over a history.
Processes(history, ids) ==
  /\ position' = position + Total(NewFills(history, ids))
  /\ fills' = fills \o NewFills(history, ids)
  /\ processed' = Len(history)

\* Mutant: a quote that has traded at all is forgotten.
Forgotten(id, resting) == NoOrder

\* An active quote that has left the book is active no more.
StillActive(id, resting) == IF id \in resting THEN id ELSE NoOrder

----------------------------------------------------------------------------
(* Risk                                                                    *)

\* validateMarket.
MarketAcceptable(timestamp) ==
  /\ ~killSwitch
  /\ TwoSided
  /\ BestBid < BestAsk
  /\ lastMarketUpdate # 0
  /\ timestamp >= lastMarketUpdate
  /\ timestamp - lastMarketUpdate <= MaximumMarketAge

Magnitude(x) == IF x < 0 THEN -x ELSE x

\* Mutant: the limit is compared with the position before the order.
WithoutOrder(o) == position

\* The position if all of o trades.
Projected(o) == IF o.side = "Buy" THEN position + o.quantity ELSE position - o.quantity

\* validateOrder.
OrderAcceptable(o, timestamp) ==
  /\ MarketAcceptable(timestamp)
  /\ o.price > 0
  /\ o.quantity > 0
  /\ o.quantity <= MaximumOrderSize
  /\ Magnitude(Projected(o)) <= MaximumPosition
  /\ Magnitude(Projected(o)) * o.price <= MaximumNotional
  /\ ~Resting(o.id)

----------------------------------------------------------------------------
(* Quotes                                                                  *)

\* Twice a price, rounded to a multiple of the tick.
RoundedDown(doubled) == (doubled \div (2 * TickSize)) * TickSize
RoundedUp(doubled) == -RoundedDown(-doubled)

TwiceAdjustedFair == BestBid + BestAsk - 2 * Skew * (position - TargetPosition)

\* Mutant: the bid is not kept below the best ask.
UnboundedBid == RoundedDown(TwiceAdjustedFair - 2 * HalfSpread)

BidPrice == RoundedDown(Min({TwiceAdjustedFair - 2 * HalfSpread, 2 * (BestAsk - TickSize)}))

AskPrice == RoundedUp(Max({TwiceAdjustedFair + 2 * HalfSpread, 2 * (BestBid + TickSize)}))

\* What generateQuotePrices accepts of its own prices.
Quotable(bid, ask) == bid > 0 /\ ask > 0 /\ bid < ask

\* generateOrderId: the first id from n on that is neither resting nor owned.
FreeIdFrom(n) ==
  CHOOSE id \in n .. LastStrategyId + 1 :
    /\ id \notin owned /\ ~Resting(id)
    /\ \A k \in n .. id - 1 : k \in owned \/ Resting(k)

Quote(id, side, price) ==
  [id |-> id, side |-> side, price |-> price, quantity |-> QuoteQuantity,
   participant_id |-> StrategyParticipant, symbol_id |-> StrategySymbol]

----------------------------------------------------------------------------
(* The market                                                              *)

Outside == pc = "outside"

\* What a trade adds to the position of the participant the strategy is.
OwnFill(t) ==
  (IF t.maker_participant_id = StrategyParticipant THEN -SignedQuantity(t) ELSE 0)
    + (IF t.taker_participant_id = StrategyParticipant THEN SignedQuantity(t) ELSE 0)

\* What trades in a history past its first n add to the strategy's position.
FilledSince(history, n) ==
  SumFunctionOnSet([k \in DOMAIN history |-> OwnFill(history[k])], n + 1 .. Len(history))

MarketMoves ==
  /\ Outside
  /\ \/ \E o \in MarketOrders :
          \/ Engine!Add(o)
          \/ Engine!Modify(o.id, o.price, o.quantity)
          \/ Len(trades) < MaxTrades /\ Len(fills) < MaxFills /\ Engine!Execute(o)
     \/ \E id \in {o.id : o \in MarketOrders} : Engine!Cancel(id)
  /\ exposure' = exposure + FilledSince(trades', Len(trades))
  /\ UNCHANGED <<pc, now, quotes, killSwitch, lastMarketUpdate, inventoryVars,
                 activeVars, nextId, lost, bridgeVars>>

ResetBook ==
  /\ Outside
  /\ Engine!Reset
  /\ lost' = (lost \/ position # exposure)
  /\ UNCHANGED <<pc, now, quotes, killSwitch, lastMarketUpdate, inventoryVars,
                 activeVars, nextId, exposure, bridgeVars>>

----------------------------------------------------------------------------
(* Calls of the strategy                                                   *)

OnMarketUpdate(timestamp) ==
  /\ Outside
  /\ timestamp > lastMarketUpdate
  /\ lastMarketUpdate' = timestamp
  /\ UNCHANGED <<engineVars, pc, now, quotes, killSwitch, inventoryVars,
                 activeVars, nextId, historyVars>>

ProcessTrades ==
  /\ Outside
  /\ Processes(trades, owned)
  /\ activeBid' = StillActive(activeBid, Engine!RestingIds)
  /\ activeAsk' = StillActive(activeAsk, Engine!RestingIds)
  /\ UNCHANGED <<engineVars, pc, now, quotes, killSwitch, lastMarketUpdate,
                 owned, nextId, historyVars>>

CancelQuote(id) ==
  IF Resting(id) THEN Engine!Cancel(id) ELSE UNCHANGED engineVars

\* cancelActiveQuotes as far as the bid; then what follows the ask's.
CancelBidThen(rest) ==
  /\ Outside
  /\ Processes(trades, owned)
  /\ CancelQuote(activeBid)
  /\ activeBid' = NoOrder
  /\ activeAsk' = StillActive(activeAsk, Engine!RestingIds)
  /\ pc' = rest
  /\ UNCHANGED <<quotes, lastMarketUpdate, owned, nextId, historyVars>>

RefreshQuotes(timestamp) ==
  /\ nextId < LastStrategyId
  /\ CancelBidThen("refreshing")
  /\ now' = timestamp
  /\ UNCHANGED killSwitch

CancelActiveQuotes == CancelBidThen("cancelling") /\ UNCHANGED <<now, killSwitch>>

ActivateKillSwitch ==
  /\ CancelBidThen("cancelling")
  /\ killSwitch' = TRUE
  /\ UNCHANGED now

ResetStrategy == CancelBidThen("resetting") /\ UNCHANGED <<now, killSwitch>>

DeactivateKillSwitch ==
  /\ Outside
  /\ killSwitch' = FALSE
  /\ UNCHANGED <<engineVars, pc, now, quotes, lastMarketUpdate, inventoryVars,
                 activeVars, nextId, historyVars>>

CancelAsk ==
  /\ pc \in {"cancelling", "refreshing"}
  /\ CancelQuote(activeAsk)
  /\ activeAsk' = NoOrder
  /\ pc' = IF pc = "refreshing" THEN "quoting" ELSE "outside"
  /\ UNCHANGED <<now, quotes, killSwitch, lastMarketUpdate, inventoryVars, activeBid,
                 nextId, historyVars>>

\* resetStrategy from the cancellation of the ask on.
CancelAskAndForget ==
  /\ pc = "resetting"
  /\ CancelQuote(activeAsk)
  /\ activeAsk' = NoOrder
  /\ position' = 0 /\ processed' = 0 /\ fills' = << >> /\ owned' = {}
  /\ lastMarketUpdate' = 0
  /\ nextId' = FirstStrategyId
  /\ killSwitch' = FALSE
  /\ exposure' = 0 /\ lost' = FALSE /\ written' = 0 /\ unnoticed' = (cursor # 0)
  /\ pc' = "outside"
  /\ UNCHANGED <<now, quotes, activeBid, cursor>>

\* refreshQuotes once its old quotes are gone.
MakeQuotes ==
  /\ pc = "quoting"
  /\ IF MarketAcceptable(now) /\ Quotable(BidPrice, AskPrice)
       THEN LET bidId == FreeIdFrom(nextId)
                askId == FreeIdFrom(bidId + 1)
            IN  /\ quotes' = <<Quote(bidId, "Buy", BidPrice), Quote(askId, "Sell", AskPrice)>>
                /\ nextId' = askId + 1
                /\ pc' = "submitting"
                /\ UNCHANGED now
       ELSE pc' = "outside" /\ now' = 0 /\ UNCHANGED <<quotes, nextId>>
  /\ UNCHANGED <<engineVars, killSwitch, lastMarketUpdate, inventoryVars,
                 activeVars, historyVars>>

\* An accepted quote of which something rests is the active one of its side.
Activated(o, side, active) ==
  IF o.side = side /\ answer'.remaining > 0
    THEN StillActive(o.id, Engine!RestingIds')
    ELSE StillActive(active, Engine!RestingIds')

\* A quote is owned before it is executed, so that its trades count, and no
\* longer if the book refuses it.
ExecuteQuote(o) ==
  /\ Engine!Execute(o)
  /\ IF answer'.accepted
       THEN /\ owned' = owned \cup {o.id}
            /\ Processes(trades', owned')
            /\ activeBid' = Activated(o, "Buy", activeBid)
            /\ activeAsk' = Activated(o, "Sell", activeAsk)
       ELSE /\ owned' = owned \ {o.id}
            /\ UNCHANGED <<position, processed, fills, activeVars>>

\* submitQuote, for the bid and then for the ask.
SubmitQuote ==
  /\ pc = "submitting"
  /\ LET o == Head(quotes)
     IN  \/ /\ ~OrderAcceptable(o, now)
            /\ UNCHANGED <<engineVars, inventoryVars, activeVars>>
         \/ /\ OrderAcceptable(o, now)
            /\ ExecuteQuote(o)
  /\ quotes' = Tail(quotes)
  /\ IF Len(quotes) = 1 THEN pc' = "outside" /\ now' = 0 ELSE UNCHANGED <<pc, now>>
  /\ exposure' = exposure + FilledSince(trades', Len(trades))
  /\ UNCHANGED <<killSwitch, lastMarketUpdate, nextId, lost, bridgeVars>>

----------------------------------------------------------------------------
(* Telemetry                                                               *)

\* Mutant: a cursor past the end stays there.
CursorKept == cursor

\* A cursor past the end of the fills belongs to fills that are gone.
FirstUnwritten == IF cursor > Len(fills) THEN 0 ELSE cursor

\* recordNewFills, the part of capture that depends on earlier captures.
Capture ==
  /\ Outside
  /\ written' = written + Total(SubSeq(fills, FirstUnwritten + 1, Len(fills)))
  /\ cursor' = Max({FirstUnwritten, Len(fills)})
  /\ unnoticed' = (unnoticed /\ cursor <= Len(fills))
  /\ UNCHANGED <<engineVars, pc, now, quotes, killSwitch, lastMarketUpdate,
                 inventoryVars, activeVars, nextId, exposure, lost>>

----------------------------------------------------------------------------

Init ==
  /\ Engine!Init
  /\ pc = "outside"
  /\ now = 0
  /\ quotes = << >>
  /\ killSwitch = FALSE
  /\ lastMarketUpdate = 0
  /\ owned = {}
  /\ activeBid = NoOrder /\ activeAsk = NoOrder
  /\ nextId = FirstStrategyId
  /\ position = 0
  /\ processed = 0
  /\ fills = << >>
  /\ exposure = 0
  /\ lost = FALSE
  /\ cursor = 0
  /\ written = 0
  /\ unnoticed = FALSE

Next ==
  \/ MarketMoves
  \/ ResetBook
  \/ \E timestamp \in Timestamps : OnMarketUpdate(timestamp) \/ RefreshQuotes(timestamp)
  \/ ProcessTrades
  \/ CancelActiveQuotes
  \/ ActivateKillSwitch
  \/ DeactivateKillSwitch
  \/ ResetStrategy
  \/ CancelAsk
  \/ CancelAskAndForget
  \/ MakeQuotes
  \/ SubmitQuote
  \/ Capture

Spec == Init /\ [][Next]_vars

----------------------------------------------------------------------------
(* Properties *)

\* The quotes resting in the book are the active ones, one a side at most, and
\* none while the kill switch is on: whatever the market, the resets and the
\* refreshes did in between, no quote is left behind out of the strategy's
\* reach.
OnlyActiveQuotesRest ==
  Outside =>
    \A o \in Engine!Resting :
      o.participant_id = StrategyParticipant
        => o.id = (IF o.side = "Buy" THEN activeBid ELSE activeAsk) /\ ~killSwitch

\* Quotes are passive: none ever trades when it is submitted, neither with the
\* market, however the position skews it, nor with the other quote.
QuotesNeverTake == [][pc = "submitting" => UNCHANGED trades]_vars

\* What the strategy's fills come to since it was reset stays within the risk
\* limit, though each quote is only checked against the position at the time
\* and both may be filled, in parts and in any order, before the next check.
PositionWithinLimit == ~lost => Magnitude(exposure) <= MaximumPosition

\* Once the history has been processed, the tracked position is the sum of the
\* strategy's fills, each counted once: through partial fills, cancelled quotes,
\* a resetStrategy that uses its order ids again, and resetOrderBook, after
\* which the cursor may point anywhere into the new history.
InventoryExact == ~lost /\ processed = Len(trades) => position = exposure

\* fills.csv tells the same story as the position: whenever the bridge has seen
\* all fills, those it has written since resetStrategy come to the position,
\* none missing and none written twice.  A capture must come between a
\* resetStrategy and as many new fills as there were old ones, else nothing
\* tells the bridge that they are new.
EachFillWrittenOnce == ~unnoticed /\ cursor = Len(fills) => written = position
=============================================================================
