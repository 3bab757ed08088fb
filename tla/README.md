# Verification of the electronic order book

TLA+ specifications of the simulator in `src/`: its matching engine, the
receiver thread, lock-free queue, sequencer and recovery client of its UDP
market-data feed, the market maker that quotes on the rebuilt book, its
profit-and-loss engine, and the recorded files it replays. TLC checks them on small instances; TLAPS proves the most
important results for every value of the constants. Paths below are relative
to `src/`.

## 1. The system

| component | code | state it keeps | operations |
|---|---|---|---|
| matching engine | `src/order_book.cpp`, `include/order_book.hpp`, `include/types.hpp` | `bids`, `asks` (price -> level: list of orders and a cached total), `orderIndex` (id -> side, price, list iterator), `tradeHistory`; all global | `addOrder`, `cancelOrder`, `modifyOrder`, `executeOrder`, `resetOrderBook`, best prices and snapshots |
| ring buffer | `include/spsc_ring_buffer.hpp` | slots, an index per thread (atomics) | `tryPush`, `tryPop`, `approximateSize` |
| recovery sequencer | `include/recovery.hpp` | expected number, reorder buffer, feed state, statistics | `onEvent`, `retryRecovery` |
| recovery sources | `include/recovery.hpp`, `src/binary_codec.cpp` | a map of events; or an address, and a socket while it fetches | `InMemoryRecoverySource::fetch`, `TcpRecoverySource::fetch` |
| UDP feed | `include/udp_feed.hpp` | receiver thread, its flag, socket and counters; in the processor: pause flag, last timestamp, telemetry flag | `UdpReceiver::start/stop/receiveLoop`, `processAvailable` |
| strategy | `include/market_maker_strategy.hpp`, `include/risk_management.hpp`, `src/risk_management.cpp` | active quotes, owned ids, next id, last update; kill switch; position and a cursor into the history | `onMarketUpdate`, `processTrades`, `refreshQuotes`, `cancelActiveQuotes`, kill switch, `resetStrategy` |
| P&L engine | `include/pnl_engine.hpp` | accounts, marks, cursor, statistics | `registerAccount`, `processNewTrades`, `processTrade`, marks, `reset`, report |
| event log | `include/binary_codec.hpp`, `src/binary_codec.cpp` | a file | `BinaryEventWriter::write`, `BinaryEventParser::parse`, record codec |
| replay | `include/replay_engine.hpp`, `src/replay_engine.cpp`, `src/market_event.cpp` | locals of `replay` | `replay`, `applyMarketEvent`, `validateMarketEvent` |
| telemetry | `include/analytics/simulation_telemetry_bridge.hpp`, `include/analytics/telemetry_recorder.hpp` | a cursor into the fills; CSV files | `capture` |
| LOBSTER loader | `src/lobster_loader.cpp` | locals: standing orders, events, counters | `loadLobsterMessageFile` |

Everything is one thread, except that `UdpReceiver::receiveLoop` has one of its
own; the two meet only in the ring buffer. The calls between components are
direct:

    UDP -> UdpReceiver =ring buffer=> UdpFeedProcessor -> RecoverySequencer -> RecoverySource -> TCP server
                                               |                      | applyMarketEvent
                                               v                      v
                                     MarketMakerStrategy  ------> matching engine <------ ReplayEngine
   telemetry <---- fills ----------- (risk, inventory)    quotes      | tradeHistory        ^
                                               ^                      v                     |
                                               +----- cursor ---- P&L engine    log file / LOBSTER file

What is hard, and where the properties aim (PROJECT.json lists the hazards line
by line):

* *interleaving*: producer and consumer of the ring under stale loads; stop,
  start and destruction of the receiver around its running thread; the receiver, and other users of the kill switch, between any two steps of the
  processor; the market between two calls of the strategy;
* *unreliable delivery*: lost, doubled, late and reordered datagrams, and the
  same events again from a recovery source that may miss, or a server that answers
  in pieces, with the wrong event, a damaged one, half of one or not at all;
* *partial failure*: an amendment made of a cancel and an add, a retry that gets
  part of a gap, a file that ends early, a row about an unknown order;
* *stale state*: totals, indices, iterators, cursors into a history or a list of
  fills that somebody else empties, timestamps older than the last update;
* *boundaries*: a full ring, the reorder window, wrapping totals, the largest
  sequence number, a time of 0, the skewed quote at the other side's price;
* *liveness*: recovery without a further datagram, pauses that must be given
  back, `stop` while no datagram comes, a fetch that has no timeout.

What makes each component correct: the engine keeps index, levels and totals
consistent and trades by price, then time; the ring is a FIFO queue without
data races, and has one producer however often the receiver is restarted; the
sequencer applies each event once, in order, and its state says whether any are
missing; the recovery client takes an event for the missing one only if it is,
and the book it helps to rebuild is the recorded one; the feed never lets the strategy quote on an incomplete
book and gives its pauses back; the strategy never loses a quote, takes
liquidity or passes its limit, and its position and the fills on file agree; the P&L accounts reconcile; a completed replay is
of the whole recording; a converted LOBSTER file gives the book it describes.

## 2. The modules

| module | models | built on |
|---|---|---|
| `MatchingSpec` | the abstract engine: a queue per side and price, a match as one step | |
| `OrderBook` | the engine as coded, `executeOrder` one loop iteration a step | |
| `OrderBookRefinement` | `OrderBook` implements `MatchingSpec` | `OrderBook`, `MatchingSpec` |
| `MatchingSpecProofs` | lemmas about sums and about what a match does | `MatchingSpec` |
| `OrderBookProofs` | theorems | `OrderBookRefinement`, `MatchingSpecProofs` |
| `FifoQueue` | the abstract queue | |
| `SpscRingBuffer` | the ring, one shared access a step | `FifoQueue` |
| `UdpReceiver` | the receiver thread and its owner around the ring | `SpscRingBuffer` |
| `RecoverySequencer` | the sequencer, one call a step | |
| `RecoverySequencerProofs` | theorems | `RecoverySequencer` |
| `BookEvents` | a market event applied to the abstract engine | `MatchingSpec` |
| `RecoveryFetch` | `TcpRecoverySource::fetch`, connection and server | |
| `RecoverySession` | a recording, a lossy feed, the sequencer loop by loop, the sources, the book | `BookEvents`, `RecoveryFetch`; implements `RecoverySequencer` |
| `RecoverySessionProofs` | theorems | `RecoverySession` |
| `UdpFeed` | the processing thread, composed with sequencer and queue | `RecoverySequencer` |
| `UdpProofs` | theorems about the ring, the receiver and the feed | `UdpReceiver`, `UdpFeed` |
| `MarketMaker` | strategy, risk, inventory and the telemetry of its fills, on a book others trade in | `MatchingSpec` |
| `MarketMakerProofs` | theorems | `MarketMaker`, `MatchingSpecProofs` |
| `PnlEngine` | accounts, positions, marks | |
| `PnlEngineProofs` | theorems | `PnlEngine` |
| `BinaryLog` | writer, disk, parser | |
| `ReplayEngine` | `replay` on the abstract engine | `BookEvents` |
| `RecordedReplay` | write, lose, parse, replay | `BinaryLog`, `ReplayEngine` |
| `LobsterLoader` | conversion of rows | |
| `LobsterReplay` | convert, replay | `LobsterLoader`, `ReplayEngine` |
| `ReplayProofs` | theorems about both replays | `RecordedReplay`, `LobsterReplay`, `MatchingSpecProofs` |

`MC*` modules and `.cfg` files give the constants their small values. The
detailed engine is shown to implement `MatchingSpec`, and the components that
use the engine are composed with `MatchingSpec` in its place; the feed uses the
plain queue that `SpscRingBuffer` implements. Operators whose comment begins
with *Mutant* are plausible mistakes, one for each property; none is used by a
specification, and each was confirmed to break its property.

### Correspondence

**`OrderBook`.** `book[side]` is `bids`/`asks`, a function whose domain is the
set of keys of the `std::map`; a level has its list as a sequence and
`total_quantity` with 64-bit wrap-around (`WrapAdd`, `WrapSub`, modulo
`TotalLimit`). `orderIndex` keeps side and price; the iterator is "the node of
that level with this id", and `IndexConsistent` says that it exists, once.
`executeOrder` is `StartExecute` (early return), `MatchStep` (one iteration: trade,
totals, erasures) and `FinishExecute` (rest of the quantity through `addOrder`);
`frame` is its stack frame. `modifyOrder` has the code's four ways out, its last
one cancel and add with the add's answer.

**`SpscRingBuffer`.** `PushAdmitted/PushStore/PushPublish` are the load and test,
the write of the slot and the release store of `tryPush`; `PopAdmitted/PopCopy/
PopRelease` those of `tryPop`. `staleReads`/`staleWrites` count the stores of the
other thread that the next acquire load may still miss, so a load returns any
value not older than the last one seen. Reads and writes of slots are not
atomic: a step that would overlap another on the same slot is what `NoSlotShared`
excludes.

**`UdpReceiver`.** `owner` follows `start` (flag, then thread), `stop` (flag, then
join) and the destructor (`stop`, then `closesocket`); `loop[t]` follows thread
`t` through `receiveLoop`, whose `tryPush` is `TryPush/FillSlot/PublishSlot` or
`TryPushFails`, steps of the ring. `handle` is `receiver_thread_`. The owner
calls `start` and `stop` from one thread: nothing in the class guards them against each
other, and the repository has no caller. `CreateFails` is the
constructor of `std::thread` throwing after the flag was set. There are more
names of threads than one so that a second one can appear, if it can.
`SelectTimeout` is the 100 ms of `select`, which is what lets a thread look at
its flag again.

**`RecoverySequencer`.** `expected`, `buffer`, `state`, `statistics` are the
members. An `onEvent` call is one of five actions by where the number lies;
`Drain` is the loop of `drainContiguousEvents` with `applyExpectedEvent`: it ends
at the first number that is not held, is refused by the book (a choice of the
environment) or has no successor. `RetryRecovery` chooses where the fetches end.

**`RecoveryFetch`.** `stage` is the socket call of `fetch` that is next, `left`
what `sendAll` or `receiveAll` has still to transfer. Each call transfers any
number of bytes there are, or fails; every early return is `GivesUp`. The server is
external: it answers that it has no such event or sends one of the records
given to `ServerAnswers`, in any portions, and may close at any moment.

**`RecoverySession`.** The code of `RecoverySequencer` again, one loop iteration a
step (`DrainOne`, `SkipHeld`, `TakeFetched`, `CountMiss`), this time with the
events themselves: `buffer` maps numbers to events, the source is one of the two
in the code, and events go to the book through `BookEvents`. As in the demo and
the benchmark of UDP recovery, the recording is first applied in full, which
gives `clean`, and the book is reset before the feed begins. `settled` is what
the members were when the last call returned; with it in their place the
session implements `RecoverySequencer`.

**`UdpFeed`.** `pc` follows `processAvailable`: popping, the branch on the feed's
state, the retry, its outcome, the publication of a healthy book, and the retry
of an empty call. `Paused` is `pauseStrategy`, `Publish` is
`finishRecoveryTelemetry`, `resumeStrategyIfNecessary` and
`updateStrategyAndAccounting`. `Receive` is the receiver thread and the network;
`StopStrategy` and `AllowStrategy` are the other users of the kill switch. The
strategy is reduced to its kill switch, last update and whether quotes of it may
rest.

**`MarketMaker`.** Each call the strategy makes of the engine is a step: cancel the
bid, cancel the ask, compute both quotes (`MakeQuotes`), submit one, submit the
other (`SubmitQuote`: risk check, then `ExecuteQuote`: `executeOrder`, and
`processTrades` with the activation, or the ownership taken back when the book refuses
the order). The book refuses a checked quote only for its symbol: nothing compares the
strategy's `symbol_id` (`StrategySymbol`) with the symbol of the book. The run has them
equal, so there the branch is not taken; the theorems cover both.
`owned` is the key set of `owned_order_sides_`, `fills` the inventory's list of fills,
as signed quantities. Halves of prices are doubled integers. `Capture` is
`recordNewFills` of the telemetry bridge with its `cursor`. `exposure` (the
strategy's fills by participant id, independent of `owned`), `lost`, `written`
(the quantities written to fills.csv) and `unnoticed` (the bridge has not run
since `resetStrategy`) are history variables.

**`PnlEngine`.** `Updated` is `updateAverageCostPosition` with its four cases,
`WithFill` is `applyFill`, `WithTrade` is `processTrade`. Prices are ratios in
lowest terms where the code has `long double`. The mark from the book is chosen
among the midpoints and one-sided prices a book may give.

**`BinaryLog`, `ReplayEngine`, `RecordedReplay`.** A file is the count in its
header and its records, each intact or not. `WriteFails` is a full disk or a
crash at any point, with any prefix of the records on the disk; `FileDecays` a
lost tail or a damaged record. `ParseResult` skips corrupt records and stops at
a missing one. The replay has an action for an event taken, one for the stop on a
sequence error and one for the end.

**`LobsterLoader`, `LobsterReplay`.** One action per kind of row; `Throws` is a
`std::runtime_error` that leaves the function with nothing converted. `FileAssumption`
says what files the two properties are about: no negative sizes, and submissions with an id, a size
and a price that are positive. The loader leaves those checks to
`validateMarketEvent`, which would refuse the event. A file has no more rows than
there are sequence numbers (2^64 - 1).

## 3. The runs

| run | asks | bounds | states |
|---|---|---|---|
| `order_book` | index, totals, types, refused calls, remainders | 3 ids, prices 0..2, quantities 0..2, totals mod 4, executions begin while the history is empty | 38 thousand |
| `order_book_refinement` | price-time priority | 3 ids, 2 prices, 2 quantities | 38 thousand |
| `udp_receiver` | races, phantom sizes, FIFO, restarts, counters, `stop` | 3 slots, 2 values, 2 threads, 5 datagrams, 1 socket error | 418 thousand |
| `recovery_session` | the rebuilt book, what a server can do, the sequencer refined | 3 recordings of 2 to 5 events, depth 3, 4 events received, 2 misses, requests and records of 2 bytes | 93 thousand |
| `recovery_sequencer` | window, accounting, retries | numbers 2..7 expected, 1..7 received, depth 3, 6 events, 2 misses | 11 thousand |
| `udp_feed` | quotes, late events, kill switch, records, liveness | 5 numbers, depth 2, 3 events, 1 undecodable datagram, 1 miss, queue of 1 | 343 thousand |
| `udp_feed_unstamped` | idle retry with timestamps 0 | as above | violation |
| `market_maker` | lost quotes, passivity, limit, inventory, fills on file | 4 market orders, ids 10..13, history and fills of up to 1 each before a market order executes, 2 times | 782 thousand |
| `pnl_engine` | reconciliation, counting | 2 accounts, 2 symbols, history of 3, 1 direct trade | 713 thousand |
| `recorded_replay` | whole replays | 8 recordings of up to 3 events, 2 faults | about 137,000 |
| `replay_largest_sequence` | duplicates at the largest number | as above | violation |
| `lobster_replay` | the rebuilt book | files of up to 5 rows of 11 kinds | about 750,000 |

Why the bounds are enough:

* Three orders make every shape of a level's queue (front, middle, back) and two
  levels a side; a taker can empty one order and reduce the next. Price 0 and
  quantity 0 are the refused ones. `TotalLimit = 4` lets two orders of 2 wrap a
  total; the refinement run uses 7, where none wraps, because a wrapped total
  makes the code refuse reductions that `MatchingSpec` allows. `MaxTrades = 1`
  bounds where an execution may *begin*: it runs on to its end. Ids are symmetric.
  The code reads its history only in the components that have a cursor.
* Three slots fill with two entries, and five datagrams go round the ring more than once.
  The proofs hold for any number. Staleness is not bounded by the
  configuration: the invariant bounds it. `stop` and `start` are not bounded.
* In `recovery_session` two bytes are enough for a transfer in pieces and for
  one cut short. The recordings have quantity ahead of an order, partial fills,
  an amendment that keeps its place, a cancel and a sweep, so that an event left out,
  doubled or moved changes the book; one event is refused already in the baseline.
  The source in memory lacks one event and has others twice. With 4 events received
  there may be two separate gaps, and a retry fetches up to three events. The
  longest recording ends at the largest number.
* A first number of 2 gives numbers older than the first. The window of 3 under 6
  numbers gives two separate gaps, an event just within it and one just beyond.
  The largest number ends the feed.
* In `udp_feed` a place in the queue is enough because the processor looks at the
  head only and the receiver can fill it between any two steps. Neighbouring
  numbers share a timestamp, a late event has an older one.
* In `market_maker` the market's four orders stand inside the quotes, hit them in part
  or in full, or cross; the position reaches 2 and -2, where the skew
  takes the bid below 1 or on to the best ask, and the limit of 3 refuses the next
  quote. `MaxTrades` and `MaxFills` bound where a market order may begin to
  execute; the strategy's own orders always may. `VIEW` leaves out what no step and no property reads: the answer of the
  engine's last call, of a trade everything but the strategy's part, and of the
  fills everything but their number and what is still to be written.
* In `recorded_replay` every replay resets the book first; without the reset the
  history grows from replay to replay. The recordings include a missing number,
  a duplicate, a wrong order, an invalid event and an event the book refuses.
* `CHECK_DEADLOCK FALSE` stands where the bounds end the behaviours:
  `recovery_sequencer`, `recovery_session` (which also ends where the baseline is
  refused), `udp_receiver` (a destroyed receiver), `udp_feed` and
  `lobster_replay` (a file is read once).

**Fairness.** `UdpReceiver` assumes that each thread takes its next step and that
a join or a `closesocket` that can go on does; not that the owner ever calls, a datagram ever
comes or the queue is ever read. `RecoverySession` assumes that the processing thread
goes on, that is, that socket calls which can return do; nothing is assumed of
the server or the connection. `UdpFeed` assumes weak fairness of the processing thread's next step only, as the callers
poll `processAvailable` in a loop; nothing is assumed of the receiver or of other
users. Sources that miss for ever, and datagrams that cannot be decoded without
end, are excluded by `MaxMisses` and `MaxUndecodable`: with either, recovery
does not end in the code.

## 4. What the properties say

* `TypeOK` of `OrderBook`: beyond types, no reduction takes an order's quantity below 0,
  where the code's unsigned subtraction would wrap.
* `IndexConsistent`, `TotalsExact`: the conditions of `checkBookInvariants`
  (`src/validation.cpp`) in every state, also between two iterations of the loop.
* `RejectionsChangeNothing`: no operation is half done when it answers false.
* `RemainderNeverCrosses`: also on a book that `addOrder` has crossed.
* `KeepsPriceTimePriority`: the engine implements the abstract one. While it
  loops, the abstract engine is where the call found it (history variables
  `bookBefore`, `tradesBefore`), and the whole match is the step that returns.
* `NoSlotShared`, `SizeNeverPhantom`, `DeliversInOrder`: the ring is a race-free FIFO.
* `OneReceiver`, `PacketsAccounted`, `StopReturns`: restarts never make a second
  producer or leave a thread on a closed socket, every datagram is counted once and is where
  the counters say, and `stop` and the destructor return.
* `HeldWithinWindow`, `StateMatchesBuffer`, `EveryEventAccounted`,
  `HeldUntilApplied`, `RetryRepairs`: no event is lost,
  counted twice or forgotten; recovery is as good as its source.
* `RecoveredBookIsClean`: after every event, inside a recovery too, the book and its trades
  are those of the recording applied in order. `HeldEventsAreGenuine`: whatever
  the server sends, what is held under a number is the event recorded with it.
  `FetchEndsInOrder`: every way out of `fetch` closes its socket,
  and it answers nothing only for a reason. `ImplementsSequencer`: the loops do what
  `RecoverySequencer` says in one step. `OnlyTheServerHangs`: a retry can fail to
  return for one reason only, a server that was asked and says nothing more.
* `QuotesAreCurrent`: after a duplicate, or a recovery completed by a late event, the
  strategy does not quote on a book it has been told newer things of.
* `NoQuotesOnIncompleteBook`, `OperatorStopKept`, `RecoveryRecordsPaired`,
  `GapStartsAtAGap`, `RecoveryEnds`, `StrategyResumes`: safety and return of
  the pause.
* `OnlyActiveQuotesRest`, `QuotesNeverTake`, `PositionWithinLimit`, `InventoryExact`.
* `EachFillWrittenOnce`: the fills on file come to the position, if a capture was made
  soon enough after each `resetStrategy` for the bridge to see it.
* `EquityReconciles`, `EachTradeCountedOnce`.
* `CompletedReplayIsWhole`; `NothingRejected`, `BookHoldsWhatStands`.

### Disagreements found

* `udp_feed_unstamped`: `processAvailable` announces a retry for calls that get no
  datagram while recovering (`include/udp_feed.hpp:430`), but makes none
  when the last event's timestamp is 0 (line 438), which the decoder accepts.
* `replay_largest_sequence`: after the event with the largest sequence number the
  replay takes a duplicate of it as in sequence (`include/replay_engine.hpp:276`).

## 5. What is proved

All constants are arbitrary, under the assumptions named in the modules
(`ConstantsAssumption`, `CapacityAssumption`, `SequenceAssumption`,
`DepthAssumption`, `BoundsAssumption`, `UdpFeedAssumption`, `ReceiverAssumption`,
`SequencerAssumption`, `FetchAssumption`, `RecordingsAssumption`, `FaultsAssumption`,
`BatchesAssumption`, `ReplayAssumption`, `ConfigAssumption`, `MarketAssumption`,
`PnlAssumption`, `TradesAssumption`, `FileAssumption`): widths and
limits are natural numbers, the ring has at least two slots, the window is not 0, a request
and a record have bytes, a recording is numbered in sequence, a batch is a sequence of
events, the strategy's quantity, spread and tick are positive and its limit is a natural number, prices have a
greatest one, the others' orders have neither the strategy's ids nor its name, the
book's trades are valid and of its own symbol, which no valid trade booked by hand is, and
the rows of a LOBSTER file are as said in section 2.

* **`MatchingSpecProofs`**: what the operators of the abstract engine do, on any book whose
  queues are typed and whose ids are unique (`GoodBook`): which orders rest after an
  addition, a cancellation, an amendment or a match, and how the quantities that rest add up.
  Sums over finite sets are handled by induction from the well-foundedness of the natural
  numbers (`WFMin` on the set of counterexamples), without an operator parameter.
  `MatchingSpec` defines a match at once, by the quantity ahead of each order in priority;
  `FillAndRest` shows that it can be made fill by fill: the trades are the
  first fill of the oldest order at the best price, followed by the trades of what is left
  of the order on the queues that fill leaves.
* **`OrderBookProofs`**: `TypeOK`, `IndexConsistent`, `RejectionsChangeNothing`,
  `RemainderNeverCrosses`, `TotalsExact`, `KeepsPriceTimePriority`. The invariant `IInv`
  adds to the first two that only the one symbol ever rests, that the order in the frame is
  one that passed the checks and is not in the index, and that no more of it is left than
  the call was made with: without these the final `addOrder` might refuse the
  remainder after trades were made, and `RejectionsChangeNothing` would not follow.
  `Good(b, index)` states the first part of any book and index, so that it can be
  carried through the intermediate book of `modifyOrder`. Lemmas show that
  appending, removing a position and resizing keep it; the operations
  follow from those. `BestPrice` needs that a non-empty set of bounded integers
  has a least element.

  `TotalsExact` is inductive once `IInv` is there (`TotalsInv`). Each update of the code
  adds or subtracts one quantity modulo `TotalLimit`, and the true sum changes by just that;
  only the reduction in place subtracts without the wrap, which is right because the code
  has compared the two first.

  `KeepsPriceTimePriority` is a refinement in which a call of many steps is one step
  above. `Queues(b)` reads a book as the queues of `MatchingSpec`; adding, taking out,
  resizing, re-adding and filling the front are each the operation of that name on the queues.
  `HInv` says of a call inside the loop that the trades of the whole match, begun on the book
  remembered, are those made so far followed by those of the match that is left,
  begun on the book as it is (`Halfway`). An iteration keeps this by `FillAndRest`; when the
  loop is over nothing is left to match, and the trades made are the trades asked for.
  The theorem (`PriceTimePriority`) has one hypothesis, `NoTotalWraps`: the
  orders of a level add up to less than `TotalLimit`. It is needed, since `modifyOrder`
  refuses a reduction that is larger than the cached total, and it can only fail with
  2^32 + 2 orders or more at one price, quantities being of 32 bits and totals of 64.
* **`UdpProofs`**, the ring: the invariant has the index arithmetic with each
  thread's staleness bounded by what the other has yet to see (`Views`), and what
  the slots in progress hold (`Payload`). From it: types, no data race, sizes,
  and the refinement of `FifoQueue` (`StepMaps`, `InitMaps`, `RingIsFifo`): the
  slots between the indices, as a sequence, grow at `PushPublish` and shrink
  at `PopCopy`.
* **`UdpProofs`**, the receiver: `ThreadsOwned` says that the one thread is the one in
  `handle`, and that before it is made nobody else is there; with it every step of the
  receiver is a step of the ring (`ReceiverUsesRing`), so the theorems
  about the ring hold here. `Counted` states `PacketsAccounted` by where the one
  thread is, without cardinalities, and needs the ring's invariant for what a store of an
  index does to the length.
* **`RecoverySequencerProofs`**: the conjunction of the run's invariants with the
  bound on the peak depth is inductive; the work is in counting what `Drain`
  takes out of the buffer. The action properties follow from it, and so does
  `PeakIsTrue`, that the peak is a depth the buffer really had.
* **`RecoverySessionProofs`**: `FetchInv` follows the socket and the answer through `fetch`.
  `HeldEventsAreGenuine` needs where an event comes from all along its way:
  what the server sends intact is of the recording (`PeerInv`), what a fetch
  or the source in memory returns is the recorded event with the number asked for,
  and only such events are put into the buffer (`HeldInv`). The argument uses the
  checksum and the comparison of the number, each where the code makes it.
  `ImplementsSequencer` is a refinement in which a call of many steps is one step above:
  `settled` is the sequencer as the last finished call left it, and `CallInv` says at each
  iteration of the two loops what the call has done since. `FetchingInv`: the numbers
  below some `reach` have been fetched, `reach` may be being asked for. `DrainingInv`: the
  buffer is what was handed over (`Handed`) less what was applied (`Drained`). The step that
  ends a call then adds up to one of `RecoverySequencer`, whose own invariant is used there.
  `RecoveredBookIsClean` follows from both: the number expected says how many events
  were applied, the one applied next is the recorded one, and `Accepts` and `Result` give
  the same answer from the same book (`CleanInv`).
* **`UdpProofs`**, the feed: `NoQuotesOnIncompleteBook` needs that the strategy is stopped
  whenever the feed is not healthy outside the branch on its state;
  `RecoveryRecordsPaired` needs what the flag is at each `pc`. Neither needs the
  types nor the bounds. `QuotesAreCurrent` needs the types only (`TimesInv`): the check that
  compares the two times does the rest. `GapStartsAtAGap` needs that a healthy feed holds nothing and that
  an event under way which has just begun a recovery was ahead of what was expected
  (`GapInv`). The feed, with its queue and kill switch hidden, is the sequencer
  (`FeedDrivesTheSequencer`).
* **`ReplayProofs`**, a recorded log: `CompletedReplayIsWhole` from `WholeInv`, with one part for
  each stretch an event travels: the records in the file are a prefix of those written,
  or marked damaged (`FileMatches`); the batch under way continues the file
  (`WriteContinues`); a parse that succeeds has read just the source (`ParseInv`);
  what the replay has taken and what it has still to look at are together the source
  (`ReplayInv`).
* **`ReplayProofs`**, a LOBSTER file: `NothingRejected` and `BookHoldsWhatStands`, for any
  rows, any length of the file and any options of the replay. The properties compare
  the book at the end of the replay with the file, and nothing relates the two while the file is
  being read: the events do, in order. So the invariant (`LobsterInv`) says that there is a
  history of *ledgers*, one after each event (`HistoryOf`). A ledger has the orders that
  stand, each with the row that submitted it, and each event adds an order that does not
  stand, cancels one that does, or reduces one by less than it has (`Follows`). The last ledger
  is what stands in the rows read (`LedgerOf`) and, but for the rows, the loader's map of
  orders (`ActiveOf`); the ledger of the last event applied is what the book holds, each level
  in the order of the rows (`BookIs`). `LoaderKeeps` is the first half: a row changes
  what stands in the file just as it changes the map, which needs sums of
  the rows about an order. The other half takes from `MatchingSpecProofs` what an addition, a
  cancellation and an amendment do to the resting orders; a ledger always permits its
  next event, so the book does not refuse it.
* **`MarketMakerProofs`**: the safety of the strategy, five properties of the run, for any
  configuration, any market orders and any number of them. The inductive invariant is
  `IInv`: types (`TypeInv`); a resting order is the strategy's just when its id is among those it owns (`OwnersInv`); a quote that has been made and not submitted has a new id and
  crosses nothing (`QuotesInv`); which of its orders may
  rest at each point of `requote` (`OwnInv`); position, fills noted and fills written make
  up the same total (`LedgerInv`); the exposure is the position and the trades not yet
  processed (`SyncInv`); and the exposure stays within the limit whichever resting quote is filled
  (`LimitInv`), which carries the check made at the quote over to the fill. A market
  order's match is one step with any number of fills, so the proof needs what `MatchingSpec`
  does to *sums*: the quantity a participant has resting falls by just what its trades
  report. These facts come from `MatchingSpecProofs`, instantiated as `M` with the constants
  `MarketMaker` gives its `Engine`; the lemmas `SameResting`, `SameFills`, `SameExecute` and
  their like state that the operators of the two instances are the same.
* **`PnlEngineProofs`**: `EquityReconciles` and `EachTradeCountedOnce`, for any trades. The
  arithmetic comes first: a ratio has one form in lowest terms (`LowestExists`, from
  the least denominator; `RatioIsLowest`, that `Ratio` finds it), so ratios of
  the same value are equal and `Plus` and `Times` obey the laws of numbers (`PlusAssociates`,
  `TimesOfPlus`, `TimesOfOver`). Sums over the symbols do not depend on the order
  of their terms (`SumTakes`), by induction over subsets (`SubsetInduction`). Then `UpdatedKeeps`: an
  extension, a partial close, a full close and a change of sign all move the
  *book value* of a position, what it realised less what it cost at its average, by exactly what the
  fill costs in cash. So every account stays `Balanced`: its cash is its initial cash and
  the book values of its positions. `EquityReconciles` speaks of marks and
  averages and is not inductive; it follows from `Balanced` for whatever marks there are (`ValueIs`).
  For `EachTradeCountedOnce` the invariant `Accounting` adds that the cursor is within a history
  that was not erased under it: without that the trades still to come would be
  counted already. `FoldKeeps` runs over the unprocessed trades, `NetSplits` puts their net and
  that of the processed ones together.

Only model-checked: liveness (`RecoveryEnds`, `StrategyResumes`, `StopReturns` and
`OnlyTheServerHangs`), which under fairness is beyond the prover. Every invariant that a passing
run checks is stated by a theorem.

## 6. Not modelled

* The recovery server is not in the repository: the model's keeps the recording, so it does not send an intact record of
  an event that was never recorded under the number asked for, which the client could not tell.
* `UdpProcessingStatistics` but for what decides something, and
  `UdpReceiver::statistics()`, whose five loads belong to different moments:
  no relation between the counters a caller gets is promised.
* Telemetry samples (state, depth, quotes, latency) and CSV files, snapshots, printing, reports, Winsock start-up,
  demos, benchmarks, analysis scripts: no state that the rest depends on.
* Byte layout and checksums of records: an intact record decodes to its event, a
  damaged one is refused, which a 32-bit checksum does only nearly always.
* Rounding and range checks of `long double` values; overflow guards of prices.
* A loss at the end of the stream, which the protocol cannot notice; and the
  counters listed in the hazards that promise nothing checkable.

## 7. Plan

The order was: the engine and its abstraction; the ring; the sequencer; their
composition in the feed; the users of the engine; the files; then the receiver
around the ring, the recovery client and session, the telemetry of fills. What is left:

* `UdpFeed` and `MarketMaker` composed on one book, to see when the strategy's own
  trades make the rebuilt book differ from the source's.
* The range checks of prices and positions with a width.
