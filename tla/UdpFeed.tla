------------------------------ MODULE UdpFeed ------------------------------
(***************************************************************************)
(* The processing thread of include/udp_feed.hpp: processAvailable pops    *)
(* datagrams, has the RecoverySequencer put them in order, and pauses and  *)
(* resumes the market maker while events are missing.  The receiver thread *)
(* fills the queue between any two of its steps; so may, between two calls,*)
(* other users of the strategy set or lift its kill switch.                *)
(*                                                                         *)
(* The queue is the FifoQueue that SpscRingBuffer implements.  A tryPop    *)
(* that misses a value just published is one that ran before the push.     *)
(***************************************************************************)
EXTENDS Integers, Sequences

CONSTANTS
  FirstSequence, LastSequence, MaximumReorderDepth, MaxReceived, MaxMisses,
  MaxUndecodable,  \* bound of the model on datagrams that cannot be decoded
  QueueBound,      \* what NetworkQueue can hold
  Timestamp,       \* sequence number -> timestamp_ns of that event
  UpdateStrategy   \* update_strategy_

ASSUME SequencerAssumption ==
  /\ FirstSequence \in Nat /\ LastSequence \in Nat /\ MaximumReorderDepth \in Nat
  /\ 1 <= FirstSequence /\ FirstSequence <= LastSequence /\ 1 <= MaximumReorderDepth
  /\ MaxReceived \in Nat /\ MaxMisses \in Nat

ASSUME UdpFeedAssumption ==
  /\ MaxUndecodable \in Nat
  /\ QueueBound \in Nat \ {0}
  /\ Timestamp \in [1 .. LastSequence -> Nat]
  /\ UpdateStrategy \in BOOLEAN

VARIABLES
  expected, buffer, state, statistics,  \* the RecoverySequencer
  queue,             \* datagrams received: sequence numbers, or Undecodable
  pc,                \* how far processAvailable has got
  handled,           \* processedThisCall # 0
  decodeFailures,    \* statistics_.decode_failures
  current,           \* the event last passed to onEvent, 0 before the first
  lastTimestamp,     \* last_event_timestamp_
  telemetryActive,   \* telemetry_recovery_active_
  pauseActive,       \* recovery_pause_active_
  killSwitch,        \* the reason of the strategy's kill switch, "" when it is off
  lastMarketUpdate,  \* last_market_update_ns_ of the strategy
  quoting            \* the strategy may have quotes resting in the book

sequencerVars == <<expected, buffer, state, statistics>>
strategyVars == <<killSwitch, lastMarketUpdate, quoting>>
feedVars == <<sequencerVars, queue, pc, handled, decodeFailures, current,
              lastTimestamp, telemetryActive, pauseActive, strategyVars>>

Sequencer == INSTANCE RecoverySequencer

\* A datagram decodeEventRecord refuses.
Undecodable == 0

----------------------------------------------------------------------------
(* The strategy, as the processor uses it                                  *)

\* activateKillSwitch cancels the quotes.
Killed(reason) == killSwitch' = reason /\ quoting' = FALSE

\* Mutant: the last market update follows every event, a late one too.
LastTold(x, y) == x

\* onMarketUpdate does not go back in time.
Later(x, y) == IF x > y THEN x ELSE y

\* refreshQuotes cancels the quotes and, if the risk manager accepts the
\* market, may submit new ones.
Refreshes(switch, updated, timestamp) ==
  \E submitted \in BOOLEAN :
    quoting' = (submitted /\ switch = "" /\ updated # 0 /\ timestamp >= updated)

\* Events applied to the book may fill the quotes that rest in it.
MayFill == \E left \in BOOLEAN : quoting' = (quoting /\ left)

\* Mutant: the strategy is stopped and its quotes are left in the book.
PausedQuoting(reason) ==
  /\ killSwitch' = IF pauseActive THEN killSwitch ELSE reason
  /\ pauseActive' = TRUE
  /\ UNCHANGED quoting

\* pauseStrategy: a kill switch that is on already is not the processor's.
Paused(reason) ==
  IF pauseActive \/ killSwitch # ""
    THEN UNCHANGED <<pauseActive, killSwitch, quoting>>
    ELSE Killed(reason) /\ pauseActive' = TRUE

----------------------------------------------------------------------------
(* Receiver thread and other users of the strategy                         *)

\* The bounds of the model on what arrives.
Arrives(datagram) ==
  IF datagram = Undecodable
    THEN decodeFailures + Len(queue) < MaxUndecodable
    ELSE state = "Failed" \/ statistics.events_received + Len(queue) < MaxReceived

HasRoom == Len(queue) < QueueBound

\* Whatever the network delivers, in any order, any number of times; a
\* datagram that finds the queue full is dropped.
Receive(datagram) ==
  /\ Arrives(datagram)
  /\ HasRoom
  /\ queue' = Append(queue, datagram)
  /\ UNCHANGED <<sequencerVars, pc, handled, decodeFailures, current,
                 lastTimestamp, telemetryActive, pauseActive, strategyVars>>

StopStrategy ==
  /\ pc = "away"
  /\ Killed("operator")
  /\ UNCHANGED <<sequencerVars, queue, pc, handled, decodeFailures, current,
                 lastTimestamp, telemetryActive, pauseActive, lastMarketUpdate>>

AllowStrategy ==
  /\ pc = "away"
  /\ killSwitch' = ""
  /\ UNCHANGED <<sequencerVars, queue, pc, handled, decodeFailures, current,
                 lastTimestamp, telemetryActive, pauseActive, lastMarketUpdate, quoting>>

----------------------------------------------------------------------------
(* processAvailable                                                        *)

CallProcess ==
  /\ pc = "away"
  /\ pc' = "popping"
  /\ handled' = FALSE
  /\ UNCHANGED <<sequencerVars, queue, decodeFailures, current, lastTimestamp,
                 telemetryActive, pauseActive, strategyVars>>

PopUndecodable ==
  /\ pc = "popping"
  /\ queue # << >> /\ Head(queue) = Undecodable
  /\ queue' = Tail(queue)
  /\ handled' = TRUE
  /\ decodeFailures' = decodeFailures + 1
  /\ UNCHANGED <<sequencerVars, pc, current, lastTimestamp,
                 telemetryActive, pauseActive, strategyVars>>

\* onEvent answers false exactly when it leaves the feed failed.
PopEvent ==
  /\ pc = "popping"
  /\ queue # << >> /\ Head(queue) # Undecodable
  /\ queue' = Tail(queue)
  /\ handled' = TRUE
  /\ current' = Head(queue)
  /\ lastTimestamp' = Timestamp[Head(queue)]
  /\ IF state = "Failed"
       THEN UNCHANGED <<sequencerVars, quoting>>
       ELSE Sequencer!OnEvent(Head(queue)) /\ MayFill
  /\ pc' = "dispatching"
  /\ UNCHANGED <<decodeFailures, telemetryActive, pauseActive, killSwitch,
                 lastMarketUpdate>>

FeedFailed ==
  /\ pc = "dispatching"
  /\ state = "Failed"
  /\ Paused("feed")
  /\ telemetryActive' = FALSE
  /\ pc' = "popping"
  /\ UNCHANGED <<sequencerVars, queue, handled, decodeFailures, current,
                 lastTimestamp, lastMarketUpdate>>

FeedRecovering ==
  /\ pc = "dispatching"
  /\ state = "Recovering"
  /\ telemetryActive' = TRUE
  /\ Paused("feed")
  /\ pc' = "retrying"
  /\ UNCHANGED <<sequencerVars, queue, handled, decodeFailures, current,
                 lastTimestamp, lastMarketUpdate>>

FeedHealthy ==
  /\ pc = "dispatching"
  /\ state = "Healthy"
  /\ pc' = "publishing"
  /\ UNCHANGED <<sequencerVars, queue, handled, decodeFailures, current, lastTimestamp,
                 telemetryActive, pauseActive, strategyVars>>

Retry ==
  /\ pc = "retrying"
  /\ Sequencer!RetryRecovery
  /\ MayFill
  /\ pc' = "retried"
  /\ UNCHANGED <<queue, handled, decodeFailures, current, lastTimestamp,
                 telemetryActive, pauseActive, killSwitch, lastMarketUpdate>>

\* Where an iteration ends: the idle retry is made after the loop.
NextIteration == IF handled THEN "popping" ELSE "away"

\* Mutant: a failure leaves the recovery record open.
LeftOpen == telemetryActive

\* Mutant: a retry that has not completed recovery closes the record.
ClosedByMiss == FALSE

\* failRecoveryTelemetry, when the retry has failed.
ClosedByFailure == IF state = "Failed" THEN FALSE ELSE telemetryActive

Retried ==
  /\ pc = "retried"
  /\ telemetryActive' = ClosedByFailure
  /\ pc' = IF state = "Healthy" THEN "publishing" ELSE NextIteration
  /\ UNCHANGED <<sequencerVars, queue, handled, decodeFailures, current, lastTimestamp,
                 pauseActive, strategyVars>>

\* Mutant: the processor does not give its pause up.
StaysPaused == pauseActive

StillPaused == FALSE

\* Mutant: whoever set the kill switch, a healthy feed lifts it.
AlwaysLifted == ""

\* resumeStrategyIfNecessary: the processor lifts its own pause only.
SwitchAfterResume == IF pauseActive THEN "" ELSE killSwitch

\* A complete book: the recovery record is closed, the strategy resumes and,
\* unless the processor only rebuilds the book, quotes on it.
Publish ==
  /\ pc = "publishing"
  /\ telemetryActive' = FALSE
  /\ pauseActive' = StillPaused
  /\ killSwitch' = SwitchAfterResume
  /\ lastMarketUpdate' = IF pauseActive \/ UpdateStrategy
                           THEN Later(lastTimestamp, lastMarketUpdate)
                           ELSE lastMarketUpdate
  /\ IF UpdateStrategy
       THEN Refreshes(killSwitch', lastMarketUpdate', lastTimestamp)
       ELSE UNCHANGED quoting
  /\ pc' = NextIteration
  /\ UNCHANGED <<sequencerVars, queue, handled, decodeFailures, current, lastTimestamp>>

\* Mutant: the call returns and leaves recovery to the next event.
NoIdleRetry == FALSE

\* An empty call retries, once an event with a timestamp has been seen.
IdleRetryDue == ~handled /\ state = "Recovering" /\ lastTimestamp # 0

QueueEmpty ==
  /\ pc = "popping"
  /\ queue = << >>
  /\ IF IdleRetryDue
       THEN Paused("feed") /\ pc' = "retrying"
       ELSE pc' = "away" /\ UNCHANGED <<pauseActive, killSwitch, quoting>>
  /\ UNCHANGED <<sequencerVars, queue, handled, decodeFailures, current, lastTimestamp,
                 telemetryActive, lastMarketUpdate>>

----------------------------------------------------------------------------

FeedInit ==
  /\ Sequencer!Init
  /\ queue = << >>
  /\ pc = "away"
  /\ handled = FALSE
  /\ decodeFailures = 0
  /\ current = 0
  /\ lastTimestamp = 0
  /\ telemetryActive = FALSE
  /\ pauseActive = FALSE
  /\ killSwitch = ""
  /\ lastMarketUpdate = 0
  /\ quoting = FALSE

Process ==
  \/ CallProcess
  \/ PopUndecodable
  \/ PopEvent
  \/ FeedFailed
  \/ FeedRecovering
  \/ FeedHealthy
  \/ Retry
  \/ Retried
  \/ Publish
  \/ QueueEmpty

FeedNext ==
  \/ \E datagram \in {Undecodable} \cup 1 .. LastSequence : Receive(datagram)
  \/ StopStrategy
  \/ AllowStrategy
  \/ Process

FeedSpec == FeedInit /\ [][FeedNext]_feedVars

\* processAvailable is called again and again and each call runs on.
FairSpec == FeedSpec /\ WF_feedVars(Process)

----------------------------------------------------------------------------
(* Properties *)

\* The strategy never quotes on a book that misses events: from the moment a
\* gap has been noticed, before the first fetch, until the book is complete, and
\* for good once the feed has failed, no quote of it rests in the book, whatever
\* other users do to the kill switch in between.
NoQuotesOnIncompleteBook ==
  pc # "dispatching" /\ state # "Healthy" => ~quoting

\* After a late event the strategy has no quotes: a duplicate or the event that
\* completes a recovery may be older than what the strategy has been told, and
\* then it does not take the book for current.
QuotesAreCurrent ==
  [][UpdateStrategy /\ pc = "publishing" /\ pc' # pc /\ quoting'
       => lastTimestamp >= lastMarketUpdate]_feedVars

\* A stop that other users set on a strategy the feed had not paused stays
\* until they lift it, through any number of gaps and recoveries.
OperatorStopKept ==
  [][killSwitch = "operator" /\ ~pauseActive
       => AllowStrategy \/ (killSwitch' = "operator" /\ ~pauseActive')]_feedVars

\* Between two datagrams a recovery record is open exactly when the feed is
\* recovering: every gap_start gets its gap_end or its gap_failed.
RecoveryRecordsPaired ==
  pc \in {"away", "popping"} => (telemetryActive <=> state = "Recovering")

\* The event a gap_start is recorded with is ahead of the one expected, so the
\* size of the gap it reports is never the fallback of zero.
GapStartsAtAGap ==
  [][~telemetryActive /\ telemetryActive' => current > expected]_feedVars

\* Recovery does not wait for another event: a source that fails to answer
\* only so often lets a recovering feed recover, or find it cannot.
RecoveryEnds == state = "Recovering" ~> state # "Recovering"

\* A call that gets no datagram from the queue while the feed is recovering
\* retries before it returns.
EmptyCallRetries ==
  [][pc = "popping" /\ ~handled /\ state = "Recovering" => pc' # "away"]_feedVars

\* The feed gives back every pause it takes, or has failed.
StrategyResumes == pauseActive ~> (~pauseActive \/ state = "Failed")
=============================================================================
