------------------------- MODULE RecoverySequencer -------------------------
(***************************************************************************)
(* Putting a lossy, duplicating, reordering feed back in sequence          *)
(* (include/recovery.hpp).  Events are known by their sequence numbers.    *)
(* The processing thread is the only caller, so each call is one step; the *)
(* network is whoever chooses the argument of onEvent, and the recovery    *)
(* source whoever chooses how far retryRecovery gets.                      *)
(***************************************************************************)
EXTENDS Integers, FiniteSets, FiniteSetsExt

CONSTANTS
  FirstSequence,         \* expectedFirstSequence
  LastSequence,          \* the largest std::uint64_t
  MaximumReorderDepth,   \* maximumReorderDepth
  MaxReceived,           \* bound of the model on events received
  MaxMisses              \* bound of the model on fetches that find nothing

ASSUME SequenceAssumption ==
  /\ FirstSequence \in Nat /\ LastSequence \in Nat
  /\ 1 <= FirstSequence /\ FirstSequence <= LastSequence

ASSUME DepthAssumption == MaximumReorderDepth \in Nat /\ MaximumReorderDepth >= 1

ASSUME BoundsAssumption == MaxReceived \in Nat /\ MaxMisses \in Nat

VARIABLES
  expected,     \* expected_sequence_
  buffer,       \* the keys of reorder_buffer_
  state,        \* state_
  statistics    \* statistics_

vars == <<expected, buffer, state, statistics>>

Sequences == 1 .. LastSequence

\* updateMaximumBufferDepth.
NotingDepth(stats, depth) ==
  [stats EXCEPT !.maximum_buffer_depth = IF depth > @ THEN depth ELSE @]

----------------------------------------------------------------------------
(* Applying what is in sequence                                            *)

\* Mutant: what was applied is not erased from the buffer.
NothingErased(held, stop) == held

\* Mutant: draining clears the buffer.
EverythingErased(held, stop) == {}

\* What is left once stop, and all before it, have been taken out.
HeldAfter(held, stop) == {s \in held : s > stop}

\* Mutant: the buffer is not looked at, one event in sequence ends recovery.
AlwaysHealthy(held) == "Healthy"

FeedStateFor(held) == IF held = {} THEN "Healthy" ELSE "Recovering"

Counting(stats, applied, rejected) ==
  [stats EXCEPT !.events_applied = @ + applied,
                !.application_rejections = @ + rejected]

\* Applies the events held, from the expected one on, up to the first that is
\* not held or that the book refuses.  Applying the last number there is fails
\* the feed: there is no number to expect next.
Drain(held, counted) ==
  \E stop \in expected .. LastSequence + 1 :
    /\ expected .. stop - 1 \subseteq held
    /\ LET refused   == stop \in held
           exhausted == stop > LastSequence
       IN  /\ expected' = IF exhausted THEN LastSequence ELSE stop
           /\ buffer' = HeldAfter(held, stop)
           /\ state' = IF refused \/ exhausted
                       THEN "Failed"
                       ELSE FeedStateFor(HeldAfter(held, stop))
           /\ statistics' = Counting(counted, stop - expected, IF refused THEN 1 ELSE 0)

----------------------------------------------------------------------------
(* onEvent                                                                 *)

Received == [statistics EXCEPT !.events_received = @ + 1]

ReceivedDuplicate == [Received EXCEPT !.duplicates_ignored = @ + 1]

ReceivedAhead ==
  [Received EXCEPT !.out_of_order_events = @ + 1, !.gaps_detected = @ + 1]

\* A failed feed ignores every event without counting it.
Listening == state # "Failed" /\ statistics.events_received < MaxReceived

OldEvent(sequence) ==
  /\ Listening
  /\ sequence < expected
  /\ statistics' = ReceivedDuplicate
  /\ UNCHANGED <<expected, buffer, state>>

ExpectedEvent(sequence) ==
  /\ Listening
  /\ sequence = expected
  /\ Drain(buffer \cup {sequence}, Received)

\* Mutant: the distance is compared the wrong side of the limit.
BeyondByOne(sequence) == sequence - expected > MaximumReorderDepth + 1

BeyondWindow(sequence) == sequence - expected > MaximumReorderDepth

TooFarAhead(sequence) ==
  /\ Listening
  /\ sequence > expected
  /\ BeyondWindow(sequence)
  /\ statistics' = [ReceivedAhead EXCEPT !.reorder_buffer_overflows = @ + 1]
  /\ state' = "Failed"
  /\ UNCHANGED <<expected, buffer>>

\* Mutant: a second copy of a held event is taken for a new one.
NeverHeld(sequence) == FALSE

AlreadyHeld(sequence) == sequence \in buffer

HeldEvent(sequence) ==
  /\ Listening
  /\ sequence > expected
  /\ ~BeyondWindow(sequence)
  /\ AlreadyHeld(sequence)
  /\ statistics' = [ReceivedAhead EXCEPT !.duplicates_ignored = @ + 1]
  /\ UNCHANGED <<expected, buffer, state>>

EarlyEvent(sequence) ==
  /\ Listening
  /\ sequence > expected
  /\ ~BeyondWindow(sequence)
  /\ ~AlreadyHeld(sequence)
  /\ buffer' = buffer \cup {sequence}
  /\ statistics' = NotingDepth(ReceivedAhead, Cardinality(buffer'))
  /\ state' = "Recovering"
  /\ UNCHANGED expected

OnEvent(sequence) ==
  \/ OldEvent(sequence)
  \/ ExpectedEvent(sequence)
  \/ TooFarAhead(sequence)
  \/ HeldEvent(sequence)
  \/ EarlyEvent(sequence)

----------------------------------------------------------------------------
(* retryRecovery                                                           *)

\* Mutant: the first event held ends the fetches.
FirstHeld(held) == expected .. Min(held)

\* Where the fetches may end: at one that finds nothing, or at the highest.
Reach(held) == {s \in expected .. Max(held) : s \notin held \/ s = Max(held)}

\* Every number missing below reach is fetched; reach itself, unless it is the
\* highest event held, is the one fetch that found nothing.
RetryRecovery ==
  /\ state # "Failed"
  /\ buffer # {}
  /\ \E reach \in Reach(buffer) :
       LET fetched == (expected .. reach - 1) \ buffer
           missed  == reach \notin buffer
           counted == [statistics EXCEPT
                         !.events_recovered = @ + Cardinality(fetched),
                         !.recovery_misses = IF missed THEN @ + 1 ELSE @]
       IN  /\ missed => statistics.recovery_misses < MaxMisses
           /\ Drain(buffer \cup fetched,
                    NotingDepth(counted, Cardinality(buffer \cup fetched)))

----------------------------------------------------------------------------

Init ==
  /\ expected = FirstSequence
  /\ buffer = {}
  /\ state = "Healthy"
  /\ statistics = [events_received |-> 0, events_applied |-> 0,
                   gaps_detected |-> 0, out_of_order_events |-> 0,
                   duplicates_ignored |-> 0,
                   events_recovered |-> 0, recovery_misses |-> 0,
                   application_rejections |-> 0, reorder_buffer_overflows |-> 0,
                   maximum_buffer_depth |-> 0]

Next == (\E sequence \in Sequences : OnEvent(sequence)) \/ RetryRecovery

Spec == Init /\ [][Next]_vars

----------------------------------------------------------------------------
(* Properties *)

TypeOK ==
  /\ expected \in FirstSequence .. LastSequence
  /\ buffer \subseteq Sequences
  /\ state \in {"Healthy", "Recovering", "Failed"}
  /\ statistics \in [events_received : Nat, events_applied : Nat,
                     gaps_detected : Nat, out_of_order_events : Nat,
                     duplicates_ignored : Nat,
                     events_recovered : Nat, recovery_misses : Nat,
                     application_rejections : Nat, reorder_buffer_overflows : Nat,
                     maximum_buffer_depth : 0 .. MaximumReorderDepth + 1]

\* What is held is ahead of the expected number and within the window, in a
\* failed feed as well: nothing applicable is left waiting.
HeldWithinWindow ==
  buffer \subseteq expected + 1 .. expected + MaximumReorderDepth

\* The state the strategy is paused by says whether events are missing.
StateMatchesBuffer ==
  /\ state = "Healthy" => buffer = {}
  /\ state = "Recovering" => buffer # {}

\* Every event received or recovered is applied, or counted as a duplicate, or
\* still held, or the one that failed the feed.
EveryEventAccounted ==
  statistics.events_received + statistics.events_recovered
    = statistics.events_applied + statistics.duplicates_ignored + Cardinality(buffer)
      + statistics.application_rejections + statistics.reorder_buffer_overflows

\* While the feed has not failed, an event held stays held until it is applied.
HeldUntilApplied ==
  [][state' # "Failed" => \A s \in buffer : s \in buffer' \/ s < expected']_vars

\* A retry every fetch of which is answered ends the recovery, however many
\* separate gaps there are.
RetryRepairs ==
  [][RetryRecovery /\ statistics'.recovery_misses = statistics.recovery_misses
       => state' # "Recovering"]_vars
=============================================================================
