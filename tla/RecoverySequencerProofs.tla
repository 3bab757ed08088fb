---------------------- MODULE RecoverySequencerProofs ----------------------
(***************************************************************************)
(* Proofs about RecoverySequencer, for any first and last sequence number, *)
(* any window, and any number of events received and fetches missed.       *)
(***************************************************************************)
EXTENDS RecoverySequencer, FiniteSetTheorems, TLAPS

Statistics ==
  [events_received : Nat, events_applied : Nat,
   gaps_detected : Nat, out_of_order_events : Nat,
   duplicates_ignored : Nat,
   events_recovered : Nat, recovery_misses : Nat,
   application_rejections : Nat, reorder_buffer_overflows : Nat,
   maximum_buffer_depth : Nat]

States == {"Healthy", "Recovering", "Failed"}

Window == MaximumReorderDepth

Typed ==
  /\ expected \in FirstSequence .. LastSequence
  /\ buffer \subseteq Sequences
  /\ state \in States
  /\ statistics \in Statistics

PeakBounded == statistics.maximum_buffer_depth <= Window + 1

IInv == Typed /\ PeakBounded /\ HeldWithinWindow /\ StateMatchesBuffer /\ EveryEventAccounted

----------------------------------------------------------------------------
(* Sets of sequence numbers                                                *)

LEMMA ConstantFacts ==
  /\ FirstSequence \in Nat /\ LastSequence \in Nat /\ Window \in Nat
  /\ 1 <= FirstSequence /\ FirstSequence <= LastSequence /\ 1 <= Window
  BY SequenceAssumption, DepthAssumption DEF Window

LEMMA LargestExists ==
  ASSUME NEW S, NEW a \in Int, NEW b \in Int, S \subseteq a .. b, S # {}
  PROVE  Max(S) \in S /\ \A x \in S : x <= Max(S)
<1>. DEFINE T == {b - x : x \in S}
<1>1. /\ T \subseteq Nat /\ T # {}
      /\ \A x \in S : b - x \in T
      /\ \A t \in T : \E x \in S : t = b - x
  <2>1. \A x \in S : b - x \in Nat
    OBVIOUS
  <2>2. T \subseteq Nat
    BY <2>1, Zenon
  <2>3. T # {}
    BY Zenon
  <2>4. (\A x \in S : b - x \in T) /\ (\A t \in T : \E x \in S : t = b - x)
    BY Zenon
  <2>. QED  BY <2>2, <2>3, <2>4
<1>. HIDE DEF T
<1>2. PICK t \in T : \A u \in T : <<u, t>> \notin OpToRel(<, Nat)
  BY <1>1, NatLessThanWellFounded, WFMin, Zenon
<1>3. \A u \in T : ~(u < t)
  BY <1>1, <1>2, Zenon DEF OpToRel
<1>4. PICK x \in S : t = b - x
  BY <1>1
<1>5. \A y \in S : x >= y
  <2>. TAKE y \in S
  <2>1. b - y \in T /\ x \in Int /\ y \in Int
    BY <1>1
  <2>2. ~(b - y < b - x)
    BY <2>1, <1>3, <1>4
  <2>. QED  BY <2>1, <2>2
<1>6. Max(S) \in S /\ \A y \in S : Max(S) >= y
  BY <1>5, Zenon DEF Max
<1>7. \A y \in S : y \in Int
  OBVIOUS
<1>. QED  BY <1>6, <1>7

LEMMA WithinInterval ==
  ASSUME NEW S, NEW a \in Int, NEW n \in Nat, S \subseteq a .. a + n
  PROVE  /\ IsFiniteSet(S)
         /\ Cardinality(S) \in Nat
         /\ Cardinality(S) <= n + 1
<1>1. IsFiniteSet(a .. a + n) /\ Cardinality(a .. a + n) = n + 1
  <2>. DEFINE b == a + n
  <2>1. b \in Int /\ b - a + 1 = n + 1 /\ ~(a > b)
    OBVIOUS
  <2>. HIDE DEF b
  <2>2. IsFiniteSet(a .. b) /\ Cardinality(a .. b) = b - a + 1
    BY <2>1, FS_Interval
  <2>. QED  BY <2>1, <2>2 DEF b
<1>2. IsFiniteSet(S) /\ Cardinality(S) <= Cardinality(a .. a + n)
  BY <1>1, FS_Subset
<1>. QED  BY <1>1, <1>2, FS_CardinalityType

LEMMA WithinWindow ==
  ASSUME NEW S, NEW a \in Int, NEW n \in Nat, S \subseteq a + 1 .. a + n
  PROVE  S \subseteq a .. a + n /\ IsFiniteSet(S) /\ Cardinality(S) \in Nat
<1>1. S \subseteq a .. a + n
  OBVIOUS
<1>. QED  BY <1>1, WithinInterval

\* Everything in S is a number from a on, and S has all of those below stop.
StartsWithRun(S, a, stop) ==
  /\ IsFiniteSet(S)
  /\ a \in Int /\ stop \in Int /\ a <= stop
  /\ a .. stop - 1 \subseteq S
  /\ \A s \in S : s \in Int /\ a <= s

\* Draining takes out the numbers before stop, and stop if it is held.
LEMMA DrainedCount ==
  ASSUME NEW S, NEW a, NEW stop, StartsWithRun(S, a, stop)
  PROVE  /\ Cardinality(HeldAfter(S, stop)) \in Nat
         /\ Cardinality(S) = (stop - a) + Cardinality(HeldAfter(S, stop))
                               + (IF stop \in S THEN 1 ELSE 0)
<1>. DEFINE R == HeldAfter(S, stop)
            run == a .. stop - 1
<1>. USE DEF StartsWithRun
<1>1. IsFiniteSet(R) /\ Cardinality(R) \in Nat
  BY FS_Subset, FS_CardinalityType DEF HeldAfter
<1>2. IsFiniteSet(run) /\ Cardinality(run) = stop - a
  <2>. DEFINE last == stop - 1
  <2>1. last \in Int /\ (IF a > last THEN 0 ELSE last - a + 1) = stop - a
    OBVIOUS
  <2>. HIDE DEF last
  <2>2. IsFiniteSet(a .. last) /\ Cardinality(a .. last) = stop - a
    BY <2>1, FS_Interval
  <2>. QED  BY <2>2 DEF last
<1>3. run \cap R = {} /\ S \ {stop} = run \cup R
  BY DEF HeldAfter
<1>. HIDE DEF R, run
<1>4. Cardinality(run \cup R) = Cardinality(run) + Cardinality(R)
  <2>1. Cardinality(run \cup R) = Cardinality(run) + Cardinality(R) - Cardinality({})
    BY <1>1, <1>2, <1>3, FS_Union
  <2>. QED  BY <2>1, <1>1, <1>2, FS_EmptySet
<1>5. Cardinality(S \ {stop}) = IF stop \in S THEN Cardinality(S) - 1 ELSE Cardinality(S)
  BY FS_RemoveElement
<1>6. Cardinality(S) \in Nat
  BY FS_CardinalityType
<1>7. Cardinality(S \ {stop}) = (stop - a) + Cardinality(R)
  BY <1>2, <1>3, <1>4
<1>. DEFINE c == Cardinality(S)
            r == Cardinality(R)
            d == Cardinality(S \ {stop})
<1>8. /\ c \in Nat /\ r \in Nat /\ d = (stop - a) + r
      /\ d = IF stop \in S THEN c - 1 ELSE c
  BY <1>1, <1>5, <1>6, <1>7
<1>. HIDE DEF c, r, d
<1>9. c = (stop - a) + r + (IF stop \in S THEN 1 ELSE 0)
  BY <1>8
<1>. QED  BY <1>8, <1>9 DEF c, r, R

----------------------------------------------------------------------------
(* Draining                                                                *)

\* Counters draining does not touch.
SameCounts(stats, counted) ==
  /\ stats.events_received = counted.events_received
  /\ stats.duplicates_ignored = counted.duplicates_ignored
  /\ stats.events_recovered = counted.events_recovered
  /\ stats.recovery_misses = counted.recovery_misses
  /\ stats.reorder_buffer_overflows = counted.reorder_buffer_overflows
  /\ stats.maximum_buffer_depth = counted.maximum_buffer_depth

\* Of the events handed over, how many have been applied, refused, or are held.
Settled(stats, held) == stats.events_applied + stats.application_rejections + Cardinality(held)

LEMMA CountingFacts ==
  ASSUME NEW counted \in Statistics, NEW n \in Nat, NEW m \in Nat
  PROVE  /\ Counting(counted, n, m) \in Statistics
         /\ SameCounts(Counting(counted, n, m), counted)
         /\ Counting(counted, n, m).events_applied = counted.events_applied + n
         /\ Counting(counted, n, m).application_rejections
              = counted.application_rejections + m
<1>1. Counting(counted, n, m).events_applied = counted.events_applied + n
  BY DEF Statistics, Counting
<1>2. Counting(counted, n, m).application_rejections = counted.application_rejections + m
  BY DEF Statistics, Counting
<1>3. SameCounts(Counting(counted, n, m), counted)
  BY DEF Statistics, Counting, SameCounts
<1>4. Counting(counted, n, m) \in Statistics
  <2>1. counted.events_applied + n \in Nat /\ counted.application_rejections + m \in Nat
    BY DEF Statistics
  <2>2. ASSUME NEW x \in Nat, NEW y \in Nat
        PROVE  [counted EXCEPT !.events_applied = x, !.application_rejections = y]
                 \in Statistics
    BY Zenon DEF Statistics
  <2>. QED  BY <2>1, <2>2 DEF Counting
<1>. QED  BY <1>1, <1>2, <1>3, <1>4

LEMMA DrainFacts ==
  ASSUME expected \in FirstSequence .. LastSequence,
         NEW held, held \subseteq Sequences, held \subseteq expected .. expected + Window,
         NEW counted \in Statistics,
         Drain(held, counted)
  PROVE  /\ expected' \in FirstSequence .. LastSequence
         /\ buffer' \subseteq Sequences
         /\ state' \in States
         /\ statistics' \in Statistics
         /\ SameCounts(statistics', counted)
         /\ HeldWithinWindow'
         /\ StateMatchesBuffer'
         /\ Settled(statistics', buffer') = Settled(counted, held)
         /\ state' # "Failed" => \A s \in held : s \in buffer' \/ s < expected'
         /\ state' # "Failed" => expected' \notin held /\ expected <= expected'
         /\ buffer' \subseteq held
<1>1. PICK stop \in expected .. LastSequence + 1 :
        /\ expected .. stop - 1 \subseteq held
        /\ expected' = IF stop > LastSequence THEN LastSequence ELSE stop
        /\ buffer' = HeldAfter(held, stop)
        /\ state' = IF stop \in held \/ stop > LastSequence
                    THEN "Failed"
                    ELSE FeedStateFor(HeldAfter(held, stop))
        /\ statistics' = Counting(counted, stop - expected, IF stop \in held THEN 1 ELSE 0)
  BY DEF Drain
<1>2. /\ expected \in Int /\ stop \in Int /\ expected <= stop /\ stop <= LastSequence + 1
      /\ stop - expected \in Nat /\ FirstSequence <= expected
  BY ConstantFacts
<1>3. expected' \in FirstSequence .. LastSequence
  BY <1>1, <1>2, ConstantFacts
<1>4. buffer' \subseteq Sequences
  BY <1>1 DEF HeldAfter
<1>5. state' \in States /\ StateMatchesBuffer'
  BY <1>1 DEF States, FeedStateFor, StateMatchesBuffer
<1>6. HeldWithinWindow'
  <2>1. CASE stop > LastSequence
    <3>1. \A s \in held : ~(s > stop)
      BY <1>2, <2>1, ConstantFacts DEF Sequences
    <3>2. buffer' = {}
      BY <1>1, <3>1 DEF HeldAfter
    <3>. QED  BY <3>2 DEF HeldWithinWindow
  <2>2. CASE ~(stop > LastSequence)
    <3>1. expected' = stop
      BY <1>1, <2>2
    <3>2. \A s \in buffer' : s \in Int /\ s > stop /\ s <= expected + Window
      BY <1>1, <1>2, ConstantFacts DEF HeldAfter
    <3>3. \A s \in buffer' : s \in stop + 1 .. stop + Window
      BY <3>2, <1>2, ConstantFacts
    <3>. QED  BY <3>1, <3>3 DEF HeldWithinWindow, Window
  <2>. QED  BY <2>1, <2>2
<1>7. state' # "Failed" => \A s \in held : s \in buffer' \/ s < expected'
  <2>. SUFFICES ASSUME state' # "Failed", NEW s \in held PROVE s \in buffer' \/ s < expected'
    OBVIOUS
  <2>1. stop \notin held /\ expected' = stop
    BY <1>1
  <2>2. s \in Int /\ (s > stop \/ s < stop)
    BY <2>1, <1>2, ConstantFacts
  <2>. QED  BY <2>1, <2>2, <1>1 DEF HeldAfter
<1>15. /\ state' # "Failed" => expected' \notin held /\ expected <= expected'
       /\ buffer' \subseteq held
  BY <1>1, <1>2 DEF HeldAfter
<1>. DEFINE m == IF stop \in held THEN 1 ELSE 0
            n == stop - expected
<1>8. statistics' = Counting(counted, n, m)
  BY <1>1
<1>9. m \in Nat /\ n \in Nat
  BY <1>2
<1>10. IsFiniteSet(held) /\ \A s \in held : s \in Int /\ expected <= s
  <2>1. \A s \in held : s \in Int /\ expected <= s
    BY <1>2, ConstantFacts
  <2>2. IsFiniteSet(held)
    BY <1>2, ConstantFacts, WithinInterval
  <2>. QED  BY <2>1, <2>2
<1>11. /\ Cardinality(buffer') \in Nat
       /\ Cardinality(held) = n + Cardinality(buffer') + m
  <2>1. expected .. stop - 1 \subseteq held /\ buffer' = HeldAfter(held, stop)
    BY <1>1
  <2>2. /\ Cardinality(HeldAfter(held, stop)) \in Nat
        /\ Cardinality(held) = (stop - expected) + Cardinality(HeldAfter(held, stop)) + m
    <3>1. StartsWithRun(held, expected, stop)
      BY <2>1, <1>2, <1>10 DEF StartsWithRun
    <3>. HIDE DEF m
    <3>2. /\ Cardinality(HeldAfter(held, stop)) \in Nat
          /\ Cardinality(held) = (stop - expected) + Cardinality(HeldAfter(held, stop))
                                   + (IF stop \in held THEN 1 ELSE 0)
      BY <3>1, DrainedCount
    <3>. QED  BY <3>2 DEF m
  <2>. QED  BY <2>1, <2>2
<1>. HIDE DEF m, n
<1>12. /\ statistics' \in Statistics
       /\ SameCounts(statistics', counted)
       /\ statistics'.events_applied = counted.events_applied + n
       /\ statistics'.application_rejections = counted.application_rejections + m
  BY <1>8, <1>9, CountingFacts
<1>13. counted.events_applied \in Nat /\ counted.application_rejections \in Nat
  BY DEF Statistics
<1>14. Settled(statistics', buffer') = Settled(counted, held)
  BY <1>9, <1>11, <1>12, <1>13 DEF Settled
<1>. QED  BY <1>3, <1>4, <1>5, <1>6, <1>7, <1>12, <1>14, <1>15

----------------------------------------------------------------------------
(* The counters                                                            *)

\* The counters EveryEventAccounted and PeakBounded speak of, in two records,
\* but for those of events received, duplicates and overflows.
SameSettled(stats, counted) ==
  /\ stats.events_applied = counted.events_applied
  /\ stats.application_rejections = counted.application_rejections
  /\ stats.events_recovered = counted.events_recovered
  /\ stats.recovery_misses = counted.recovery_misses
  /\ stats.maximum_buffer_depth = counted.maximum_buffer_depth

LEMMA ReceivedFacts ==
  ASSUME statistics \in Statistics
  PROVE  /\ Received \in Statistics
         /\ SameSettled(Received, statistics)
         /\ Received.events_received = statistics.events_received + 1
         /\ Received.duplicates_ignored = statistics.duplicates_ignored
         /\ Received.reorder_buffer_overflows = statistics.reorder_buffer_overflows
         /\ ReceivedDuplicate \in Statistics
         /\ SameSettled(ReceivedDuplicate, statistics)
         /\ ReceivedDuplicate.events_received = statistics.events_received + 1
         /\ ReceivedDuplicate.duplicates_ignored = statistics.duplicates_ignored + 1
         /\ ReceivedDuplicate.reorder_buffer_overflows = statistics.reorder_buffer_overflows
         /\ ReceivedAhead \in Statistics
         /\ SameSettled(ReceivedAhead, statistics)
         /\ ReceivedAhead.events_received = statistics.events_received + 1
         /\ ReceivedAhead.duplicates_ignored = statistics.duplicates_ignored
         /\ ReceivedAhead.reorder_buffer_overflows = statistics.reorder_buffer_overflows
<1>1. /\ Received \in Statistics
      /\ Received.duplicates_ignored \in Nat
      /\ Received.out_of_order_events \in Nat
      /\ Received.gaps_detected \in Nat
  <2>1. statistics.events_received + 1 \in Nat
    BY DEF Statistics
  <2>2. ASSUME NEW x \in Nat PROVE [statistics EXCEPT !.events_received = x] \in Statistics
    BY Zenon DEF Statistics
  <2>3. Received \in Statistics
    BY <2>1, <2>2 DEF Received
  <2>. QED  BY <2>3 DEF Statistics
<1>2. ReceivedDuplicate \in Statistics
  <2>1. Received.duplicates_ignored + 1 \in Nat
    BY <1>1
  <2>2. ASSUME NEW x \in Nat PROVE [Received EXCEPT !.duplicates_ignored = x] \in Statistics
    BY <1>1, Zenon DEF Statistics
  <2>. QED  BY <2>1, <2>2 DEF ReceivedDuplicate
<1>3. ReceivedAhead \in Statistics
  <2>1. Received.out_of_order_events + 1 \in Nat /\ Received.gaps_detected + 1 \in Nat
    BY <1>1
  <2>2. ASSUME NEW x \in Nat, NEW y \in Nat
        PROVE  [Received EXCEPT !.out_of_order_events = x, !.gaps_detected = y] \in Statistics
    BY <1>1, Zenon DEF Statistics
  <2>. QED  BY <2>1, <2>2 DEF ReceivedAhead
<1>4. /\ SameSettled(Received, statistics)
      /\ Received.events_received = statistics.events_received + 1
      /\ Received.duplicates_ignored = statistics.duplicates_ignored
      /\ Received.reorder_buffer_overflows = statistics.reorder_buffer_overflows
  BY DEF Statistics, Received, SameSettled
<1>5. /\ SameSettled(ReceivedDuplicate, Received)
      /\ ReceivedDuplicate.events_received = Received.events_received
      /\ ReceivedDuplicate.duplicates_ignored = Received.duplicates_ignored + 1
      /\ ReceivedDuplicate.reorder_buffer_overflows = Received.reorder_buffer_overflows
  BY <1>1 DEF Statistics, ReceivedDuplicate, SameSettled
<1>6. /\ SameSettled(ReceivedAhead, Received)
      /\ ReceivedAhead.events_received = Received.events_received
      /\ ReceivedAhead.duplicates_ignored = Received.duplicates_ignored
      /\ ReceivedAhead.reorder_buffer_overflows = Received.reorder_buffer_overflows
  BY <1>1 DEF Statistics, ReceivedAhead, SameSettled
<1>. QED  BY <1>1, <1>2, <1>3, <1>4, <1>5, <1>6 DEF SameSettled

LEMMA NotingDepthFacts ==
  ASSUME NEW stats \in Statistics, NEW depth \in Nat
  PROVE  /\ NotingDepth(stats, depth) \in Statistics
         /\ \/ NotingDepth(stats, depth).maximum_buffer_depth = stats.maximum_buffer_depth
            \/ NotingDepth(stats, depth).maximum_buffer_depth = depth
         /\ depth <= NotingDepth(stats, depth).maximum_buffer_depth
         /\ NotingDepth(stats, depth).events_received = stats.events_received
         /\ NotingDepth(stats, depth).events_applied = stats.events_applied
         /\ NotingDepth(stats, depth).duplicates_ignored = stats.duplicates_ignored
         /\ NotingDepth(stats, depth).events_recovered = stats.events_recovered
         /\ NotingDepth(stats, depth).recovery_misses = stats.recovery_misses
         /\ NotingDepth(stats, depth).application_rejections = stats.application_rejections
         /\ NotingDepth(stats, depth).reorder_buffer_overflows = stats.reorder_buffer_overflows
<1>. DEFINE d == IF depth > stats.maximum_buffer_depth THEN depth ELSE stats.maximum_buffer_depth
<1>1. stats.maximum_buffer_depth \in Nat
  BY DEF Statistics
<1>2. d \in Nat /\ (d = depth \/ d = stats.maximum_buffer_depth) /\ depth <= d
  BY <1>1
<1>3. NotingDepth(stats, depth) = [stats EXCEPT !.maximum_buffer_depth = d]
  BY DEF NotingDepth
<1>. HIDE DEF d
<1>4. [stats EXCEPT !.maximum_buffer_depth = d] \in Statistics
  BY <1>2, Zenon DEF Statistics
<1>. QED  BY <1>2, <1>3, <1>4 DEF Statistics

----------------------------------------------------------------------------
(* The steps                                                               *)

LEMMA InitHolds == Init => IInv
<1>. SUFFICES ASSUME Init PROVE IInv
  OBVIOUS
<1>1. Typed /\ PeakBounded
  BY ConstantFacts DEF Init, Typed, PeakBounded, States, Statistics, Sequences
<1>2. HeldWithinWindow /\ StateMatchesBuffer
  BY DEF Init, HeldWithinWindow, StateMatchesBuffer
<1>3. EveryEventAccounted
  BY FS_EmptySet DEF Init, EveryEventAccounted
<1>. QED  BY <1>1, <1>2, <1>3 DEF IInv

LEMMA Facts ==
  ASSUME IInv
  PROVE  /\ expected \in Nat /\ statistics \in Statistics
         /\ \A s \in buffer : s \in expected + 1 .. expected + Window /\ s \in Sequences
         /\ buffer \subseteq expected .. expected + Window
         /\ IsFiniteSet(buffer) /\ Cardinality(buffer) \in Nat
<1>1. expected \in Nat /\ statistics \in Statistics
  BY ConstantFacts DEF IInv, Typed
<1>2. \A s \in buffer : s \in expected + 1 .. expected + Window /\ s \in Sequences
  BY DEF IInv, Typed, HeldWithinWindow, Window
<1>3. buffer \subseteq expected .. expected + Window
  BY <1>1, <1>2, ConstantFacts
<1>4. IsFiniteSet(buffer) /\ Cardinality(buffer) \in Nat
  <2>1. expected \in Int /\ Window \in Nat
    BY <1>1, ConstantFacts
  <2>. QED  BY <2>1, <1>3, WithinInterval
<1>. QED  BY <1>1, <1>2, <1>3, <1>4

LEMMA OldEventPreserves ==
  ASSUME NEW sequence \in Sequences, IInv, OldEvent(sequence)
  PROVE  IInv'
<1>1. statistics' = ReceivedDuplicate /\ UNCHANGED <<expected, buffer, state>>
  BY DEF OldEvent
<1>2. statistics \in Statistics /\ Cardinality(buffer) \in Nat
  BY Facts
<1>3. Typed' /\ PeakBounded'
  BY <1>1, <1>2, ReceivedFacts DEF IInv, Typed, PeakBounded, SameSettled
<1>4. HeldWithinWindow' /\ StateMatchesBuffer'
  BY <1>1 DEF IInv, HeldWithinWindow, StateMatchesBuffer
<1>5. EveryEventAccounted'
  BY <1>1, <1>2, ReceivedFacts DEF IInv, EveryEventAccounted, SameSettled, Statistics
<1>. QED  BY <1>3, <1>4, <1>5 DEF IInv

LEMMA HeldEventPreserves ==
  ASSUME NEW sequence \in Sequences, IInv, HeldEvent(sequence)
  PROVE  IInv'
<1>1. /\ statistics' = [ReceivedAhead EXCEPT !.duplicates_ignored = @ + 1]
      /\ UNCHANGED <<expected, buffer, state>>
  BY DEF HeldEvent
<1>2. statistics \in Statistics /\ Cardinality(buffer) \in Nat
  BY Facts
<1>3. /\ ReceivedAhead \in Statistics
      /\ ReceivedAhead.duplicates_ignored = statistics.duplicates_ignored
      /\ statistics.duplicates_ignored + 1 \in Nat
  BY <1>2, ReceivedFacts DEF Statistics
<1>4. statistics' \in Statistics
  <2>1. ASSUME NEW x \in Nat
        PROVE  [ReceivedAhead EXCEPT !.duplicates_ignored = x] \in Statistics
    BY <1>3, Zenon DEF Statistics
  <2>. QED  BY <1>1, <1>3, <2>1
<1>5. /\ SameSettled(statistics', ReceivedAhead)
      /\ statistics'.events_received = ReceivedAhead.events_received
      /\ statistics'.duplicates_ignored = statistics.duplicates_ignored + 1
      /\ statistics'.reorder_buffer_overflows = ReceivedAhead.reorder_buffer_overflows
  BY <1>1, <1>3 DEF SameSettled, Statistics
<1>6. Typed' /\ PeakBounded'
  BY <1>1, <1>2, <1>4, <1>5, ReceivedFacts DEF IInv, Typed, PeakBounded, SameSettled
<1>7. HeldWithinWindow' /\ StateMatchesBuffer'
  BY <1>1 DEF IInv, HeldWithinWindow, StateMatchesBuffer
<1>8. EveryEventAccounted'
  BY <1>1, <1>2, <1>5, ReceivedFacts DEF IInv, EveryEventAccounted, SameSettled, Statistics
<1>. QED  BY <1>6, <1>7, <1>8 DEF IInv

LEMMA TooFarAheadPreserves ==
  ASSUME NEW sequence \in Sequences, IInv, TooFarAhead(sequence)
  PROVE  IInv'
<1>1. /\ statistics' = [ReceivedAhead EXCEPT !.reorder_buffer_overflows = @ + 1]
      /\ state' = "Failed"
      /\ UNCHANGED <<expected, buffer>>
  BY DEF TooFarAhead
<1>2. statistics \in Statistics /\ Cardinality(buffer) \in Nat
  BY Facts
<1>3. /\ ReceivedAhead \in Statistics
      /\ ReceivedAhead.reorder_buffer_overflows = statistics.reorder_buffer_overflows
      /\ statistics.reorder_buffer_overflows + 1 \in Nat
  BY <1>2, ReceivedFacts DEF Statistics
<1>4. statistics' \in Statistics
  <2>1. ASSUME NEW x \in Nat
        PROVE  [ReceivedAhead EXCEPT !.reorder_buffer_overflows = x] \in Statistics
    BY <1>3, Zenon DEF Statistics
  <2>. QED  BY <1>1, <1>3, <2>1
<1>5. /\ SameSettled(statistics', ReceivedAhead)
      /\ statistics'.events_received = ReceivedAhead.events_received
      /\ statistics'.duplicates_ignored = ReceivedAhead.duplicates_ignored
      /\ statistics'.reorder_buffer_overflows = statistics.reorder_buffer_overflows + 1
  BY <1>1, <1>3 DEF SameSettled, Statistics
<1>6. Typed' /\ PeakBounded'
  BY <1>1, <1>2, <1>4, <1>5, ReceivedFacts DEF IInv, Typed, PeakBounded, SameSettled, States
<1>7. HeldWithinWindow' /\ StateMatchesBuffer'
  BY <1>1 DEF IInv, HeldWithinWindow, StateMatchesBuffer
<1>8. EveryEventAccounted'
  BY <1>1, <1>2, <1>5, ReceivedFacts DEF IInv, EveryEventAccounted, SameSettled, Statistics
<1>. QED  BY <1>6, <1>7, <1>8 DEF IInv

LEMMA EarlyEventPreserves ==
  ASSUME NEW sequence \in Sequences, IInv, EarlyEvent(sequence)
  PROVE  IInv'
<1>. DEFINE held == buffer \cup {sequence}
            depth == Cardinality(held)
<1>1. /\ buffer' = held /\ state' = "Recovering" /\ expected' = expected
      /\ statistics' = NotingDepth(ReceivedAhead, depth)
      /\ sequence \notin buffer
      /\ sequence > expected
      /\ ~(sequence - expected > MaximumReorderDepth)
  BY DEF EarlyEvent, AlreadyHeld, BeyondWindow
<1>2. /\ expected \in Nat /\ statistics \in Statistics
      /\ IsFiniteSet(buffer) /\ Cardinality(buffer) \in Nat
      /\ buffer \subseteq expected + 1 .. expected + Window
      /\ buffer \subseteq Sequences
  BY Facts
<1>3. sequence \in Nat /\ sequence \in expected + 1 .. expected + Window
  BY <1>1, <1>2, ConstantFacts DEF Sequences, Window
<1>4. held \subseteq expected + 1 .. expected + Window /\ held # {}
  BY <1>2, <1>3
<1>5. depth = Cardinality(buffer) + 1
  BY <1>1, <1>2, FS_AddElement
<1>6. depth \in Nat /\ depth <= Window + 1
  <2>1. held \subseteq expected .. expected + Window /\ expected \in Int /\ Window \in Nat
    BY <1>2, <1>4, ConstantFacts
  <2>. HIDE DEF held
  <2>. QED  BY <2>1, WithinInterval
<1>. HIDE DEF held, depth
<1>7. ReceivedAhead \in Statistics
  BY <1>2, ReceivedFacts
<1>8. Typed'
  <2>1. held \subseteq Sequences
    BY <1>2 DEF held
  <2>. QED  BY <2>1, <1>1, <1>6, <1>7, NotingDepthFacts DEF IInv, Typed, States
<1>9. PeakBounded'
  BY <1>1, <1>2, <1>6, <1>7, ReceivedFacts, NotingDepthFacts DEF IInv, PeakBounded, SameSettled
<1>10. HeldWithinWindow' /\ StateMatchesBuffer'
  BY <1>1, <1>4 DEF HeldWithinWindow, StateMatchesBuffer, Window
<1>11. EveryEventAccounted'
  <2>1. /\ statistics'.events_received = statistics.events_received + 1
        /\ statistics'.events_recovered = statistics.events_recovered
        /\ statistics'.events_applied = statistics.events_applied
        /\ statistics'.duplicates_ignored = statistics.duplicates_ignored
        /\ statistics'.application_rejections = statistics.application_rejections
        /\ statistics'.reorder_buffer_overflows = statistics.reorder_buffer_overflows
        /\ Cardinality(buffer') = Cardinality(buffer) + 1
    BY <1>1, <1>2, <1>5, <1>6, <1>7, ReceivedFacts, NotingDepthFacts DEF SameSettled, depth
  <2>. QED  BY <2>1, <1>2 DEF IInv, EveryEventAccounted, Statistics
<1>. QED  BY <1>8, <1>9, <1>10, <1>11 DEF IInv

LEMMA ExpectedEventPreserves ==
  ASSUME NEW sequence \in Sequences, IInv, ExpectedEvent(sequence)
  PROVE  /\ IInv'
         /\ Cardinality(buffer') <= Cardinality(buffer)
         /\ statistics'.maximum_buffer_depth = statistics.maximum_buffer_depth
         /\ state' # "Failed" => \A s \in buffer : s \in buffer' \/ s < expected'
<1>. DEFINE held == buffer \cup {expected}
<1>1. Drain(held, Received) /\ expected \in Sequences
  BY DEF ExpectedEvent
<1>2. /\ expected \in Nat /\ statistics \in Statistics
      /\ IsFiniteSet(buffer) /\ Cardinality(buffer) \in Nat
      /\ buffer \subseteq expected .. expected + Window
      /\ buffer \subseteq Sequences
      /\ expected \in FirstSequence .. LastSequence
  BY Facts DEF IInv, Typed
<1>3. held \subseteq Sequences /\ held \subseteq expected .. expected + Window
  BY <1>1, <1>2, ConstantFacts
<1>4. expected \notin buffer
  BY <1>2, Facts
<1>5. Cardinality(held) = Cardinality(buffer) + 1
  BY <1>2, <1>4, FS_AddElement
<1>6. Received \in Statistics
  BY <1>2, ReceivedFacts
<1>7. \A s \in buffer : s \in held
  OBVIOUS
<1>. HIDE DEF held
<1>8. /\ expected' \in FirstSequence .. LastSequence
      /\ buffer' \subseteq Sequences
      /\ state' \in States
      /\ statistics' \in Statistics
      /\ SameCounts(statistics', Received)
      /\ HeldWithinWindow'
      /\ StateMatchesBuffer'
      /\ Settled(statistics', buffer') = Settled(Received, held)
      /\ state' # "Failed" => \A s \in held : s \in buffer' \/ s < expected'
      /\ buffer' \subseteq held
  BY <1>1, <1>2, <1>3, <1>6, DrainFacts
<1>12. Cardinality(buffer') <= Cardinality(buffer)
  <2>1. PICK stop \in expected .. LastSequence + 1 : buffer' = HeldAfter(held, stop)
    BY <1>1 DEF Drain
  <2>2. expected \notin buffer'
    BY <1>2, <2>1, ConstantFacts DEF HeldAfter
  <2>3. buffer' \subseteq buffer
    BY <1>8, <2>2 DEF held
  <2>. QED  BY <1>2, <2>3, FS_Subset
<1>13. statistics'.maximum_buffer_depth = statistics.maximum_buffer_depth
  BY <1>2, <1>8, ReceivedFacts DEF SameCounts, SameSettled
<1>9. PeakBounded'
  BY <1>2, <1>8, ReceivedFacts DEF IInv, PeakBounded, SameCounts, SameSettled
<1>10. Cardinality(buffer') \in Nat
  <2>1. expected' \in Int /\ Window \in Nat
    BY <1>8, ConstantFacts
  <2>2. buffer' \subseteq expected' + 1 .. expected' + Window
    BY <1>8 DEF HeldWithinWindow, Window
  <2>. QED  BY <2>1, <2>2, WithinWindow
<1>11. EveryEventAccounted'
  BY <1>2, <1>5, <1>8, <1>10, ReceivedFacts
     DEF IInv, EveryEventAccounted, Settled, SameCounts, SameSettled, Statistics
<1>. QED  BY <1>7, <1>8, <1>9, <1>11, <1>12, <1>13 DEF IInv, Typed

LEMMA RetryPreserves ==
  ASSUME IInv, RetryRecovery
  PROVE  /\ IInv'
         /\ Cardinality(buffer') <= statistics'.maximum_buffer_depth
         /\ state' # "Failed" => \A s \in buffer : s \in buffer' \/ s < expected'
         /\ statistics'.recovery_misses = statistics.recovery_misses => state' # "Recovering"
<1>1. PICK reach \in Reach(buffer) :
        LET fetched == (expected .. reach - 1) \ buffer
            missed  == reach \notin buffer
            counted == [statistics EXCEPT
                          !.events_recovered = @ + Cardinality(fetched),
                          !.recovery_misses = IF missed THEN @ + 1 ELSE @]
        IN  Drain(buffer \cup fetched,
                  NotingDepth(counted, Cardinality(buffer \cup fetched)))
  BY DEF RetryRecovery
<1>. DEFINE fetched == (expected .. reach - 1) \ buffer
            held == buffer \cup fetched
            n == Cardinality(fetched)
            m == IF reach \notin buffer THEN statistics.recovery_misses + 1
                 ELSE statistics.recovery_misses
            counted == [statistics EXCEPT !.events_recovered = @ + n, !.recovery_misses = m]
            depth == Cardinality(held)
            noted == NotingDepth(counted, depth)
<1>2. Drain(held, noted)
  BY <1>1
<1>3. /\ expected \in Nat /\ statistics \in Statistics
      /\ IsFiniteSet(buffer) /\ Cardinality(buffer) \in Nat
      /\ buffer \subseteq expected .. expected + Window
      /\ buffer \subseteq Sequences /\ buffer # {}
      /\ expected \in FirstSequence .. LastSequence
      /\ expected \notin buffer
  BY Facts DEF RetryRecovery, IInv, Typed
<1>4. Max(buffer) \in buffer /\ \A s \in buffer : s <= Max(buffer)
  <2>. DEFINE b == expected + Window
  <2>1. expected \in Int /\ b \in Int /\ buffer \subseteq expected .. b /\ buffer # {}
    BY <1>3, ConstantFacts
  <2>. HIDE DEF b
  <2>. QED  BY <2>1, LargestExists
<1>5. /\ reach \in Int /\ expected <= reach /\ reach <= Max(buffer)
      /\ reach = Max(buffer) \/ reach \notin buffer
      /\ Max(buffer) \in expected .. expected + Window /\ Max(buffer) \in Sequences
  <2>1. Max(buffer) \in expected .. expected + Window /\ Max(buffer) \in Sequences
    BY <1>3, <1>4
  <2>2. reach \in expected .. Max(buffer) /\ (reach \notin buffer \/ reach = Max(buffer))
    BY DEF Reach
  <2>. HIDE DEF Max
  <2>. QED  BY <1>3, <2>1, <2>2, ConstantFacts
<1>6. /\ fetched \subseteq Sequences /\ fetched \subseteq expected .. expected + Window
      /\ fetched \cap buffer = {}
      /\ expected .. reach - 1 \subseteq held
  BY <1>3, <1>5, ConstantFacts DEF Sequences
<1>7. held \subseteq Sequences /\ held \subseteq expected .. expected + Window
  BY <1>3, <1>6
<1>8. IsFiniteSet(fetched) /\ n \in Nat
  <2>1. expected \in Int /\ Window \in Nat
    BY <1>3, ConstantFacts
  <2>. HIDE DEF fetched
  <2>. QED  BY <2>1, <1>6, WithinInterval
<1>9. depth \in Nat /\ depth <= Window + 1
  <2>1. expected \in Int /\ Window \in Nat
    BY <1>3, ConstantFacts
  <2>. HIDE DEF held
  <2>. QED  BY <2>1, <1>7, WithinInterval
<1>10. depth = Cardinality(buffer) + n
  <2>1. buffer \cap fetched = {}
    BY <1>6
  <2>. HIDE DEF fetched
  <2>2. Cardinality(buffer \cup fetched)
          = Cardinality(buffer) + Cardinality(fetched) - Cardinality(buffer \cap fetched)
    BY <1>3, <1>8, FS_Union
  <2>. QED  BY <2>1, <2>2, <1>3, <1>8, FS_EmptySet
<1>11. m \in Nat /\ statistics.events_recovered + n \in Nat
  BY <1>3, <1>8 DEF Statistics
<1>12. \A s \in buffer : s \in held
  OBVIOUS
<1>. HIDE DEF fetched, held, n, m, depth
<1>13. counted \in Statistics
  <2>1. ASSUME NEW x \in Nat, NEW y \in Nat
        PROVE  [statistics EXCEPT !.events_recovered = x, !.recovery_misses = y] \in Statistics
    BY <1>3, Zenon DEF Statistics
  <2>. QED  BY <2>1, <1>11
<1>14. /\ counted.events_recovered = statistics.events_recovered + n
       /\ counted.recovery_misses = m
       /\ counted.events_received = statistics.events_received
       /\ counted.events_applied = statistics.events_applied
       /\ counted.duplicates_ignored = statistics.duplicates_ignored
       /\ counted.application_rejections = statistics.application_rejections
       /\ counted.reorder_buffer_overflows = statistics.reorder_buffer_overflows
       /\ counted.maximum_buffer_depth = statistics.maximum_buffer_depth
  BY <1>3 DEF Statistics
<1>. HIDE DEF counted
<1>15. /\ noted \in Statistics
       /\ noted.maximum_buffer_depth = statistics.maximum_buffer_depth
          \/ noted.maximum_buffer_depth = depth
       /\ depth <= noted.maximum_buffer_depth
       /\ noted.events_recovered = statistics.events_recovered + n
       /\ noted.recovery_misses = m
       /\ noted.events_received = statistics.events_received
       /\ noted.events_applied = statistics.events_applied
       /\ noted.duplicates_ignored = statistics.duplicates_ignored
       /\ noted.application_rejections = statistics.application_rejections
       /\ noted.reorder_buffer_overflows = statistics.reorder_buffer_overflows
  BY <1>9, <1>13, <1>14, NotingDepthFacts
<1>. HIDE DEF noted
<1>16. /\ expected' \in FirstSequence .. LastSequence
       /\ buffer' \subseteq Sequences
       /\ state' \in States
       /\ statistics' \in Statistics
       /\ SameCounts(statistics', noted)
       /\ HeldWithinWindow'
       /\ StateMatchesBuffer'
       /\ Settled(statistics', buffer') = Settled(noted, held)
       /\ state' # "Failed" => \A s \in held : s \in buffer' \/ s < expected'
       /\ state' # "Failed" => expected' \notin held /\ expected <= expected'
       /\ buffer' \subseteq held
  BY <1>2, <1>3, <1>7, <1>15, DrainFacts
<1>17. PeakBounded'
  BY <1>3, <1>9, <1>15, <1>16 DEF IInv, PeakBounded, SameCounts
<1>18. Cardinality(buffer') \in Nat
  <2>1. expected' \in Int /\ Window \in Nat
    BY <1>16, ConstantFacts
  <2>2. buffer' \subseteq expected' + 1 .. expected' + Window
    BY <1>16 DEF HeldWithinWindow, Window
  <2>. QED  BY <2>1, <2>2, WithinWindow
<1>19. EveryEventAccounted'
  BY <1>3, <1>8, <1>10, <1>15, <1>16, <1>18
     DEF IInv, EveryEventAccounted, Settled, SameCounts, Statistics, depth
<1>21. Cardinality(buffer') <= statistics'.maximum_buffer_depth
  <2>1. IsFiniteSet(held)
    <3>1. expected \in Int /\ Window \in Nat
      BY <1>3, ConstantFacts
    <3>. QED  BY <3>1, <1>7, WithinInterval
  <2>2. Cardinality(buffer') <= depth
    BY <2>1, <1>16, FS_Subset DEF depth
  <2>3. statistics'.maximum_buffer_depth = noted.maximum_buffer_depth
    BY <1>16 DEF SameCounts
  <2>. QED  BY <2>2, <2>3, <1>9, <1>15, <1>16, <1>18 DEF Statistics
<1>20. ASSUME statistics'.recovery_misses = statistics.recovery_misses,
              state' = "Recovering"
       PROVE  FALSE
  <2>1. m = statistics.recovery_misses
    BY <1>15, <1>16, <1>20 DEF SameCounts
  <2>2. reach = Max(buffer)
    BY <2>1, <1>3, <1>5 DEF m, Statistics
  <2>3. \A s \in expected .. Max(buffer) : s \in held
    <3>1. Max(buffer) \in held /\ \A s \in expected .. Max(buffer) - 1 : s \in held
      BY <1>4, <1>6, <1>12, <2>2
    <3>. QED  BY <3>1, <1>3, <1>5
  <2>4. PICK s \in buffer' : TRUE
    BY <1>16, <1>20 DEF StateMatchesBuffer
  <2>5. s \in held /\ s \in Int /\ expected' < s /\ expected' \in Int
    <3>1. expected' \in Int /\ Window \in Int
      BY <1>16, ConstantFacts
    <3>2. s \in expected' + 1 .. expected' + Window
      BY <1>16, <2>4 DEF HeldWithinWindow, Window
    <3>3. s \in held
      BY <1>16, <2>4
    <3>4. \A a, w \in Int : \A x \in a + 1 .. a + w : x \in Int /\ a < x
      OBVIOUS
    <3>. QED  BY <3>1, <3>2, <3>3, <3>4
  <2>6. s <= Max(buffer)
    BY <2>5, <1>4, <1>5, <1>3, <2>2 DEF held, fetched
  <2>7. expected' \in expected .. Max(buffer)
    BY <2>5, <2>6, <1>3, <1>5, <1>16, <1>20
  <2>. QED  BY <2>3, <2>7, <1>16, <1>20
<1>. QED  BY <1>12, <1>16, <1>17, <1>19, <1>20, <1>21 DEF IInv, Typed

LEMMA StepHolds == IInv /\ [Next]_vars => IInv'
<1>. SUFFICES ASSUME IInv, [Next]_vars PROVE IInv'
  OBVIOUS
<1>1. ASSUME NEW sequence \in Sequences, OnEvent(sequence) PROVE IInv'
  BY <1>1, OldEventPreserves, ExpectedEventPreserves, TooFarAheadPreserves,
     HeldEventPreserves, EarlyEventPreserves DEF OnEvent
<1>2. CASE RetryRecovery
  BY <1>2, RetryPreserves
<1>3. CASE UNCHANGED vars
  BY <1>3 DEF vars, IInv, Typed, PeakBounded, HeldWithinWindow, StateMatchesBuffer,
              EveryEventAccounted
<1>. QED  BY <1>1, <1>2, <1>3 DEF Next

----------------------------------------------------------------------------
(* The peak                                                                *)

\* The depth reported is at least what is held.
PeakNoted == Cardinality(buffer) <= statistics.maximum_buffer_depth

LEMMA EarlyEventNotes ==
  ASSUME NEW sequence \in Sequences, IInv, EarlyEvent(sequence)
  PROVE  PeakNoted'
<1>1. statistics' = NotingDepth(ReceivedAhead, Cardinality(buffer'))
      /\ buffer' = buffer \cup {sequence} /\ sequence \notin buffer
  BY DEF EarlyEvent, AlreadyHeld
<1>2. IsFiniteSet(buffer) /\ Cardinality(buffer) \in Nat /\ statistics \in Statistics
  BY Facts
<1>3. Cardinality(buffer') = Cardinality(buffer) + 1
  BY <1>1, <1>2, FS_AddElement
<1>4. ReceivedAhead \in Statistics /\ Cardinality(buffer') \in Nat
  BY <1>2, <1>3, ReceivedFacts
<1>. QED  BY <1>1, <1>4, NotingDepthFacts DEF PeakNoted

\* The peak counts every buffer there has been.
LEMMA StepNotesPeak == IInv /\ PeakNoted /\ [Next]_vars => PeakNoted'
<1>. SUFFICES ASSUME IInv, PeakNoted, [Next]_vars PROVE PeakNoted'
  OBVIOUS
<1>. USE DEF PeakNoted
<1>0. Cardinality(buffer) \in Nat /\ statistics \in Statistics
  BY Facts
<1>1. ASSUME NEW sequence \in Sequences, OnEvent(sequence) PROVE PeakNoted'
  <2>1. CASE OldEvent(sequence) \/ TooFarAhead(sequence) \/ HeldEvent(sequence)
    <3>1. buffer' = buffer
      BY <2>1 DEF OldEvent, TooFarAhead, HeldEvent
    <3>2. statistics'.maximum_buffer_depth = statistics.maximum_buffer_depth
      <4>1. CASE OldEvent(sequence)
        BY <4>1, <1>0, ReceivedFacts DEF OldEvent, SameSettled
      <4>2. CASE TooFarAhead(sequence) \/ HeldEvent(sequence)
        <5>1. statistics'.maximum_buffer_depth = ReceivedAhead.maximum_buffer_depth
          <6>1. ReceivedAhead \in Statistics
            BY <1>0, ReceivedFacts
          <6>. HIDE DEF ReceivedAhead
          <6>. QED  BY <4>2, <6>1 DEF TooFarAhead, HeldEvent, Statistics
        <5>. QED  BY <5>1, <1>0, ReceivedFacts DEF SameSettled
      <4>. QED  BY <2>1, <4>1, <4>2
    <3>. QED  BY <3>1, <3>2
  <2>2. CASE ExpectedEvent(sequence)
    <3>1. Cardinality(buffer') <= Cardinality(buffer) /\ IInv'
          /\ statistics'.maximum_buffer_depth = statistics.maximum_buffer_depth
      BY <2>2, ExpectedEventPreserves
    <3>2. Cardinality(buffer)' \in Nat /\ statistics.maximum_buffer_depth \in Nat
      <4>1. buffer' \subseteq expected' + 1 .. expected' + Window
            /\ expected' \in Int /\ Window \in Nat
        <5>1. HeldWithinWindow' /\ Typed'
          BY <3>1 DEF IInv
        <5>2. expected' \in Int /\ Window \in Nat
          BY <5>1, ConstantFacts DEF Typed
        <5>. QED  BY <5>1, <5>2 DEF HeldWithinWindow, Window
      <4>. QED  BY <1>0, <4>1, WithinWindow DEF Statistics
    <3>. QED  BY <1>0, <3>1, <3>2
  <2>3. CASE EarlyEvent(sequence)
    BY <2>3, EarlyEventNotes
  <2>. QED  BY <1>1, <2>1, <2>2, <2>3 DEF OnEvent
<1>2. CASE RetryRecovery
  BY <1>2, RetryPreserves
<1>3. CASE UNCHANGED vars
  BY <1>3 DEF vars
<1>. QED  BY <1>1, <1>2, <1>3 DEF Next

----------------------------------------------------------------------------
(* Theorems                                                                *)

\* The inductive invariant holds whatever the network delivers and whatever
\* the recovery source answers.
THEOREM FeedInvariant == Spec => []IInv
  BY InitHolds, StepHolds, PTL DEF Spec

\* The buffer depth that is reported is no less than what is held at any time.
THEOREM FeedPeakIsTrue == Spec => []PeakNoted
<1>1. Init => PeakNoted
  BY FS_EmptySet DEF Init, PeakNoted
<1>2. Init /\ [][Next]_vars => []PeakNoted
  BY <1>1, FeedInvariant, StepNotesPeak, PTL DEF Spec
<1>. QED  BY <1>2, PTL DEF Spec

\* The variables keep their types, and the buffer never holds more than one
\* event beyond the window.
THEOREM FeedTyped == Spec => []TypeOK
<1>1. IInv => TypeOK
  <2>. SUFFICES ASSUME IInv PROVE TypeOK
    OBVIOUS
  <2>1. statistics.maximum_buffer_depth \in 0 .. MaximumReorderDepth + 1
    BY ConstantFacts DEF IInv, Typed, Statistics, PeakBounded, Window
  <2>2. statistics \in
          [events_received : Nat, events_applied : Nat,
           gaps_detected : Nat, out_of_order_events : Nat,
           duplicates_ignored : Nat,
           events_recovered : Nat, recovery_misses : Nat,
           application_rejections : Nat, reorder_buffer_overflows : Nat,
           maximum_buffer_depth : 0 .. MaximumReorderDepth + 1]
    BY <2>1 DEF IInv, Typed, Statistics
  <2>. QED  BY <2>2 DEF IInv, Typed, States, TypeOK
<1>. QED  BY <1>1, FeedInvariant, PTL

\* What is held is never stale, never applicable and never beyond the window.
THEOREM FeedKeepsWindow == Spec => []HeldWithinWindow
  BY FeedInvariant, PTL DEF IInv

\* The state the trading strategy is paused by agrees with the buffer.
THEOREM FeedStateIsTrue == Spec => []StateMatchesBuffer
  BY FeedInvariant, PTL DEF IInv

\* No event is lost or counted twice.
THEOREM FeedConserves == Spec => []EveryEventAccounted
  BY FeedInvariant, PTL DEF IInv

\* An event held stays held until it is applied.
THEOREM FeedHoldsUntilApplied == Spec => HeldUntilApplied
<1>1. IInv /\ [Next]_vars
        => [state' # "Failed" => \A s \in buffer : s \in buffer' \/ s < expected']_vars
  <2>. SUFFICES ASSUME IInv, Next, state' # "Failed"
                PROVE  \A s \in buffer : s \in buffer' \/ s < expected'
    OBVIOUS
  <2>1. ASSUME NEW sequence \in Sequences, ExpectedEvent(sequence)
        PROVE  \A s \in buffer : s \in buffer' \/ s < expected'
    BY <2>1, ExpectedEventPreserves
  <2>2. ASSUME NEW sequence \in Sequences,
               OldEvent(sequence) \/ TooFarAhead(sequence) \/ HeldEvent(sequence)
                 \/ EarlyEvent(sequence)
        PROVE  \A s \in buffer : s \in buffer' \/ s < expected'
    BY <2>2 DEF OldEvent, TooFarAhead, HeldEvent, EarlyEvent
  <2>3. CASE RetryRecovery
    BY <2>3, RetryPreserves
  <2>. QED  BY <2>1, <2>2, <2>3 DEF Next, OnEvent
<1>. QED  BY <1>1, FeedInvariant, PTL DEF Spec, HeldUntilApplied

\* A retry that finds everything it asks for closes every gap.
THEOREM FeedRetryRepairs == Spec => RetryRepairs
<1>1. IInv /\ [Next]_vars
        => [RetryRecovery /\ statistics'.recovery_misses = statistics.recovery_misses
              => state' # "Recovering"]_vars
  BY RetryPreserves
<1>. QED  BY <1>1, FeedInvariant, PTL DEF Spec, RetryRepairs
=============================================================================
