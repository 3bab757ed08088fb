-------------------------- MODULE RecoverySession --------------------------
(***************************************************************************)
(* Recovery end to end, as the demo and the benchmark of UDP recovery run  *)
(* it: a recording is applied to the book in full, the book is reset, and  *)
(* the same events are fed, some of them lost, doubled or out of order, to *)
(* the RecoverySequencer, which fetches the missing ones from a source in  *)
(* memory or over TCP.  What RecoverySequencer states as one step per call *)
(* is here one step per iteration of its loops, with the book (BookEvents) *)
(* and the source (RecoveryFetch) it calls.                                *)
(***************************************************************************)
EXTENDS BookEvents, RecoveryFetch

CONSTANTS
  FirstSequence, LastSequence, MaximumReorderDepth, MaxReceived, MaxMisses,
  Recordings,  \* what may be recorded: events numbered from FirstSequence on
  Sources,     \* over TCP, or made of events at these places of the recording
  Garbled(_)   \* what damage to its record makes of an event

ASSUME SequencerAssumption ==
  /\ FirstSequence \in Nat /\ LastSequence \in Nat /\ MaximumReorderDepth \in Nat
  /\ 1 <= FirstSequence /\ FirstSequence <= LastSequence /\ 1 <= MaximumReorderDepth
  /\ MaxReceived \in Nat /\ MaxMisses \in Nat

ASSUME RecordingsAssumption ==
  \A r \in Recordings :
    /\ FirstSequence + Len(r) - 1 <= LastSequence
    /\ DOMAIN r = 1 .. Len(r) /\ Len(r) \in Nat
    /\ \A n \in DOMAIN r : r[n].sequence_number = FirstSequence + n - 1

VARIABLES
  recording,   \* the events of this run
  source,      \* recovery_source_
  clean,       \* history variable: clean[n] is the book after n - 1 events in order
  thread,      \* what the processing thread is doing
  expected, buffer, state, statistics,  \* the members; buffer maps numbers to events
  toTry,       \* the numbers the loop of attemptRecoveryUntil has still to come to
  settled      \* history variable: the members as the last call left them

sequencerVars == <<expected, buffer, state, statistics>>
sessionVars == <<recording, source, clean>>
vars == <<bookVars, fetchVars, sessionVars, thread, sequencerVars, toTry, settled>>

Members ==
  [expected |-> expected, buffer |-> DOMAIN buffer, state |-> state, statistics |-> statistics]

Recorded(sequence) == recording[sequence - FirstSequence + 1]

BookNow == [queue |-> queue, trades |-> trades]

----------------------------------------------------------------------------
(* The clean baseline *)

ApplyBaseline ==
  /\ thread = "baseline"
  /\ Len(clean) \in DOMAIN recording
  /\ LET e == recording[Len(clean)]
     IN  \/ AppliesEvent(e) /\ clean' = Append(clean, BookNow') /\ UNCHANGED thread
         \/ RefusesEvent(e) /\ thread' = "ended" /\ UNCHANGED clean
  /\ UNCHANGED <<recording, source, fetchVars, sequencerVars, toTry, settled>>

BeginFeed ==
  /\ thread = "baseline"
  /\ Len(clean) = Len(recording) + 1
  /\ Book!Reset
  /\ thread' = "idle"
  /\ UNCHANGED <<sessionVars, fetchVars, sequencerVars, toTry, settled>>

----------------------------------------------------------------------------
(* applyExpectedEvent, drainContiguousEvents *)

\* A call of the sequencer returns.
Settles == thread' = "idle" /\ settled' = Members'

Fails(counted) ==
  /\ state' = "Failed"
  /\ statistics' = counted
  /\ UNCHANGED expected
  /\ Settles

AppliesExpected(counted) ==
  IF expected = LastSequence
    THEN Fails([counted EXCEPT !.events_applied = @ + 1])
    ELSE /\ expected' = expected + 1
         /\ statistics' = [counted EXCEPT !.events_applied = @ + 1]
         /\ thread' = "draining"
         /\ UNCHANGED <<state, settled>>

\* held is what the buffer holds once e is out of it.
ApplyExpected(e, held, counted) ==
  /\ buffer' = held
  /\ IF e.sequence_number # expected
       THEN UNCHANGED bookVars /\ Fails(counted)
       ELSE \/ AppliesEvent(e) /\ AppliesExpected(counted)
            \/ RefusesEvent(e) /\ Fails([counted EXCEPT !.application_rejections = @ + 1])

DrainOne ==
  /\ thread = "draining"
  /\ expected \in DOMAIN buffer
  /\ \E e \in {buffer[expected]} :
       ApplyExpected(e, [s \in DOMAIN buffer \ {expected} |-> buffer[s]], statistics)
  /\ UNCHANGED <<sessionVars, fetchVars, toTry>>

DrainEnds ==
  /\ thread = "draining"
  /\ expected \notin DOMAIN buffer
  /\ state' = IF DOMAIN buffer = {} THEN "Healthy" ELSE "Recovering"
  /\ UNCHANGED <<expected, buffer, statistics>>
  /\ Settles
  /\ UNCHANGED <<bookVars, sessionVars, fetchVars, toTry>>

----------------------------------------------------------------------------
(* onEvent *)

WithDepth(stats, held) ==
  [stats EXCEPT !.maximum_buffer_depth = Max({@, Cardinality(DOMAIN held)})]

\* try_emplace and emplace, where nothing is held under the number yet.
Emplaced(sequence, e) ==
  [s \in DOMAIN buffer \cup {sequence} |-> IF s = sequence THEN e ELSE buffer[s]]

IgnoresOld(e, received) ==
  /\ e.sequence_number < expected
  /\ statistics' = [received EXCEPT !.duplicates_ignored = @ + 1]
  /\ UNCHANGED <<bookVars, expected, buffer, state>>
  /\ Settles

TakesExpected(e, received) ==
  e.sequence_number = expected /\ ApplyExpected(e, buffer, received)

Overflows(e, ahead) ==
  /\ e.sequence_number - expected > MaximumReorderDepth
  /\ UNCHANGED <<bookVars, buffer>>
  /\ Fails([ahead EXCEPT !.reorder_buffer_overflows = @ + 1])

IgnoresHeld(e, ahead) ==
  /\ e.sequence_number - expected \in 1 .. MaximumReorderDepth
  /\ e.sequence_number \in DOMAIN buffer
  /\ statistics' = [ahead EXCEPT !.duplicates_ignored = @ + 1]
  /\ UNCHANGED <<bookVars, expected, buffer, state>>
  /\ Settles

Holds(e, ahead) ==
  /\ e.sequence_number - expected \in 1 .. MaximumReorderDepth
  /\ e.sequence_number \notin DOMAIN buffer
  /\ buffer' = Emplaced(e.sequence_number, e)
  /\ statistics' = WithDepth(ahead, buffer')
  /\ state' = "Recovering"
  /\ UNCHANGED <<bookVars, expected>>
  /\ Settles

\* An event arrives: the feed loses, doubles and reorders at will.
OnEvent(e) ==
  /\ thread = "idle"
  /\ state # "Failed"
  /\ statistics.events_received < MaxReceived
  /\ LET received == [statistics EXCEPT !.events_received = @ + 1]
         ahead    == [received EXCEPT !.out_of_order_events = @ + 1, !.gaps_detected = @ + 1]
     IN  \/ IgnoresOld(e, received)
         \/ TakesExpected(e, received)
         \/ Overflows(e, ahead)
         \/ IgnoresHeld(e, ahead)
         \/ Holds(e, ahead)
  /\ UNCHANGED <<sessionVars, fetchVars, toTry>>

----------------------------------------------------------------------------
(* retryRecovery, attemptRecoveryUntil *)

BeginRetry ==
  /\ thread = "idle"
  /\ state # "Failed" /\ DOMAIN buffer # {}
  /\ statistics.recovery_misses < MaxMisses
  /\ toTry' = expected .. Max(DOMAIN buffer) - 1
  /\ thread' = "fetching"
  /\ UNCHANGED <<bookVars, sessionVars, fetchVars, sequencerVars, settled>>

LoopStands == thread = "fetching" /\ stage = "idle"

LoopEnds ==
  /\ LoopStands /\ toTry = {}
  /\ thread' = "draining"
  /\ UNCHANGED <<bookVars, sessionVars, fetchVars, sequencerVars, toTry, settled>>

\* The loop goes on to the next number.
Advanced == toTry \ {Min(toTry)}

SkipHeld ==
  /\ LoopStands /\ toTry # {}
  /\ Min(toTry) \in DOMAIN buffer
  /\ toTry' = Advanced
  /\ UNCHANGED <<bookVars, sessionVars, fetchVars, thread, sequencerVars, settled>>

FetchOverTcp ==
  /\ LoopStands /\ toTry # {}
  /\ Min(toTry) \notin DOMAIN buffer
  /\ source.tcp
  /\ BeginFetch(Min(toTry))
  /\ UNCHANGED <<bookVars, sessionVars, thread, sequencerVars, toTry, settled>>

\* InMemoryRecoverySource: of events with the same number the last one counts.
LookedUp(sequence) ==
  LET held  == {n \in DOMAIN source.places : source.places[n] \in DOMAIN recording}
      found == {n \in held : recording[source.places[n]].sequence_number = sequence}
  IN  {recording[source.places[n]] : n \in {m \in found : m = Max(found)}}

FetchFromMemory ==
  /\ LoopStands /\ toTry # {}
  /\ Min(toTry) \notin DOMAIN buffer
  /\ ~source.tcp
  /\ asked' = Min(toTry)
  /\ trouble' = (LookedUp(asked') = {})
  /\ Returns(LookedUp(asked'))
  /\ UNCHANGED <<sockets, peer>>
  /\ UNCHANGED <<bookVars, sessionVars, thread, sequencerVars, toTry, settled>>

FetchStep ==
  /\ thread = "fetching"
  /\ Call
  /\ UNCHANGED <<bookVars, sessionVars, thread, sequencerVars, toTry, settled>>

ConnectionLost ==
  /\ thread = "fetching"
  /\ ReceiveFails
  /\ UNCHANGED <<bookVars, sessionVars, thread, sequencerVars, toTry, settled>>

TakeFetched ==
  /\ stage = "returned"
  /\ \E e \in fetched :
       /\ buffer' = Emplaced(asked, e)
       /\ statistics' = WithDepth([statistics EXCEPT !.events_recovered = @ + 1], buffer')
  /\ toTry' = Advanced
  /\ stage' = "idle" /\ fetched' = {} /\ asked' = 0 /\ trouble' = FALSE
  /\ UNCHANGED <<left, sockets, peer>>
  /\ UNCHANGED <<bookVars, sessionVars, thread, expected, state, settled>>

\* Mutant: a miss does not end the loop.
GoesOn == Advanced

AfterMiss == {}

CountMiss ==
  /\ stage = "returned" /\ fetched = {}
  /\ statistics' = [statistics EXCEPT !.recovery_misses = @ + 1]
  /\ toTry' = AfterMiss
  /\ stage' = "idle" /\ asked' = 0 /\ trouble' = FALSE
  /\ UNCHANGED <<left, fetched, sockets, peer>>
  /\ UNCHANGED <<bookVars, sessionVars, thread, expected, buffer, state, settled>>

----------------------------------------------------------------------------

\* A server that keeps the recording sends one of its events, the right one
\* perhaps damaged on the way or in the format of another version.
ServedRecords ==
  LET whole == {[intact |-> TRUE, formed |-> TRUE, event |-> recording[n]] : n \in DOMAIN recording}
      right == {record \in whole : RightSequence(record.event)}
  IN  whole \cup {[record EXCEPT !.intact = FALSE, !.event = Garbled(@)] : record \in right}
            \cup {[record EXCEPT !.formed = FALSE] : record \in right}

ServerStep ==
  /\ ServerAnswers(ServedRecords) \/ ServerSends \/ ServerCloses
  /\ UNCHANGED <<bookVars, sessionVars, thread, sequencerVars, toTry, settled>>

Init ==
  /\ Book!Init
  /\ FetchInit
  /\ recording \in Recordings
  /\ source \in Sources
  /\ clean = <<BookNow>>
  /\ thread = "baseline"
  /\ expected = FirstSequence
  /\ buffer = << >>
  /\ state = "Healthy"
  /\ statistics = [events_received |-> 0, events_applied |-> 0,
                   gaps_detected |-> 0, out_of_order_events |-> 0,
                   duplicates_ignored |-> 0,
                   events_recovered |-> 0, recovery_misses |-> 0,
                   application_rejections |-> 0, reorder_buffer_overflows |-> 0,
                   maximum_buffer_depth |-> 0]
  /\ toTry = {}
  /\ settled = Members

\* What the thread does next inside a call.
Continue ==
  \/ LoopEnds \/ SkipHeld
  \/ FetchOverTcp \/ FetchFromMemory \/ FetchStep \/ TakeFetched \/ CountMiss
  \/ DrainOne \/ DrainEnds

Next ==
  \/ ApplyBaseline \/ BeginFeed
  \/ \E n \in DOMAIN recording : OnEvent(recording[n])
  \/ BeginRetry
  \/ Continue
  \/ ConnectionLost
  \/ ServerStep

Spec == Init /\ [][Next]_vars

\* The thread runs on; of the server nothing is assumed.
FairSpec == Spec /\ WF_vars(Continue)

----------------------------------------------------------------------------
(* Properties *)

\* Whatever was lost, doubled, late, refetched or damaged on the way: the book is,
\* inside a recovery too, the one the recording gives applied in order as far as
\* the feed has come.  So none of its events is ever refused.
RecoveredBookIsClean ==
  thread \notin {"baseline", "ended"} =>
    /\ BookNow = clean[statistics.events_applied + 1]
    /\ statistics.application_rejections = 0

\* What is held under a number is the event recorded with that number.
HeldEventsAreGenuine == \A s \in DOMAIN buffer : buffer[s] = Recorded(s)

\* Call by call, with everything that happens inside a retry, the session does
\* what RecoverySequencer does in one step.
Sequencer == INSTANCE RecoverySequencer WITH
  expected <- settled.expected, buffer <- settled.buffer,
  state <- settled.state, statistics <- settled.statistics

ImplementsSequencer == Sequencer!Spec

\* The one thing that can keep a retry from returning is a server that has been
\* asked and neither answers nor closes: there is no timeout.
OnlyTheServerHangs == []<>(thread \notin {"fetching", "draining"} \/ ServerOwes)
=============================================================================
