--------------------------- MODULE RecordedReplay ---------------------------
(***************************************************************************)
(* A log is written, read back and replayed: BinaryLog and ReplayEngine,   *)
(* with the parsed events as the events of the replay, whether the parser  *)
(* reports success or not.                                                 *)
(***************************************************************************)
EXTENDS BinaryLog, ReplayEngine

\* History variable: whether the events being replayed were a successful parse.
VARIABLE whole

vars == <<logVars, replayVars, whole>>

\* One thread does both: nothing is written or parsed during a replay.
LogStep ==
  /\ ~replaying
  /\ \/ \E events \in Batches : BeginWrite(events) \/ RefuseWrite(events)
     \/ WriteRecord
     \/ EndWrite
     \/ WriteFails
     \/ FileDecays
  /\ UNCHANGED <<replayVars, whole>>

ParseLog ==
  /\ ~replaying
  /\ Parse
  /\ result' = [NewResult EXCEPT !.completed = FALSE]
  /\ UNCHANGED <<bookVars, replaying, rest, stopping, expected, taken, whole>>

BeginReplayOfLog ==
  /\ ~open
  /\ \E options \in Options : BeginReplay(parsed.events, options)
  /\ whole' = parsed.success
  /\ UNCHANGED logVars

ReplayStep ==
  /\ ReplayEvent \/ StopOutOfSequence \/ EndReplay
  /\ UNCHANGED <<logVars, whole>>

Init == LogInit /\ ReplayInit /\ whole = FALSE

Next == LogStep \/ ParseLog \/ BeginReplayOfLog \/ ReplayStep

Spec == Init /\ [][Next]_vars

----------------------------------------------------------------------------
(* Properties *)

Sequences(events) == [n \in DOMAIN events |-> events[n].sequence_number]

\* A replay that completes, of a log that parsed, is of every event recorded in
\* it, in order: whatever was lost in the write, on the disk or in the parse.
CompletedReplayIsWhole ==
  ~replaying /\ result.completed /\ whole => taken = Sequences(source)

\* What the tests of duplicate and out-of-order events say of every sequence
\* number, the largest one included.
NoSequenceTwice == \A m, n \in DOMAIN taken : taken[m] = taken[n] => m = n
=============================================================================
