---------------------------- MODULE ReplayEngine ----------------------------
(***************************************************************************)
(* ReplayEngine::replay of include/replay_engine.hpp: a list of events is  *)
(* applied to the book, in sequence, until one is missing or comes twice.  *)
(* One step is one iteration of its loop; the book is MatchingSpec, which  *)
(* OrderBook implements.                                                   *)
(***************************************************************************)
EXTENDS BookEvents

CONSTANTS
  Options,     \* ReplayOptions; expected_first_sequence 0 stands for any
  MaxSequence  \* the largest std::uint64_t

ASSUME ReplayAssumption ==
  /\ MaxSequence \in Nat
  /\ Options \subseteq [reset_book_before_replay : BOOLEAN, stop_on_rejection : BOOLEAN,
                        expected_first_sequence : 0 .. MaxSequence]

VARIABLES
  replaying,  \* whether a call of replay is in progress
  rest,       \* the events it has still to look at
  stopping,   \* its options.stop_on_rejection
  expected,   \* expectedSequence; 0 while it has not been initialised
  result,     \* ReplayResult
  taken       \* history variable: the sequence numbers the replay went past

replayVars == <<bookVars, replaying, rest, stopping, expected, result, taken>>

----------------------------------------------------------------------------
(* replay *)

NewResult ==
  [completed |-> TRUE, applied |-> 0, rejected |-> 0, gaps |-> 0, missing |-> 0, duplicates |-> 0]

BeginReplay(events, options) ==
  /\ ~replaying
  /\ replaying' = TRUE
  /\ IF options.reset_book_before_replay THEN Book!Reset ELSE UNCHANGED bookVars
  /\ rest' = events
  /\ stopping' = options.stop_on_rejection
  /\ expected' = options.expected_first_sequence
  /\ result' = NewResult
  /\ taken' = << >>

\* expectedSequence is taken from the first event when there is none.
OutOfSequence(sequence) == expected # 0 /\ sequence # expected

\* Offline replay stops at an unresolved sequence error.
StopOutOfSequence ==
  /\ replaying /\ rest # << >>
  /\ LET sequence == Head(rest).sequence_number
     IN  /\ OutOfSequence(sequence)
         /\ result' = IF sequence > expected
              THEN [result EXCEPT !.completed = FALSE, !.gaps = @ + 1,
                                  !.missing = @ + sequence - expected]
              ELSE [result EXCEPT !.completed = FALSE, !.duplicates = @ + 1]
  /\ replaying' = FALSE
  /\ rest' = << >>
  /\ UNCHANGED <<bookVars, stopping, expected, taken>>

\* updateExpectedSequence, which stays at the largest number there is.
ExpectedAfter(sequence) == IF sequence = MaxSequence THEN MaxSequence ELSE sequence + 1

Goes(e) ==
  /\ rest' = Tail(rest)
  /\ UNCHANGED <<replaying, stopping>>
  /\ expected' = ExpectedAfter(e.sequence_number)
  /\ taken' = Append(taken, e.sequence_number)

Applies(e) ==
  /\ result' = [result EXCEPT !.applied = @ + 1]
  /\ Goes(e)

Rejects(e) ==
  IF stopping
    THEN /\ result' = [result EXCEPT !.rejected = @ + 1, !.completed = FALSE]
         /\ replaying' = FALSE
         /\ rest' = << >>
         /\ UNCHANGED <<stopping, expected, taken>>
    ELSE /\ result' = [result EXCEPT !.rejected = @ + 1]
         /\ Goes(e)

ReplayEvent ==
  /\ replaying /\ rest # << >>
  /\ LET e == Head(rest)
     IN  /\ ~OutOfSequence(e.sequence_number)
         /\ \/ AppliesEvent(e) /\ Applies(e)
            \/ RefusesEvent(e) /\ Rejects(e)

EndReplay ==
  /\ replaying /\ rest = << >>
  /\ replaying' = FALSE
  /\ UNCHANGED <<bookVars, rest, stopping, expected, result, taken>>

ReplayInit ==
  /\ Book!Init
  /\ replaying = FALSE
  /\ rest = << >>
  /\ stopping = FALSE
  /\ expected = 0
  /\ result = [NewResult EXCEPT !.completed = FALSE]
  /\ taken = << >>
=============================================================================
