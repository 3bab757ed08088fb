----------------------------- MODULE BinaryLog -----------------------------
(***************************************************************************)
(* The binary event file of include/binary_codec.hpp: BinaryEventWriter,   *)
(* BinaryEventParser, and what may happen to the file in between.  A file  *)
(* is the number of records its header declares and the records that are   *)
(* there; a record is an event with its checksum, which matches or not.    *)
(* The code's other grounds to call a record corrupt (magic, size,         *)
(* version, type and side out of range) are grounds the writer never       *)
(* gives: they come with the checksum, as one.                             *)
(***************************************************************************)
EXTENDS Integers, SequencesExt

CONSTANTS
  Batches,       \* what write may be called with
  Valid(_),      \* validateMarketEvent
  Faults         \* bound of the model on the faults of the disk

ASSUME FaultsAssumption == Faults \in Nat

\* write takes a vector of events, those of any batch.
ASSUME BatchesAssumption ==
  Batches \subseteq Seq(UNION {{events[n] : n \in DOMAIN events} : events \in Batches})

VARIABLES
  file,     \* what is on the disk
  open,     \* whether a write is in progress
  writing,  \* the events it has still to write
  recorded, \* history variable: the argument of the write that made the file
  parsed,   \* the last ParseResult
  source,   \* history variable: what was recorded in the file it came from
  faults    \* faults so far

logVars == <<file, open, writing, recorded, parsed, source, faults>>

NoFile == [header |-> FALSE, declared |-> 0, records |-> << >>]
NoResult == [success |-> FALSE, events |-> << >>]

----------------------------------------------------------------------------
(* BinaryEventWriter::write *)

AllValid(events) == \A n \in DOMAIN events : Valid(events[n])

\* The file is opened, and truncated, only once every event is known to be valid.
BeginWrite(events) ==
  /\ ~open
  /\ AllValid(events)
  /\ file' = [header |-> TRUE, declared |-> Len(events), records |-> << >>]
  /\ open' = TRUE
  /\ writing' = events
  /\ recorded' = events
  /\ UNCHANGED <<parsed, source, faults>>

RefuseWrite(events) ==
  /\ ~open
  /\ ~AllValid(events)
  /\ UNCHANGED logVars

WriteRecord ==
  /\ open /\ writing # << >>
  /\ file' = [file EXCEPT !.records = Append(@, [event |-> Head(writing), intact |-> TRUE])]
  /\ writing' = Tail(writing)
  /\ UNCHANGED <<open, recorded, parsed, source, faults>>

EndWrite ==
  /\ open /\ writing = << >>
  /\ open' = FALSE
  /\ UNCHANGED <<file, writing, recorded, parsed, source, faults>>

----------------------------------------------------------------------------
(* The disk *)

\* The disk is full or the program dies: of what the stream was given, any part
\* from the start on has reached the file.
WriteFails ==
  /\ open
  /\ faults < Faults
  /\ faults' = faults + 1
  /\ \/ file' = NoFile
     \/ \E n \in 0 .. Len(file.records) :
          file' = [file EXCEPT !.records = SubSeq(@, 1, n)]
  /\ open' = FALSE
  /\ writing' = << >>
  /\ UNCHANGED <<recorded, parsed, source>>

\* Between the write and the parse the file loses its tail, or bytes of a record
\* change.
FileDecays ==
  /\ ~open
  /\ faults < Faults
  /\ faults' = faults + 1
  /\ \E n \in DOMAIN file.records :
       \/ file' = [file EXCEPT !.records = SubSeq(@, 1, n - 1)]
       \/ file' = [file EXCEPT !.records[n].intact = FALSE]
  /\ UNCHANGED <<open, writing, recorded, parsed, source>>

----------------------------------------------------------------------------
(* BinaryEventParser::parse *)

\* Mutant: the parser stops at the end of the file as if it were the last record.
Untold(f) == FALSE

\* A record is missing: the parser stops there.
Truncated(f) == Len(f.records) < f.declared

\* Of the sound records the events, in the order of the records.
EventsOf(records) ==
  LET sound == {n \in DOMAIN records : records[n].intact /\ Valid(records[n].event)}
      nth(k) == CHOOSE n \in sound : Cardinality({m \in sound : m <= n}) = k
  IN  [k \in 1 .. Cardinality(sound) |-> records[nth(k)].event]

\* A corrupt record is counted and skipped.  A file without a header is refused.
ParseResult(f) ==
  IF f.header
    THEN LET events == EventsOf(f.records)
         IN  [success |-> ~Truncated(f) /\ Len(events) = Len(f.records), events |-> events]
    ELSE NoResult

Parse ==
  /\ ~open
  /\ parsed' = ParseResult(file)
  /\ source' = recorded
  /\ UNCHANGED <<file, open, writing, recorded, faults>>

LogInit ==
  /\ file = NoFile
  /\ open = FALSE
  /\ writing = << >>
  /\ recorded = << >>
  /\ parsed = NoResult
  /\ source = << >>
  /\ faults = 0
=============================================================================
