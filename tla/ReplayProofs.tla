---------------------------- MODULE ReplayProofs ----------------------------
(***************************************************************************)
(* What is proved of ReplayEngine and what it is given to replay.          *)
(*                                                                         *)
(* The first part is about RecordedReplay, for any batches of events, any  *)
(* number of faults of the disk and any options: a replay that completes   *)
(* is of the whole recording.                                              *)
(*                                                                         *)
(* The second part is about LobsterReplay, for files of any rows and any   *)
(* length: no converted event is refused, and the book holds what stands   *)
(* in the file.  Its argument is a history of ledgers, one after each      *)
(* event, of which the last is what stands in the file and each is what    *)
(* the book holds when the replay has come to its event.  What a book does *)
(* with one event is taken from MatchingSpecProofs.                        *)
(***************************************************************************)
EXTENDS RecordedReplay, LobsterReplay, FiniteSetTheorems, TLAPS

----------------------------------------------------------------------------
(* A recorded log and its replay                                           *)

\* The events the batches are made of.
Events == UNION {{batch[n] : n \in DOMAIN batch} : batch \in Batches}

\* A record: the event and whether its checksum is its own.
Record == [event : Events, intact : BOOLEAN]

\* A sequence, of whatever it holds.
IsASequence(s) == s \in Seq({s[n] : n \in DOMAIN s})

\* The file is as it was written, but for records at its end that are missing
\* and records that have been marked.
FileMatches ==
  /\ recorded \in Seq(Events)
  /\ file = [header |-> file.header, declared |-> file.declared, records |-> file.records]
  /\ file.records \in Seq(Record)
  /\ file.header => file.declared = Len(recorded)
  /\ Len(file.records) <= Len(recorded)
  /\ \A n \in DOMAIN file.records : file.records[n].event = recorded[n]

\* What is still to be written completes what has been.
WriteContinues ==
  open => /\ writing \in Seq(Events)
          /\ Len(file.records) + Len(writing) = Len(recorded)
          /\ \A n \in DOMAIN writing : writing[n] = recorded[Len(file.records) + n]

\* A parse that succeeds has found every event.
ParseInv ==
  /\ IsASequence(parsed.events)
  /\ parsed.success => parsed.events = source

\* What the replay has gone past and what it has still to look at are, together
\* and in order, what was recorded.
ReplayInv ==
  /\ DOMAIN result = DOMAIN NewResult
  /\ replaying => IsASequence(rest)
  /\ replaying /\ whole =>
       /\ Len(taken) + Len(rest) = Len(source)
       /\ taken = [n \in 1 .. Len(taken) |-> source[n].sequence_number]
       /\ \A n \in DOMAIN rest : rest[n] = source[Len(taken) + n]
  /\ ~replaying /\ result.completed /\ whole => taken = Sequences(source)

\* What the replay is of.
SourceInv == IsASequence(source) /\ (replaying => IsASequence(taken))

\* The invariant of a recorded log and its replay.
WholeInv == FileMatches /\ WriteContinues /\ ParseInv /\ SourceInv /\ ReplayInv

----------------------------------------------------------------------------
(* Sequences                                                               *)

\* What is asked of a sequence, once and for all.
LEMMA SequenceFacts ==
  ASSUME NEW S, NEW s \in Seq(S)
  PROVE  /\ IsASequence(s)
         /\ s = [n \in 1 .. Len(s) |-> s[n]] /\ Len(s) \in Nat
<1>1. s = [n \in 1 .. Len(s) |-> s[n]] /\ Len(s) \in Nat /\ DOMAIN s = 1 .. Len(s)
  OBVIOUS
<1>2. \A n \in 1 .. Len(s) : s[n] \in {s[m] : m \in DOMAIN s}
  BY <1>1
<1>3. [n \in 1 .. Len(s) |-> s[n]] \in Seq({s[m] : m \in DOMAIN s})
  <2> DEFINE T == {s[m] : m \in DOMAIN s}
  <2>1. \A n \in 1 .. Len(s) : s[n] \in T
    BY <1>2
  <2> HIDE DEF T
  <2>2. [n \in 1 .. Len(s) |-> s[n]] \in Seq(T)
    BY <1>1, <2>1
  <2>. QED  BY <2>2 DEF T
<1>. QED  BY <1>1, <1>3 DEF IsASequence

\* The tail of a sequence, element by element.
LEMMA TailFacts ==
  ASSUME NEW s, IsASequence(s), s # << >>
  PROVE  /\ IsASequence(Tail(s)) /\ Len(Tail(s)) = Len(s) - 1
         /\ Head(s) = s[1] /\ 1 \in DOMAIN s
         /\ \A n \in DOMAIN Tail(s) : Tail(s)[n] = s[n + 1] /\ n + 1 \in DOMAIN s
<1> DEFINE S == {s[n] : n \in DOMAIN s}
<1>1. s \in Seq(S)
  BY DEF IsASequence
<1> HIDE DEF S
<1>2. Tail(s) \in Seq(S)
  BY <1>1
<1>3. IsASequence(Tail(s))
  BY <1>2, SequenceFacts
<1>4. /\ Len(Tail(s)) = Len(s) - 1 /\ Head(s) = s[1] /\ 1 \in DOMAIN s
      /\ \A n \in DOMAIN Tail(s) : Tail(s)[n] = s[n + 1] /\ n + 1 \in DOMAIN s
  BY <1>1
<1>. QED  BY <1>3, <1>4

\* A sequence with one more element, element by element.
LEMMA AppendFacts ==
  ASSUME NEW s, IsASequence(s), NEW e
  PROVE  /\ IsASequence(Append(s, e))
         /\ Len(Append(s, e)) = Len(s) + 1 /\ Len(s) \in Nat
         /\ Append(s, e) = [n \in 1 .. Len(s) + 1 |-> IF n <= Len(s) THEN s[n] ELSE e]
<1> DEFINE S == {s[n] : n \in DOMAIN s} \cup {e}
<1>1. s \in Seq({s[n] : n \in DOMAIN s})
  BY DEF IsASequence
<1>2. s \in Seq(S) /\ e \in S
  BY <1>1, SequenceFacts
<1> HIDE DEF S
<1>3. Append(s, e) \in Seq(S)
  BY <1>2
<1>4. IsASequence(Append(s, e))
  BY <1>3, SequenceFacts
<1>5. /\ Len(Append(s, e)) = Len(s) + 1 /\ Len(s) \in Nat
      /\ \A n \in 1 .. Len(s) + 1 : Append(s, e)[n] = IF n <= Len(s) THEN s[n] ELSE e
  BY <1>2
<1>6. Append(s, e) = [n \in 1 .. Len(s) + 1 |-> Append(s, e)[n]]
  BY <1>3, <1>5, SequenceFacts
<1>. QED  BY <1>4, <1>5, <1>6

----------------------------------------------------------------------------
(* The parser                                                              *)

\* A prefix has as many elements as its last index says.
LEMMA WholePrefix ==
  ASSUME NEW n \in Nat, NEW k \in 1 .. n
  PROVE  Cardinality({m \in 1 .. n : m <= k}) = k
<1>1. {m \in 1 .. n : m <= k} = 1 .. k
  OBVIOUS
<1>2. Cardinality(1 .. k) = k
  BY FS_Interval
<1>. QED  BY <1>1, <1>2

\* As many events as records are the events of all records, in their order.
LEMMA EveryEvent ==
  ASSUME NEW S, NEW records \in Seq(S)
  PROVE  /\ IsASequence(EventsOf(records))
         /\ Len(EventsOf(records)) = Len(records) =>
              EventsOf(records) = [n \in 1 .. Len(records) |-> records[n].event]
<1> DEFINE sound == {n \in DOMAIN records : records[n].intact /\ Valid(records[n].event)}
           nth(k) == CHOOSE n \in sound : Cardinality({m \in sound : m <= n}) = k
           all == 1 .. Len(records)
<1>1. EventsOf(records) = [k \in 1 .. Cardinality(sound) |-> records[nth(k)].event]
  BY DEF EventsOf
<1>2. IsFiniteSet(all) /\ Cardinality(all) = Len(records) /\ DOMAIN records = all
  <2>1. Len(records) \in Nat /\ DOMAIN records = all
    OBVIOUS
  <2>2. IsFiniteSet(all)
    BY <2>1, FS_Interval
  <2>3. Cardinality(all) = Len(records)
    BY <2>1, FS_Interval
  <2>. QED  BY <2>1, <2>2, <2>3
<1>3. /\ IsFiniteSet(sound) /\ sound \subseteq all
      /\ Cardinality(sound) = Cardinality(all) => sound = all
  <2>1. sound \in SUBSET all
    BY <1>2
  <2>. QED  BY <1>2, <2>1, FS_Subset
<1>4. Cardinality(sound) \in Nat
  BY <1>3, FS_CardinalityType
<1>5. Len(EventsOf(records)) = Cardinality(sound) /\ IsASequence(EventsOf(records))
  <2> HIDE DEF nth, sound
  <2>. QED  BY <1>1, <1>4 DEF IsASequence
<1>6. ASSUME Cardinality(sound) = Len(records), NEW k \in all
      PROVE  nth(k) = k
  <2>1. sound = all
    BY <1>2, <1>3, <1>6
  <2>2. \A n \in all : Cardinality({m \in all : m <= n}) = n
    BY WholePrefix
  <2>3. nth(k) = CHOOSE n \in all : Cardinality({m \in all : m <= n}) = k
    BY <2>1
  <2>4. \E n \in all : Cardinality({m \in all : m <= n}) = k
    BY <2>2
  <2>. QED  BY <2>2, <2>3, <2>4
<1>7. ASSUME Len(EventsOf(records)) = Len(records)
      PROVE  EventsOf(records) = [n \in 1 .. Len(records) |-> records[n].event]
  <2>1. Cardinality(sound) = Len(records)
    BY <1>5, <1>7
  <2>2. \A k \in 1 .. Len(records) : nth(k) = k
    BY <2>1, <1>6
  <2> HIDE DEF nth, sound
  <2>. QED  BY <1>1, <2>1, <2>2
<1>. QED  BY <1>5, <1>7

----------------------------------------------------------------------------
(* The log                                                                 *)

\* Records lost at the end leave the others as they were written.
LEMMA Shortened ==
  ASSUME FileMatches, ~open', UNCHANGED recorded, NEW n \in 0 .. Len(file.records),
         file' = [file EXCEPT !.records = SubSeq(@, 1, n)]
  PROVE  (FileMatches /\ WriteContinues)'
<1> DEFINE short == SubSeq(file.records, 1, n)
<1>1. file.records \in Seq(Record)
  BY DEF FileMatches
<1>2. short \in Seq(Record) /\ Len(short) = n
      /\ \A k \in DOMAIN short : short[k] = file.records[k] /\ k \in DOMAIN file.records
  BY <1>1
<1>3. file' = [header |-> file.header, declared |-> file.declared, records |-> short]
  BY DEF FileMatches
<1> HIDE DEF short
<1>4. Len(short) <= Len(recorded)
  BY <1>1, <1>2 DEF FileMatches
<1>5. /\ file'.header = file.header /\ file'.declared = file.declared /\ file'.records = short
      /\ file' = [header |-> file'.header, declared |-> file'.declared, records |-> file'.records]
  <2>1. file'.header = file.header
    BY <1>3, Zenon
  <2>2. file'.declared = file.declared
    BY <1>3, Zenon
  <2>3. file'.records = short
    BY <1>3
  <2>4. file' = [header |-> file'.header, declared |-> file'.declared, records |-> file'.records]
    BY <1>3, <2>1, <2>2, <2>3, Zenon
  <2>. QED  BY <2>1, <2>2, <2>3, <2>4
<1>6. \A k \in DOMAIN short : short[k].event = recorded[k]
  BY <1>2 DEF FileMatches
<1>7. FileMatches'
  BY <1>4, <1>5, <1>6 DEF FileMatches
<1>. QED  BY <1>7 DEF WriteContinues

\* A damaged record keeps its place.
LEMMA Marked ==
  ASSUME FileMatches, ~open', UNCHANGED recorded, NEW n \in DOMAIN file.records,
         file' = [file EXCEPT !.records[n].intact = FALSE]
  PROVE  (FileMatches /\ WriteContinues)'
<1> DEFINE marked == [file.records EXCEPT ![n].intact = FALSE]
           r == [file.records[n] EXCEPT !.intact = FALSE]
<1>1. file.records \in Seq(Record)
  BY DEF FileMatches
<1>2. r \in Record /\ r.event = file.records[n].event
  <2>1. file.records[n] \in Record
    BY <1>1
  <2> HIDE DEF r
  <2>2. PICK e \in Events, intact \in BOOLEAN :
          file.records[n] = [event |-> e, intact |-> intact]
    BY <2>1 DEF Record
  <2>3. r = [[event |-> e, intact |-> intact] EXCEPT !.intact = FALSE]
    BY <2>2 DEF r
  <2>4. r = [event |-> e, intact |-> FALSE]
    BY <2>3
  <2>. QED  BY <2>2, <2>4 DEF Record
<1>3. marked = [file.records EXCEPT ![n] = r]
  OBVIOUS
<1>4. file' = [header |-> file.header, declared |-> file.declared, records |-> marked]
  BY DEF FileMatches
<1> HIDE DEF r
<1>5. marked \in Seq(Record) /\ Len(marked) = Len(file.records)
      /\ \A k \in DOMAIN marked : marked[k].event = file.records[k].event
                                  /\ k \in DOMAIN file.records
  <2> HIDE DEF marked
  <2>. QED  BY <1>1, <1>2, <1>3
<1> HIDE DEF marked
<1>7. /\ file'.header = file.header /\ file'.declared = file.declared /\ file'.records = marked
      /\ file' = [header |-> file'.header, declared |-> file'.declared, records |-> file'.records]
  <2>1. file'.header = file.header
    BY <1>4, Zenon
  <2>2. file'.declared = file.declared
    BY <1>4, Zenon
  <2>3. file'.records = marked
    BY <1>4
  <2>4. file' = [header |-> file'.header, declared |-> file'.declared, records |-> file'.records]
    BY <1>4, <2>1, <2>2, <2>3, Zenon
  <2>. QED  BY <2>1, <2>2, <2>3, <2>4
<1>8. \A k \in DOMAIN marked : marked[k].event = recorded[k]
  BY <1>5 DEF FileMatches
<1>6. FileMatches'
  <2>1. recorded' \in Seq(Events) /\ (file'.header => file'.declared = Len(recorded'))
    BY <1>7 DEF FileMatches
  <2>2. Len(file'.records) <= Len(recorded') /\ file'.records \in Seq(Record)
    BY <1>5, <1>7 DEF FileMatches
  <2>3. \A k \in DOMAIN file'.records : file'.records[k].event = recorded'[k]
    <3>1. file'.records = marked /\ recorded' = recorded
      BY <1>7
    <3>. QED  BY <1>8, <3>1
  <2>. QED  BY <1>7, <2>1, <2>2, <2>3 DEF FileMatches
<1>. QED  BY <1>6 DEF WriteContinues

\* The writer and the faults of the disk.
LEMMA LogStepKeeps ==
  ASSUME WholeInv, LogStep
  PROVE  WholeInv'
<1>1. FileMatches /\ WriteContinues
  BY DEF WholeInv
<1>2. UNCHANGED <<parsed, source, replayVars, whole>>
  BY DEF LogStep, BeginWrite, RefuseWrite, WriteRecord, EndWrite, WriteFails, FileDecays, logVars
<1>3. ParseInv' /\ SourceInv' /\ ReplayInv'
  BY <1>2 DEF WholeInv, ParseInv, SourceInv, ReplayInv, replayVars, bookVars, IsASequence
<1>4. (FileMatches /\ WriteContinues)'
  <2>1. ASSUME NEW batch \in Batches, BeginWrite(batch)
        PROVE  (FileMatches /\ WriteContinues)'
    <3>1. batch \in Seq(Events)
      BY BatchesAssumption DEF Events
    <3>. QED  BY <2>1, <3>1 DEF BeginWrite, FileMatches, WriteContinues
  <2>2. ASSUME NEW batch \in Batches, RefuseWrite(batch)
        PROVE  (FileMatches /\ WriteContinues)'
    BY <1>1, <2>2 DEF RefuseWrite, logVars, FileMatches, WriteContinues
  <2>3. CASE WriteRecord
    <3> DEFINE r == [event |-> Head(writing), intact |-> TRUE]
    <3>1. /\ writing \in Seq(Events) /\ writing # << >>
          /\ Len(file.records) + Len(writing) = Len(recorded)
          /\ \A n \in DOMAIN writing : writing[n] = recorded[Len(file.records) + n]
          /\ file.records \in Seq(Record)
      BY <1>1, <2>3 DEF WriteRecord, WriteContinues, FileMatches
    <3>2. r \in Record /\ r.event = recorded[Len(file.records) + 1]
      BY <3>1 DEF Record
    <3>3. file' = [header |-> file.header, declared |-> file.declared,
                   records |-> Append(file.records, r)]
      BY <1>1, <2>3 DEF WriteRecord, FileMatches
    <3>4. Tail(writing) \in Seq(Events) /\ Len(Tail(writing)) = Len(writing) - 1
          /\ \A n \in DOMAIN Tail(writing) : Tail(writing)[n] = writing[n + 1]
      BY <3>1
    <3>5. UNCHANGED <<open, recorded>> /\ writing' = Tail(writing)
      BY <2>3 DEF WriteRecord
    <3> HIDE DEF r
    <3>6. /\ Append(file.records, r) \in Seq(Record)
          /\ Len(Append(file.records, r)) = Len(file.records) + 1
          /\ \A n \in DOMAIN Append(file.records, r) :
               Append(file.records, r)[n].event = recorded[n]
      BY <1>1, <3>1, <3>2 DEF FileMatches
    <3>7. FileMatches'
      BY <1>1, <3>1, <3>3, <3>5, <3>6 DEF FileMatches
    <3>8. WriteContinues'
      BY <1>1, <3>1, <3>3, <3>4, <3>5, <3>6 DEF WriteContinues
    <3>. QED  BY <3>7, <3>8
  <2>4. CASE EndWrite
    BY <1>1, <2>4 DEF EndWrite, FileMatches, WriteContinues
  <2>5. CASE WriteFails
    <3>1. ~open' /\ UNCHANGED recorded
      BY <2>5 DEF WriteFails
    <3>2. CASE file' = NoFile
      BY <1>1, <3>1, <3>2 DEF NoFile, FileMatches, WriteContinues
    <3>3. ASSUME NEW n \in 0 .. Len(file.records),
                 file' = [file EXCEPT !.records = SubSeq(@, 1, n)]
          PROVE  (FileMatches /\ WriteContinues)'
      BY <1>1, <3>1, <3>3, Shortened
    <3>. QED  BY <2>5, <3>2, <3>3 DEF WriteFails
  <2>6. CASE FileDecays
    <3>1. ~open' /\ UNCHANGED recorded
      BY <2>6 DEF FileDecays
    <3>2. PICK n \in DOMAIN file.records :
            \/ file' = [file EXCEPT !.records = SubSeq(@, 1, n - 1)]
            \/ file' = [file EXCEPT !.records[n].intact = FALSE]
      BY <2>6 DEF FileDecays
    <3>3. CASE file' = [file EXCEPT !.records = SubSeq(@, 1, n - 1)]
      <4>1. n - 1 \in 0 .. Len(file.records)
        BY <1>1 DEF FileMatches
      <4>. QED  BY <1>1, <3>1, <3>3, <4>1, Shortened
    <3>4. CASE file' = [file EXCEPT !.records[n].intact = FALSE]
      BY <1>1, <3>1, <3>4, Marked
    <3>. QED  BY <3>2, <3>3, <3>4
  <2>. QED  BY <2>1, <2>2, <2>3, <2>4, <2>5, <2>6, <1>1
            DEF LogStep
<1>. QED  BY <1>3, <1>4 DEF WholeInv

\* A parse that succeeds finds what was recorded.
LEMMA ParseLogKeeps ==
  ASSUME WholeInv, ParseLog
  PROVE  WholeInv'
<1>1. FileMatches /\ WriteContinues
  BY DEF WholeInv
<1>2. /\ UNCHANGED <<file, open, writing, recorded>> /\ source' = recorded
      /\ parsed' = ParseResult(file)
      /\ ~replaying' /\ result' = [NewResult EXCEPT !.completed = FALSE]
  BY DEF ParseLog, Parse
<1>3. FileMatches' /\ WriteContinues'
  BY <1>1, <1>2 DEF FileMatches, WriteContinues
<1>4. recorded \in Seq(Events) /\ IsASequence(recorded)
  BY <1>1 DEF FileMatches, IsASequence
<1>5. ParseInv'
  <2>1. CASE file.header
    <3> DEFINE found == EventsOf(file.records)
    <3>1. /\ IsASequence(found)
          /\ Len(found) = Len(file.records) =>
               found = [n \in 1 .. Len(file.records) |-> file.records[n].event]
      BY <1>1, EveryEvent DEF FileMatches
    <3>2. parsed' = [success |-> ~Truncated(file) /\ Len(found) = Len(file.records),
                     events  |-> found]
      BY <1>2, <2>1 DEF ParseResult
    <3>3. ASSUME ~Truncated(file), Len(found) = Len(file.records)
          PROVE  found = recorded
      BY <1>1, <2>1, <3>1, <3>3 DEF Truncated, FileMatches
    <3> HIDE DEF found
    <3>4. parsed'.events = found
      BY <3>2
    <3>5. parsed'.success => found = recorded
      BY <3>2, <3>3
    <3>. QED  BY <1>2, <3>1, <3>4, <3>5 DEF ParseInv
  <2>2. CASE ~file.header
    BY <1>2, <2>2 DEF ParseResult, NoResult, ParseInv, IsASequence
  <2>. QED  BY <2>1, <2>2
<1>6. SourceInv' /\ ReplayInv'
  BY <1>2, <1>4 DEF SourceInv, ReplayInv, NewResult, IsASequence
<1>. QED  BY <1>3, <1>5, <1>6 DEF WholeInv

----------------------------------------------------------------------------
(* The replay                                                              *)

\* A replay begins with the events of the last parse.
LEMMA BeginReplayKeeps ==
  ASSUME WholeInv, BeginReplayOfLog
  PROVE  WholeInv'
<1>1. /\ UNCHANGED logVars /\ replaying' /\ whole' = parsed.success
      /\ rest' = parsed.events /\ result' = NewResult /\ taken' = << >>
  BY DEF BeginReplayOfLog, BeginReplay
<1>2. FileMatches' /\ WriteContinues' /\ ParseInv'
  BY <1>1 DEF WholeInv, FileMatches, WriteContinues, ParseInv, logVars, IsASequence
<1>3. SourceInv'
  BY <1>1 DEF WholeInv, SourceInv, logVars, IsASequence
<1>4. ReplayInv'
  <2>1. IsASequence(parsed.events) /\ (parsed.success => parsed.events = source)
    BY DEF WholeInv, ParseInv
  <2>2. IsASequence(source) /\ source' = source
    BY <1>1 DEF WholeInv, SourceInv, logVars
  <2>3. IsASequence(rest)'
    BY <1>1, <2>1 DEF IsASequence
  <2>. QED  BY <1>1, <2>1, <2>2, <2>3 DEF ReplayInv, IsASequence
<1>. QED  BY <1>2, <1>3, <1>4 DEF WholeInv

\* One more event is behind.
LEMMA GoesKeeps ==
  ASSUME WholeInv, replaying, rest # << >>, UNCHANGED <<logVars, whole>>,
         Goes(Head(rest)), DOMAIN result' = DOMAIN NewResult
  PROVE  SourceInv' /\ ReplayInv'
<1> DEFINE sequence == Head(rest).sequence_number
           gone == Append(taken, sequence)
           coming == Tail(rest)
<1>1. rest' = coming /\ taken' = gone /\ replaying' /\ source' = source /\ whole' = whole
  BY DEF Goes, logVars
<1>2. IsASequence(rest) /\ IsASequence(taken) /\ IsASequence(source)
  BY DEF WholeInv, SourceInv, ReplayInv
<1>3. /\ IsASequence(coming) /\ Len(coming) = Len(rest) - 1
      /\ sequence = rest[1].sequence_number /\ 1 \in DOMAIN rest
      /\ \A n \in DOMAIN coming : coming[n] = rest[n + 1] /\ n + 1 \in DOMAIN rest
  BY <1>2, TailFacts
<1>4. /\ IsASequence(gone) /\ Len(gone) = Len(taken) + 1 /\ Len(taken) \in Nat
      /\ gone = [n \in 1 .. Len(taken) + 1 |-> IF n <= Len(taken) THEN taken[n] ELSE sequence]
  BY <1>2, AppendFacts
<1>5. Len(rest) \in Nat /\ DOMAIN coming = 1 .. Len(coming)
  BY <1>2, <1>3 DEF IsASequence
<1> HIDE DEF sequence, gone, coming
<1>6. SourceInv'
  BY <1>1, <1>2, <1>4 DEF SourceInv
<1>7. ASSUME whole
      PROVE  /\ Len(gone) + Len(coming) = Len(source)
             /\ gone = [n \in 1 .. Len(gone) |-> source[n].sequence_number]
             /\ \A n \in DOMAIN coming : coming[n] = source[Len(gone) + n]
  <2>1. /\ Len(taken) + Len(rest) = Len(source)
        /\ taken = [n \in 1 .. Len(taken) |-> source[n].sequence_number]
        /\ \A n \in DOMAIN rest : rest[n] = source[Len(taken) + n]
    BY <1>7 DEF WholeInv, ReplayInv
  <2>2. sequence = source[Len(taken) + 1].sequence_number
    BY <1>3, <2>1
  <2>3. \A n \in 1 .. Len(taken) : taken[n] = source[n].sequence_number
    BY <2>1
  <2>4. gone = [n \in 1 .. Len(gone) |-> source[n].sequence_number]
    BY <1>4, <2>2, <2>3
  <2>5. \A n \in DOMAIN coming : coming[n] = source[Len(gone) + n]
    <3> SUFFICES ASSUME NEW n \in DOMAIN coming PROVE coming[n] = source[Len(gone) + n]
      OBVIOUS
    <3>1. coming[n] = source[Len(taken) + (n + 1)]
      BY <1>3, <2>1
    <3>. QED  BY <3>1, <1>3, <1>4, <1>5
  <2>6. Len(gone) + Len(coming) = Len(source)
    BY <1>3, <1>4, <1>5, <2>1
  <2>. QED  BY <2>4, <2>5, <2>6
<1>8. ReplayInv'
  <2>1. IsASequence(rest')
    BY <1>1, <1>3
  <2>2. ASSUME whole'
        PROVE  /\ Len(taken') + Len(rest') = Len(source')
               /\ taken' = [n \in 1 .. Len(taken') |-> source'[n].sequence_number]
               /\ \A n \in DOMAIN rest' : rest'[n] = source'[Len(taken') + n]
    BY <1>1, <1>7, <2>2
  <2>. QED  BY <1>1, <2>1, <2>2 DEF ReplayInv
<1>. QED  BY <1>6, <1>8

\* An event is passed, or the replay ends.
LEMMA ReplayStepKeeps ==
  ASSUME WholeInv, ReplayStep
  PROVE  WholeInv'
<1>1. UNCHANGED <<logVars, whole>> /\ replaying
  BY DEF ReplayStep, ReplayEvent, StopOutOfSequence, EndReplay
<1>2. FileMatches' /\ WriteContinues' /\ ParseInv'
  BY <1>1 DEF WholeInv, FileMatches, WriteContinues, ParseInv, logVars, IsASequence
<1>3. IsASequence(source)' /\ DOMAIN result = DOMAIN NewResult /\ "completed" \in DOMAIN result
  BY <1>1 DEF WholeInv, SourceInv, ReplayInv, logVars, IsASequence, NewResult
\* A replay that gives up does not complete.
<1>4. ASSUME ~replaying', DOMAIN result' = DOMAIN NewResult, ~result'.completed
      PROVE  SourceInv' /\ ReplayInv'
  BY <1>3, <1>4 DEF SourceInv, ReplayInv
<1>5. SourceInv' /\ ReplayInv'
  <2>1. CASE StopOutOfSequence
    <3>1. ~replaying'
      BY <2>1 DEF StopOutOfSequence
    <3>2. DOMAIN result' = DOMAIN result /\ ~result'.completed
      <4> DEFINE missing == Head(rest).sequence_number
          one == [result EXCEPT !.completed = FALSE, !.gaps = @ + 1,
                                !.missing = @ + missing - expected]
          two == [result EXCEPT !.completed = FALSE, !.duplicates = @ + 1]
      <4>1. result' = one \/ result' = two
        BY <2>1 DEF StopOutOfSequence
      <4>2. DOMAIN one = DOMAIN result /\ one.completed = FALSE
        BY <1>3
      <4>3. DOMAIN two = DOMAIN result /\ two.completed = FALSE
        BY <1>3
      <4>. QED  BY <4>1, <4>2, <4>3, Zenon
    <3>. QED  BY <1>3, <1>4, <3>1, <3>2
  <2>2. CASE EndReplay
    <3>1. ~replaying' /\ rest = << >> /\ UNCHANGED <<result, taken, source, whole>>
      BY <1>1, <2>2 DEF EndReplay, logVars
    <3>2. ASSUME whole PROVE taken = Sequences(source)
      <4>1. /\ Len(taken) + Len(rest) = Len(source)
            /\ taken = [n \in 1 .. Len(taken) |-> source[n].sequence_number]
        BY <1>1, <3>2 DEF WholeInv, ReplayInv
      <4>2. /\ Len(taken) \in Nat /\ Len(source) \in Nat /\ Len(rest) = 0
            /\ DOMAIN source = 1 .. Len(source)
        BY <1>1, <3>1 DEF WholeInv, SourceInv, IsASequence
      <4>3. Len(taken) = Len(source)
        BY <4>1, <4>2
      <4>. QED  BY <4>1, <4>2, <4>3 DEF Sequences
    <3>. QED  BY <1>3, <3>1, <3>2 DEF SourceInv, ReplayInv, Sequences
  <2>3. CASE ReplayEvent
    <3> DEFINE e == Head(rest)
    <3>1. rest # << >> /\ (Applies(e) \/ Rejects(e))
      BY <2>3 DEF ReplayEvent
    <3>2. CASE Goes(e) /\ result' = [result EXCEPT !.applied = @ + 1]
      BY <1>1, <1>3, <3>1, <3>2, GoesKeeps
    <3>3. CASE Goes(e) /\ result' = [result EXCEPT !.rejected = @ + 1]
      BY <1>1, <1>3, <3>1, <3>3, GoesKeeps
    <3>4. CASE ~replaying' /\ result' = [result EXCEPT !.rejected = @ + 1, !.completed = FALSE]
      BY <1>3, <1>4, <3>4
    <3>. QED  BY <3>1, <3>2, <3>3, <3>4 DEF Applies, Rejects
  <2>. QED  BY <2>1, <2>2, <2>3 DEF ReplayStep
<1>. QED  BY <1>2, <1>5 DEF WholeInv

----------------------------------------------------------------------------

\* No file, nothing parsed, nothing replayed.
LEMMA InitWhole == Init => WholeInv
<1> SUFFICES ASSUME Init PROVE WholeInv
  OBVIOUS
<1>1. FileMatches /\ WriteContinues
  BY DEF Init, LogInit, NoFile, FileMatches, WriteContinues
<1>2. ParseInv /\ SourceInv
  BY DEF Init, LogInit, ReplayInit, NoResult, ParseInv, SourceInv, IsASequence
<1>3. ReplayInv
  BY DEF Init, ReplayInit, ReplayInv, NewResult
<1>. QED  BY <1>1, <1>2, <1>3 DEF WholeInv

\* Every step keeps the invariant.
LEMMA StepKeepsWhole == WholeInv /\ [Next]_vars => WholeInv'
<1> SUFFICES ASSUME WholeInv, [Next]_vars PROVE WholeInv'
  OBVIOUS
<1>1. CASE UNCHANGED vars
  BY <1>1 DEF vars, logVars, replayVars, bookVars, WholeInv, FileMatches, WriteContinues,
              ParseInv, SourceInv, ReplayInv, IsASequence
<1>. QED  BY <1>1, LogStepKeeps, ParseLogKeeps, BeginReplayKeeps, ReplayStepKeeps DEF Next

\* A replay that completes, of a log that parsed, is of every event that was
\* recorded and in the order it was recorded in: no loss in the write, on the
\* disk, in BinaryEventParser::parse or in ReplayEngine::replay goes unsaid.
THEOREM ReplayIsWhole == Spec => []CompletedReplayIsWhole
<1>1. WholeInv => CompletedReplayIsWhole
  BY DEF WholeInv, ReplayInv, CompletedReplayIsWhole
<1>. QED  BY <1>1, InitWhole, StepKeepsWhole, PTL DEF Spec

----------------------------------------------------------------------------
(* A LOBSTER file and its replay                                           *)

\* The facts about MatchingSpec, of the book the events are replayed into.
M == INSTANCE MatchingSpecProofs WITH MaxTrades <- 0

\* An order of the file that stands, with the row that submitted it.
Kept == [row : Nat, side : M!Sides, price : {p \in Prices : p > 0}, quantity : Nat \ {0}]

\* A function from the ids of the orders that stand.
IsLedger(a) ==
  /\ DOMAIN a \subseteq OrderIds \ {0}
  /\ a \in [DOMAIN a -> Kept]

\* The ledger a with k for the order id, and without the order id.
With(a, id, k) == [i \in DOMAIN a \cup {id} |-> IF i = id THEN k ELSE a[i]]
Less(a, id) == [i \in DOMAIN a \ {id} |-> a[i]]

\* An event the loader makes, whatever it is about.
EventTyped(e, n) ==
  /\ e.sequence_number = n /\ e.symbol_id = DefaultSymbol /\ e.participant_id = 0
  /\ n \in Nat \ {0} /\ e.order_id \in OrderIds \ {0}

\* The event e turns the ledger a into b: an order that does not stand is added
\* after all others, one that stands cancelled or reduced.
Adds(e, a, b) ==
  /\ e.type = "Add" /\ e.order_id \notin DOMAIN a
  /\ \E k \in Kept : /\ k.side = e.side /\ k.price = e.price /\ k.quantity = e.quantity
                     /\ \A id \in DOMAIN a : a[id].row < k.row
                     /\ b = With(a, e.order_id, k)
Cancels(e, a, b) ==
  e.type = "Cancel" /\ e.order_id \in DOMAIN a /\ b = Less(a, e.order_id)
Reduces(e, a, b) ==
  /\ e.type = "Modify" /\ e.order_id \in DOMAIN a
  /\ e.price = a[e.order_id].price
  /\ e.quantity \in Nat \ {0} /\ e.quantity <= a[e.order_id].quantity
  /\ \E k \in Kept : /\ k.row = a[e.order_id].row /\ k.side = a[e.order_id].side
                     /\ k.price = a[e.order_id].price /\ k.quantity = e.quantity
                     /\ b = With(a, e.order_id, k)
Follows(e, a, b) == Adds(e, a, b) \/ Cancels(e, a, b) \/ Reduces(e, a, b)

\* The book q holds the orders of the ledger a, each level in the order of the rows.
BookIs(q, a) ==
  /\ M!GoodBook(q)
  /\ \A key \in M!Keys : \A n \in DOMAIN q[key] :
       /\ q[key][n].id \in DOMAIN a
       /\ key = <<a[q[key][n].id].side, a[q[key][n].id].price>>
       /\ q[key][n].quantity = a[q[key][n].id].quantity
  /\ \A id \in DOMAIN a :
       \E n \in DOMAIN q[<<a[id].side, a[id].price>>] :
         q[<<a[id].side, a[id].price>>][n].id = id
  /\ \A key \in M!Keys : \A m, n \in DOMAIN q[key] :
       m < n => a[q[key][m].id].row < a[q[key][n].id].row

----------------------------------------------------------------------------
(* The book, event by event *)

\* The operators of the book are those the facts are about.
LEMMA SameBook ==
  /\ \A q : Book!RestingIn(q) = M!RestingIn(q)
  /\ Book!RestingIds = M!RestingIds
  /\ \A q, o : Book!AfterAdd(q, o) = M!AfterAdd(q, o)
  /\ \A q, id : Book!AfterCancel(q, id) = M!AfterCancel(q, id)
  /\ \A q, id, price, quantity :
       Book!AfterModify(q, id, price, quantity) = M!AfterModify(q, id, price, quantity)
<1>1. /\ \A q : Book!RestingIn(q) = M!RestingIn(q)
      /\ Book!RestingIds = M!RestingIds
  BY Zenon DEF Book!RestingIn, M!RestingIn, Book!Places, M!Places, Book!OrderAt, M!OrderAt,
    Book!Resting, M!Resting, Book!RestingIds, M!RestingIds
<1>2. \A q, o : Book!AfterAdd(q, o) = M!AfterAdd(q, o)
  BY Zenon DEF Book!AfterAdd, M!AfterAdd
<1>3. \A q, id : Book!AfterCancel(q, id) = M!AfterCancel(q, id)
  BY Zenon DEF Book!AfterCancel, M!AfterCancel, Book!PlaceOf, M!PlaceOf, Book!RemoveAt,
    M!RemoveAt, Book!Places, M!Places, Book!OrderAt, M!OrderAt
<1>4. ASSUME NEW q, NEW id, NEW price, NEW quantity
      PROVE  Book!AfterModify(q, id, price, quantity) = M!AfterModify(q, id, price, quantity)
  BY Zenon DEF Book!AfterModify, M!AfterModify, Book!PlaceOf, M!PlaceOf, Book!ReplaceAt,
    M!ReplaceAt, Book!Places, M!Places, Book!OrderAt, M!OrderAt, Book!AfterCancel,
    M!AfterCancel, Book!RemoveAt, M!RemoveAt
<1>. QED  BY <1>1, <1>2, <1>3, <1>4, Zenon

\* The ids that rest are those of the ledger.
LEMMA BookIds ==
  ASSUME NEW q, NEW a, BookIs(q, a), IsLedger(a)
  PROVE  /\ \A o \in M!RestingIn(q) : o.id \in DOMAIN a
         /\ \A id \in DOMAIN a : \E o \in M!RestingIn(q) : o.id = id
<1>1. ASSUME NEW o \in M!RestingIn(q) PROVE o.id \in DOMAIN a
  <2>1. PICK key, n : M!StandsAt(q, o, key, n)
    BY M!RestingFacts
  <2>. QED  BY <2>1 DEF M!StandsAt, BookIs
<1>2. ASSUME NEW id \in DOMAIN a PROVE \E o \in M!RestingIn(q) : o.id = id
  <2> DEFINE key == <<a[id].side, a[id].price>>
  <2>1. key \in M!Keys
    BY DEF IsLedger, Kept, M!Keys
  <2>2. PICK n \in DOMAIN q[key] : q[key][n].id = id
    BY DEF BookIs
  <2>3. M!StandsAt(q, q[key][n], key, n)
    BY <2>1, <2>2 DEF M!StandsAt
  <2>. QED  BY <2>2, <2>3, M!RestingFacts
<1>. QED  BY <1>1, <1>2

\* The order of an id in a queue, and nowhere else.
LEMMA OneQueueOfId ==
  ASSUME NEW q, NEW a, BookIs(q, a), NEW key \in M!Keys, NEW n \in DOMAIN q[key],
         NEW other \in M!Keys, NEW k \in DOMAIN q[other], q[key][n].id = q[other][k].id
  PROVE  other = key /\ k = n
BY DEF BookIs, M!GoodBook, M!IdsUnique

\* An order is added to the book and to the ledger.
LEMMA AddKeeps ==
  ASSUME NEW q, NEW a, BookIs(q, a), IsLedger(a),
         NEW o \in M!Order, o.price \in Prices, o.id \notin DOMAIN a, o.id # 0,
         NEW k \in Kept, k.side = o.side, k.price = o.price, k.quantity = o.quantity,
         \A id \in DOMAIN a : a[id].row < k.row
  PROVE  BookIs(M!AfterAdd(q, o), With(a, o.id, k))
<1> DEFINE key == <<o.side, o.price>>
           after == M!AfterAdd(q, o)
           b == With(a, o.id, k)
<1>1. M!GoodBook(q) /\ \A x \in M!RestingIn(q) : x.id # o.id
  BY BookIds DEF BookIs
<1>2. M!GoodBook(after)
  BY <1>1, M!AddsOrder
<1>3. key \in M!Keys /\ q[key] \in Seq(M!Order) /\ DOMAIN q = M!Keys
  BY <1>1 DEF M!GoodBook, M!QueuesTyped, M!Keys, M!Order
<1>4. after[key] = Append(q[key], o) /\ \A other \in M!Keys : other # key => after[other] = q[other]
  BY <1>3 DEF M!AfterAdd
<1>5. /\ Len(q[key]) \in Nat /\ DOMAIN q[key] = 1 .. Len(q[key])
      /\ DOMAIN after[key] = 1 .. Len(q[key]) + 1
      /\ \A n \in 1 .. Len(q[key]) : after[key][n] = q[key][n]
      /\ after[key][Len(q[key]) + 1] = o
  BY <1>3, <1>4
<1>6. /\ DOMAIN b = DOMAIN a \cup {o.id} /\ b[o.id] = k
      /\ \A id \in DOMAIN a : b[id] = a[id]
  BY DEF With
<1>7. \A x \in M!Keys : \A n \in DOMAIN q[x] :
        /\ q[x][n].id \in DOMAIN a
        /\ x = <<a[q[x][n].id].side, a[q[x][n].id].price>>
        /\ q[x][n].quantity = a[q[x][n].id].quantity
  BY DEF BookIs
<1>8. ASSUME NEW x \in M!Keys, NEW n \in DOMAIN after[x]
      PROVE  /\ after[x][n].id \in DOMAIN b
             /\ x = <<b[after[x][n].id].side, b[after[x][n].id].price>>
             /\ after[x][n].quantity = b[after[x][n].id].quantity
             /\ (x = key /\ n = Len(q[key]) + 1 /\ after[x][n] = o) \/
                (n \in DOMAIN q[x] /\ after[x][n] = q[x][n])
  <2> HIDE DEF after, b
  <2>1. CASE x = key /\ n = Len(q[key]) + 1
    BY <1>5, <1>6, <2>1
  <2>2. CASE ~(x = key /\ n = Len(q[key]) + 1)
    <3>1. n \in DOMAIN q[x] /\ after[x][n] = q[x][n]
      <4> HIDE DEF key
      <4>1. CASE x = key
        BY <1>5, <1>8, <2>2, <4>1
      <4>2. CASE x # key
        BY <1>4, <1>8, <4>2
      <4>. QED  BY <4>1, <4>2
    <3>. QED  BY <1>6, <1>7, <3>1
  <2>. QED  BY <2>1, <2>2
<1>9. ASSUME NEW id \in DOMAIN b
      PROVE  \E n \in DOMAIN after[<<b[id].side, b[id].price>>] :
               after[<<b[id].side, b[id].price>>][n].id = id
  <2> HIDE DEF after, b
  <2>1. CASE id = o.id
    <3>1. <<b[id].side, b[id].price>> = key
      BY <1>6, <2>1
    <3>2. Len(q[key]) + 1 \in DOMAIN after[key] /\ after[key][Len(q[key]) + 1].id = id
      BY <1>5, <2>1
    <3>. QED  BY <3>1, <3>2
  <2>2. CASE id # o.id
    <3> DEFINE x == <<a[id].side, a[id].price>>
    <3>1. id \in DOMAIN a /\ b[id] = a[id] /\ x \in M!Keys
      BY <1>6, <2>2 DEF IsLedger, Kept, M!Keys
    <3>2. PICK n \in DOMAIN q[x] : q[x][n].id = id
      BY <3>1 DEF BookIs
    <3>3. n \in DOMAIN after[x] /\ after[x][n] = q[x][n]
      <4> HIDE DEF x, key
      <4>1. CASE x = key
        BY <1>5, <3>2, <4>1
      <4>2. CASE x # key
        BY <1>4, <3>1, <3>2, <4>2
      <4>. QED  BY <4>1, <4>2
    <3>. QED  BY <3>1, <3>2, <3>3
  <2>. QED  BY <2>1, <2>2
<1>10. ASSUME NEW x \in M!Keys, NEW m \in DOMAIN after[x], NEW n \in DOMAIN after[x], m < n
       PROVE  b[after[x][m].id].row < b[after[x][n].id].row
  <2> HIDE DEF after, b, key
  <2>1. (x = key /\ n = Len(q[key]) + 1 /\ after[x][n] = o) \/
          (n \in DOMAIN q[x] /\ after[x][n] = q[x][n])
    BY <1>8
  <2>2. (x = key /\ m = Len(q[key]) + 1 /\ after[x][m] = o) \/
          (m \in DOMAIN q[x] /\ after[x][m] = q[x][m])
    BY <1>8
  <2>3. m \in DOMAIN q[x] /\ after[x][m] = q[x][m]
    BY <1>5, <1>10, <2>2
  <2>4. b[after[x][m].id] = a[q[x][m].id] /\ q[x][m].id \in DOMAIN a
    BY <1>6, <1>7, <2>3
  <2>5. CASE x = key /\ n = Len(q[key]) + 1 /\ after[x][n] = o
    BY <1>6, <2>4, <2>5
  <2>6. CASE n \in DOMAIN q[x] /\ after[x][n] = q[x][n]
    <3>1. a[q[x][m].id].row < a[q[x][n].id].row
      BY <1>10, <2>3, <2>6 DEF BookIs
    <3>2. b[after[x][n].id] = a[q[x][n].id]
      BY <1>6, <1>7, <2>6
    <3>. QED  BY <2>4, <3>1, <3>2
  <2>. QED  BY <2>1, <2>5, <2>6
<1> HIDE DEF after, b
<1>. QED  BY <1>2, <1>8, <1>9, <1>10, Zenon DEF BookIs, after, b

\* An order that rests is cancelled.
LEMMA CancelKeeps ==
  ASSUME NEW q, NEW a, BookIs(q, a), IsLedger(a), NEW gone \in DOMAIN a
  PROVE  BookIs(M!AfterCancel(q, gone), Less(a, gone))
<1> DEFINE after == M!AfterCancel(q, gone)
           b == Less(a, gone)
<1>1. PICK o \in M!RestingIn(q) : o.id = gone
  BY BookIds
<1>2. M!GoodBook(q) /\ M!QueuesTyped(q)
  BY DEF BookIs, M!GoodBook
<1>3. M!GoodBook(after)
  BY <1>1, <1>2, M!CancelsOrder
<1>4. PICK key \in M!Keys : \E n \in DOMAIN q[key] :
        q[key][n] = o /\ M!PlaceOf(q, o.id) = <<key[1], key[2], n>>
                      /\ key = <<o.side, o.price>> /\ o \in M!Order
  BY <1>2, M!PlaceFacts
<1>5. PICK i \in DOMAIN q[key] :
        q[key][i] = o /\ M!PlaceOf(q, o.id) = <<key[1], key[2], i>>
  BY <1>4
<1>6. q[key] \in Seq(M!Order) /\ DOMAIN q = M!Keys /\ key = <<key[1], key[2]>>
  BY <1>2, M!KeyFacts DEF M!QueuesTyped
<1> DEFINE new == M!RemoveAt(q[key], i)
<1>7. after = [q EXCEPT ![key] = new]
  <2> DEFINE place == M!PlaceOf(q, gone)
  <2>1. <<place[1], place[2]>> = key /\ place[3] = i
    BY <1>1, <1>5, <1>6
  <2> HIDE DEF place
  <2>2. after = [q EXCEPT ![<<place[1], place[2]>>] = M!RemoveAt(@, place[3])]
    BY Zenon DEF M!AfterCancel, place
  <2>. QED  BY <1>6, <2>1, <2>2
<1>8. M!Without(q[key], i, new)
  BY <1>6, M!RemoveFacts, Zenon
<1> HIDE DEF new
<1>9. after[key] = new /\ \A other \in M!Keys : other # key => after[other] = q[other]
  BY <1>6, <1>7
<1> HIDE DEF after
<1>10. /\ DOMAIN b = DOMAIN a \ {gone} /\ \A id \in DOMAIN b : b[id] = a[id]
  BY DEF Less
<1> HIDE DEF b
<1>11. \A x \in M!Keys : \A n \in DOMAIN q[x] :
        /\ q[x][n].id \in DOMAIN a
        /\ x = <<a[q[x][n].id].side, a[q[x][n].id].price>>
        /\ q[x][n].quantity = a[q[x][n].id].quantity
  BY DEF BookIs
<1>12. /\ Len(q[key]) \in Nat /\ DOMAIN q[key] = 1 .. Len(q[key]) /\ i \in 1 .. Len(q[key])
       /\ DOMAIN new = 1 .. Len(q[key]) - 1
       /\ \A n \in 1 .. i - 1 : new[n] = q[key][n]
       /\ \A n \in i .. Len(q[key]) - 1 : new[n] = q[key][n + 1]
  BY <1>6, <1>8 DEF M!Without
\* Where what is at n stood before.
<1> DEFINE was(x, n) == IF x = key /\ n >= i THEN n + 1 ELSE n
<1>13. ASSUME NEW x \in M!Keys, NEW n \in DOMAIN after[x]
       PROVE  /\ was(x, n) \in DOMAIN q[x] /\ after[x][n] = q[x][was(x, n)]
              /\ q[x][was(x, n)].id # gone
  <2>1. was(x, n) \in DOMAIN q[x] /\ after[x][n] = q[x][was(x, n)]
          /\ ~(x = key /\ was(x, n) = i)
    <3>1. CASE x = key
      <4>1. n \in 1 .. Len(q[key]) - 1
        BY <1>9, <1>12, <3>1
      <4>2. CASE n >= i
        BY <1>9, <1>12, <3>1, <4>1, <4>2
      <4>3. CASE ~(n >= i)
        BY <1>9, <1>12, <3>1, <4>1, <4>3
      <4>. QED  BY <4>2, <4>3
    <3>2. CASE x # key
      BY <1>9, <3>2
    <3>. QED  BY <3>1, <3>2
  <2> HIDE DEF was
  <2>2. q[key][i].id = gone
    BY <1>1, <1>5
  <2>. QED  BY <1>5, <2>1, <2>2, OneQueueOfId
<1>14. ASSUME NEW x \in M!Keys, NEW n \in DOMAIN after[x]
       PROVE  /\ after[x][n].id \in DOMAIN b /\ b[after[x][n].id] = a[q[x][was(x, n)].id]
              /\ x = <<b[after[x][n].id].side, b[after[x][n].id].price>>
              /\ after[x][n].quantity = b[after[x][n].id].quantity
  <2> HIDE DEF was
  <2>. QED  BY <1>10, <1>11, <1>13
<1>15. ASSUME NEW id \in DOMAIN b
       PROVE  \E n \in DOMAIN after[<<b[id].side, b[id].price>>] :
                after[<<b[id].side, b[id].price>>][n].id = id
  <2> DEFINE x == <<a[id].side, a[id].price>>
  <2>1. id \in DOMAIN a /\ id # gone /\ b[id] = a[id] /\ x \in M!Keys
    BY <1>10 DEF IsLedger, Kept, M!Keys
  <2>2. PICK n \in DOMAIN q[x] : q[x][n].id = id
    BY <2>1 DEF BookIs
  <2>3. \E m \in DOMAIN after[x] : after[x][m] = q[x][n]
    <3> HIDE DEF x
    <3>1. CASE x # key
      BY <1>9, <2>1, <2>2, <3>1
    <3>2. CASE x = key
      <4>1. n # i /\ n \in 1 .. Len(q[key])
        BY <1>1, <1>5, <1>12, <2>1, <2>2, <3>2
      <4>2. CASE n < i
        <5>1. n \in DOMAIN new /\ new[n] = q[key][n]
          BY <1>12, <4>1, <4>2
        <5>. QED  BY <1>9, <3>2, <5>1
      <4>3. CASE n > i
        <5>1. n - 1 \in DOMAIN new /\ new[n - 1] = q[key][(n - 1) + 1] /\ (n - 1) + 1 = n
          BY <1>12, <4>1, <4>3
        <5>. QED  BY <1>9, <3>2, <5>1
      <4>. QED  BY <1>12, <4>1, <4>2, <4>3
    <3>. QED  BY <3>1, <3>2
  <2>. QED  BY <2>1, <2>2, <2>3
<1>16. ASSUME NEW x \in M!Keys, NEW m \in DOMAIN after[x], NEW n \in DOMAIN after[x], m < n
       PROVE  b[after[x][m].id].row < b[after[x][n].id].row
  <2>1. was(x, m) < was(x, n)
    <3>1. CASE x = key
      BY <1>9, <1>12, <1>16, <3>1
    <3>2. CASE x # key
      BY <1>16, <3>2
    <3>. QED  BY <3>1, <3>2
  <2>2. was(x, m) \in DOMAIN q[x] /\ was(x, n) \in DOMAIN q[x]
    BY <1>13
  <2> HIDE DEF was
  <2>3. a[q[x][was(x, m)].id].row < a[q[x][was(x, n)].id].row
    BY <2>1, <2>2 DEF BookIs
  <2>. QED  BY <1>14, <2>3
<1>. QED  BY <1>3, <1>14, <1>15, <1>16, Zenon DEF BookIs, after, b

\* An order that rests is left with a smaller quantity, where it is.
LEMMA ReduceKeeps ==
  ASSUME NEW q, NEW a, BookIs(q, a), IsLedger(a), NEW id \in DOMAIN a,
         NEW quantity \in Nat \ {0}, quantity <= a[id].quantity,
         NEW k \in Kept, k.row = a[id].row, k.side = a[id].side, k.price = a[id].price,
         k.quantity = quantity
  PROVE  BookIs(M!AfterModify(q, id, a[id].price, quantity), With(a, id, k))
<1> DEFINE after == M!AfterModify(q, id, a[id].price, quantity)
           b == With(a, id, k)
<1>1. PICK o \in M!RestingIn(q) : o.id = id
  BY BookIds
<1>2. M!GoodBook(q) /\ M!QueuesTyped(q)
  BY DEF BookIs, M!GoodBook
<1>3. PICK key \in M!Keys : \E n \in DOMAIN q[key] :
        q[key][n] = o /\ M!PlaceOf(q, o.id) = <<key[1], key[2], n>>
                      /\ key = <<o.side, o.price>> /\ o \in M!Order
  BY <1>2, M!PlaceFacts
<1>4. PICK i \in DOMAIN q[key] :
        q[key][i] = o /\ M!PlaceOf(q, o.id) = <<key[1], key[2], i>>
  BY <1>3
<1>5. q[key] \in Seq(M!Order) /\ DOMAIN q = M!Keys /\ key = <<key[1], key[2]>>
  BY <1>2, M!KeyFacts DEF M!QueuesTyped
<1>6. \A x \in M!Keys : \A n \in DOMAIN q[x] :
        /\ q[x][n].id \in DOMAIN a
        /\ x = <<a[q[x][n].id].side, a[q[x][n].id].price>>
        /\ q[x][n].quantity = a[q[x][n].id].quantity
  BY DEF BookIs
<1>7. key = <<a[id].side, a[id].price>> /\ o.quantity = a[id].quantity
      /\ key = <<o.side, o.price>> /\ o \in M!Order
  BY <1>1, <1>3, <1>4, <1>6
<1>8. o.price = a[id].price /\ o.side = a[id].side
  BY <1>7
<1> DEFINE new == [o EXCEPT !.price = a[id].price, !.quantity = quantity]
<1>9. M!Renewed(o, a[id].price, quantity, new)
  <2>1. a[id].price \in Int
    BY <1>7, <1>8 DEF M!Order
  <2>. QED  BY <1>7, <2>1, M!NewFields
<1> DEFINE place == M!PlaceOf(q, id)
<1>10. M!OrderAt(q, place) = o /\ place[1] = key[1] /\ place[2] = key[2] /\ place[3] = i
  BY <1>1, <1>4, <1>5 DEF M!OrderAt
<1>11. after = [q EXCEPT ![<<o.side, a[id].price>>] = M!ReplaceAt(@, i, new)]
  <2> HIDE DEF place
  <2>1. a[id].price = M!OrderAt(q, place).price /\ quantity <= M!OrderAt(q, place).quantity
    BY <1>7, <1>8, <1>10
  <2>2. after = [q EXCEPT ![<<M!OrderAt(q, place).side, a[id].price>>] =
                  M!ReplaceAt(@, place[3], [M!OrderAt(q, place) EXCEPT !.price = a[id].price,
                                                                   !.quantity = quantity])]
    BY <2>1, Zenon DEF M!AfterModify, place
  <2>. QED  BY <1>10, <2>2
<1> HIDE DEF new
<1>12. after = [q EXCEPT ![key] = [q[key] EXCEPT ![i] = new]]
  BY <1>5, <1>7, <1>8, <1>11 DEF M!ReplaceAt
<1> HIDE DEF after, place
<1>13. M!StandsAt(q, o, key, i) /\ M!Changed(q, key, i, new, after)
  BY <1>4, <1>12 DEF M!StandsAt, M!Changed
<1>14. new \in M!Order /\ new.id = o.id /\ new.side = o.side /\ new.price = o.price
       /\ new.quantity = quantity
  BY <1>8, <1>9 DEF M!Renewed
<1>15. M!GoodBook(after)
  BY <1>2, <1>13, <1>14, M!ChangesOrder
<1>16. \A x \in M!Keys : DOMAIN after[x] = DOMAIN q[x] /\
         \A n \in DOMAIN q[x] : after[x][n] = IF x = key /\ n = i THEN new ELSE q[x][n]
  BY <1>4, <1>5, <1>12
<1>17. DOMAIN b = DOMAIN a /\ b[id] = k /\ \A j \in DOMAIN a : j # id => b[j] = a[j]
  BY DEF With
<1> HIDE DEF b
<1>18. \A j \in DOMAIN a : b[j].row = a[j].row /\ b[j].side = a[j].side /\ b[j].price = a[j].price
  BY <1>17
<1>19. \A x \in M!Keys : \A n \in DOMAIN q[x] : after[x][n].id = q[x][n].id
  BY <1>4, <1>14, <1>16
<1>20. ASSUME NEW x \in M!Keys, NEW n \in DOMAIN after[x]
       PROVE  after[x][n].quantity = b[after[x][n].id].quantity
  <2>1. CASE x = key /\ n = i
    BY <1>1, <1>4, <1>14, <1>16, <1>17, <2>1
  <2>2. CASE ~(x = key /\ n = i)
    <3>1. n \in DOMAIN q[x] /\ after[x][n] = q[x][n]
      BY <1>16, <2>2
    <3>2. q[x][n].id # id
      BY <1>1, <1>4, <2>2, <3>1, OneQueueOfId
    <3>. QED  BY <1>6, <1>17, <3>1, <3>2
  <2>. QED  BY <2>1, <2>2
<1>21. \A x \in M!Keys : \A n \in DOMAIN after[x] :
         /\ after[x][n].id \in DOMAIN b
         /\ x = <<b[after[x][n].id].side, b[after[x][n].id].price>>
         /\ after[x][n].quantity = b[after[x][n].id].quantity
  BY <1>6, <1>16, <1>17, <1>18, <1>19, <1>20
<1>22. ASSUME NEW j \in DOMAIN b
       PROVE  \E n \in DOMAIN after[<<b[j].side, b[j].price>>] :
                after[<<b[j].side, b[j].price>>][n].id = j
  <2> DEFINE x == <<a[j].side, a[j].price>>
  <2>1. j \in DOMAIN a /\ x \in M!Keys /\ x = <<b[j].side, b[j].price>>
    BY <1>17, <1>18 DEF IsLedger, Kept, M!Keys
  <2>2. PICK n \in DOMAIN q[x] : q[x][n].id = j
    BY <2>1 DEF BookIs
  <2> HIDE DEF x
  <2>3. n \in DOMAIN after[x] /\ after[x][n].id = j
    BY <1>16, <1>19, <2>1, <2>2
  <2>. QED  BY <2>1, <2>3
<1>23. \A x \in M!Keys : \A m, n \in DOMAIN after[x] :
         m < n => b[after[x][m].id].row < b[after[x][n].id].row
  <2>1. \A x \in M!Keys : \A m, n \in DOMAIN q[x] :
         m < n => a[q[x][m].id].row < a[q[x][n].id].row
    BY DEF BookIs
  <2>. QED  BY <1>6, <1>16, <1>18, <1>19, <2>1
<1>. QED  BY <1>15, <1>21, <1>22, <1>23, Zenon DEF BookIs, after, b

\* The event that follows in the ledger is accepted by the book, which follows.
LEMMA EventKeeps ==
  ASSUME NEW e, NEW n, EventTyped(e, n), NEW a, NEW b, IsLedger(a), Follows(e, a, b),
         BookIs(queue, a)
  PROVE  /\ AppliesEvent(e) => BookIs(queue', b)
         /\ ~RefusesEvent(e)
<1>1. \A id : id \in Book!RestingIds <=> id \in DOMAIN a
  BY BookIds, SameBook DEF M!RestingIds, M!Resting
<1> DEFINE o == OrderOf(e)
<1>2. /\ o.id = e.order_id /\ o.side = e.side /\ o.price = e.price /\ o.quantity = e.quantity
      /\ o.participant_id = 0 /\ o.symbol_id = DefaultSymbol
      /\ o = [id |-> o.id, side |-> o.side, price |-> o.price, quantity |-> o.quantity,
              participant_id |-> o.participant_id, symbol_id |-> o.symbol_id]
  BY DEF OrderOf, EventTyped
<1> HIDE DEF o
<1>3. \A k \in Kept : k.row \in Nat /\ k.side \in M!Sides /\ k.price \in Prices /\ k.price \in Int
                      /\ k.price > 0 /\ k.quantity \in Nat \ {0} /\ k.quantity > 0
  <2> TAKE k \in Kept
  <2>1. k.row \in Nat /\ k.side \in M!Sides /\ k.price \in {p \in Prices : p > 0}
        /\ k.quantity \in Nat \ {0}
    BY DEF Kept
  <2>2. k.price \in Prices /\ k.price > 0
    BY <2>1
  <2>3. k.price \in Int
    <3>1. Prices \subseteq Int
      BY FileAssumption
    <3>. QED  BY <2>2, <3>1
  <2>4. k.quantity > 0
    BY <2>1
  <2>. QED  BY <2>1, <2>2, <2>3, <2>4
<1>4. e.order_id \in OrderIds \ {0} /\ \A id \in DOMAIN a : a[id] \in Kept
  BY DEF EventTyped, IsLedger
<1>5. e.type # "Cancel" => e.price > 0 /\ e.quantity > 0
  BY <1>3, <1>4 DEF Follows, Adds, Cancels, Reduces
<1>6. ValidEvent(e)
  BY <1>5 DEF ValidEvent, EventTyped
<1>7. ASSUME AppliedToBook(e)
      PROVE  BookIs(queue', b) /\ answer'.accepted
  <2>1. CASE Adds(e, a, b)
    <3>1. PICK k \in Kept : /\ k.side = e.side /\ k.price = e.price /\ k.quantity = e.quantity
                            /\ \A id \in DOMAIN a : a[id].row < k.row
                            /\ b = With(a, e.order_id, k)
      BY <2>1, Zenon DEF Adds
    <3>2. o.id \notin Book!RestingIds /\ e.type = "Add" /\ o.id \notin DOMAIN a
      BY <1>1, <1>2, <2>1 DEF Adds
    <3>3. Book!Acceptable(o)
      BY <1>2, <1>3, <3>1, <3>2 DEF Book!Acceptable
    <3>4. Book!Add(o)
      BY <1>7, <3>2 DEF AppliedToBook, o
    <3>5. queue' = M!AfterAdd(queue, o) /\ answer'.accepted
      BY <3>3, <3>4, SameBook DEF Book!Add, Book!Answers
    <3>6. o \in M!Order
      BY <1>2, <1>3, <1>4, <3>1, FileAssumption DEF M!Order
    <3>7. BookIs(M!AfterAdd(queue, o), With(a, o.id, k))
      BY <1>2, <1>3, <1>4, <3>1, <3>2, <3>6, AddKeeps
    <3>. QED  BY <1>2, <3>1, <3>5, <3>7
  <2>2. CASE Cancels(e, a, b)
    <3>1. e.type = "Cancel" /\ e.order_id \in DOMAIN a /\ b = Less(a, e.order_id)
      BY <2>2 DEF Cancels
    <3>2. Book!Cancel(e.order_id)
      BY <1>7, <3>1 DEF AppliedToBook
    <3>3. queue' = M!AfterCancel(queue, e.order_id) /\ answer'.accepted
      BY <1>1, <3>1, <3>2, SameBook DEF Book!Cancel, Book!Answers
    <3>. QED  BY <3>1, <3>3, CancelKeeps
  <2>3. CASE Reduces(e, a, b)
    <3> DEFINE id == e.order_id
    <3>1. /\ e.type = "Modify" /\ id \in DOMAIN a /\ e.price = a[id].price
          /\ e.quantity \in Nat \ {0} /\ e.quantity <= a[id].quantity
      BY <2>3 DEF Reduces
    <3>2. PICK k \in Kept : /\ k.row = a[id].row /\ k.side = a[id].side
                            /\ k.price = a[id].price /\ k.quantity = e.quantity
                            /\ b = With(a, id, k)
      BY <2>3 DEF Reduces
    <3>3. Book!Modify(id, e.price, e.quantity)
      BY <1>7, <3>1 DEF AppliedToBook
    <3>4. id \in Book!RestingIds /\ e.quantity # 0 /\ e.price > 0
      BY <1>1, <1>3, <3>1, <3>2
    <3>5. queue' = M!AfterModify(queue, id, a[id].price, e.quantity) /\ answer'.accepted
      BY <3>1, <3>3, <3>4, SameBook DEF Book!Modify, Book!Answers
    <3> HIDE DEF id
    <3>6. BookIs(M!AfterModify(queue, id, a[id].price, e.quantity), With(a, id, k))
      BY <3>1, <3>2, ReduceKeeps
    <3>. QED  BY <3>2, <3>5, <3>6
  <2>. QED  BY <2>1, <2>2, <2>3 DEF Follows
<1>. QED  BY <1>6, <1>7 DEF AppliesEvent, RefusesEvent

----------------------------------------------------------------------------
(* The file, row by row                                                    *)

\* The row is one of those of id that are of the types.
IsAbout(row, id, types) ==
  row.id = id /\ row.type \in types /\ row.direction \in {1, -1}

\* The library of this module and that of M are the same.
LEMMA SameSum ==
  /\ \A f, s : SumFunctionOnSet(f, s) = M!SumFunctionOnSet(f, s)
  /\ \A s : IsFiniteSet(s) <=> M!IsFiniteSet(s)
<1>1. \A f, s : SumFunctionOnSet(f, s) = M!SumFunctionOnSet(f, s)
  BY Zenon DEF SumFunctionOnSet, FoldFunctionOnSet, MapThenFoldSet,
    M!SumFunctionOnSet, M!FoldFunctionOnSet, M!MapThenFoldSet
<1>2. \A s : IsFiniteSet(s) <=> M!IsFiniteSet(s)
  BY Zenon DEF IsFiniteSet, M!IsFiniteSet
<1>. QED  BY <1>1, <1>2

\* The rows of a file r about an id, what they took from the order that the row
\* n submitted, and the orders that stand at its end.
AboutIn(r, id, types) ==
  {n \in DOMAIN r : r[n].id = id /\ r[n].type \in types /\ r[n].direction \in {1, -1}}
RemovedIn(r, id, n) ==
  SumFunctionOnSet([m \in DOMAIN r |-> r[m].size], {m \in AboutIn(r, id, ReductionTypes) : m > n})
StandingIn(r) ==
  {n \in DOMAIN r :
     LET id == r[n].id
     IN  /\ n \in AboutIn(r, id, {SubmissionType}) /\ n = Max(AboutIn(r, id, {SubmissionType}))
         /\ \A m \in AboutIn(r, id, {DeletionType}) : m < n
         /\ RemovedIn(r, id, n) < r[n].size}

\* The definitions of LobsterReplay are these, of the rows read.
LEMMA SameRows ==
  /\ \A id, types : RowsAbout(id, types) = AboutIn(read, id, types)
  /\ \A id, types : RowsAbout(id, types)' = AboutIn(read', id, types)
  /\ \A id, n : RemovedSince(id, n) = RemovedIn(read, id, n)
  /\ \A id, n : RemovedSince(id, n)' = RemovedIn(read', id, n)
  /\ StandingRows = StandingIn(read) /\ StandingRows' = StandingIn(read')
  /\ \A id : SubmittedAt(id) = Max(AboutIn(read, id, {SubmissionType}))
<1>1. /\ \A id, types : RowsAbout(id, types) = AboutIn(read, id, types)
      /\ \A id, types : RowsAbout(id, types)' = AboutIn(read', id, types)
  BY Zenon DEF RowsAbout, AboutIn
<1>2. /\ \A id, n : RemovedSince(id, n) = RemovedIn(read, id, n)
      /\ \A id, n : RemovedSince(id, n)' = RemovedIn(read', id, n)
  BY Zenon DEF RemovedSince, RemovedIn, RowsAbout, AboutIn
<1>3. StandingRows = StandingIn(read) /\ StandingRows' = StandingIn(read')
  BY Zenon DEF StandingRows, StandingIn, SubmittedAt, RemovedSince, RemovedIn, RowsAbout, AboutIn
<1>4. \A id : SubmittedAt(id) = Max(AboutIn(read, id, {SubmissionType}))
  BY Zenon DEF SubmittedAt, RowsAbout, AboutIn
<1>. QED  BY <1>1, <1>2, <1>3, <1>4, Zenon

\* The last number of a set.
LEMMA MaxIs ==
  ASSUME NEW S, S \subseteq Int, NEW n \in S, \A m \in S : m <= n
  PROVE  Max(S) = n
<1>1. \A x \in S : (\A y \in S : x >= y) <=> x = n
  OBVIOUS
<1>2. Max(S) = CHOOSE x \in S : x = n
  <2>1. Max(S) = CHOOSE x \in S : \A y \in S : x >= y
    BY Zenon DEF Max
  <2> HIDE <1>1
  <2>. QED  BY <1>1, <2>1
<1>. QED  BY <1>2

\* The largest number of a finite set.
LEMMA MaxExists ==
  ASSUME NEW N \in Nat, NEW S, S \subseteq 1 .. N, S # {}
  PROVE  Max(S) \in S /\ \A m \in S : m <= Max(S)
<1> DEFINE T == {N - m : m \in S}
<1>1. T \subseteq Nat /\ T # {}
  <2>1. \A m \in S : N - m \in Nat
    OBVIOUS
  <2>2. PICK m \in S : TRUE
    OBVIOUS
  <2>. QED  BY <2>1, <2>2
<1>2. M!Min(T) \in T /\ \A n \in T : M!Min(T) <= n
  BY <1>1, M!LeastExists
<1>3. PICK x \in S : M!Min(T) = N - x
  BY <1>2
<1>4. \A m \in S : m <= x
  <2> TAKE m \in S
  <2>1. N - m \in T
    OBVIOUS
  <2>2. N - x <= N - m
    BY <1>2, <1>3, <2>1
  <2>3. m \in Int /\ x \in Int
    OBVIOUS
  <2>. QED  BY <2>2, <2>3
<1>5. S \subseteq Int /\ x \in S
  BY <1>3
<1>6. Max(S) = x
  BY <1>4, <1>5, MaxIs
<1>. QED  BY <1>4, <1>5, <1>6

\* What it is for a row to have submitted an order that stands.
LEMMA StandingIs ==
  ASSUME NEW r \in Seq(Rows), NEW n \in DOMAIN r
  PROVE  n \in StandingIn(r) <=>
           /\ n \in AboutIn(r, r[n].id, {SubmissionType})
           /\ \A m \in AboutIn(r, r[n].id, {SubmissionType, DeletionType}) : m <= n
           /\ RemovedIn(r, r[n].id, n) < r[n].size
<1> DEFINE id == r[n].id
           S == AboutIn(r, id, {SubmissionType})
<1>1. S \subseteq 1 .. Len(r) /\ Len(r) \in Nat /\ DOMAIN r = 1 .. Len(r)
  BY DEF AboutIn
<1>2. \A m \in DOMAIN r :
        /\ m \in AboutIn(r, id, {SubmissionType, DeletionType}) <=>
             m \in S \/ m \in AboutIn(r, id, {DeletionType})
        /\ ~(m \in S /\ m \in AboutIn(r, id, {DeletionType}))
  BY DEF AboutIn, SubmissionType, DeletionType
<1>3. AboutIn(r, id, {DeletionType}) \subseteq 1 .. Len(r)
      /\ AboutIn(r, id, {SubmissionType, DeletionType}) \subseteq DOMAIN r
  BY DEF AboutIn
<1>4. n \in StandingIn(r) <=>
           /\ n \in S /\ n = Max(S)
           /\ \A m \in AboutIn(r, id, {DeletionType}) : m < n
           /\ RemovedIn(r, id, n) < r[n].size
  BY DEF StandingIn
<1> HIDE DEF S, id
<1>5. n \in S => (n = Max(S) <=> \A m \in S : m <= n)
  BY <1>1, MaxIs, MaxExists
<1>6. n \in S => ((\A m \in S : m <= n) /\ (\A m \in AboutIn(r, id, {DeletionType}) : m < n)
                 <=> \A m \in AboutIn(r, id, {SubmissionType, DeletionType}) : m <= n)
  <2>1. ASSUME n \in S, NEW m \in AboutIn(r, id, {DeletionType}) PROVE m <= n <=> m < n
    <3>1. m \in 1 .. Len(r) /\ n \in 1 .. Len(r) /\ Len(r) \in Nat
      BY <1>1, <1>3, <2>1
    <3>2. m # n
      BY <1>2, <2>1
    <3>. QED  BY <3>1, <3>2
  <2> DEFINE D == AboutIn(r, id, {DeletionType})
             SD == AboutIn(r, id, {SubmissionType, DeletionType})
  <2>2. S \subseteq SD /\ D \subseteq SD /\ SD \subseteq S \cup D
    BY <1>1, <1>2, <1>3
  <2> HIDE DEF D, SD
  <2>. QED  BY <2>1, <2>2 DEF D, SD
<1>. QED  BY <1>4, <1>5, <1>6 DEF S, id

\* One more row is read: the rows there are,
LEMMA RowAdds ==
  ASSUME read \in Seq(Rows), NEW row \in Rows, read' = Append(read, row)
  PROVE  /\ read' \in Seq(Rows) /\ DOMAIN read' = 1 .. Len(read) + 1
         /\ Len(read) \in Nat /\ DOMAIN read = 1 .. Len(read)
         /\ \A n \in DOMAIN read : read'[n] = read[n]
         /\ read'[Len(read) + 1] = row
         /\ \A id, types : AboutIn(read', id, types) =
              AboutIn(read, id, types) \cup
                (IF IsAbout(row, id, types) THEN {Len(read) + 1} ELSE {})
<1>1. /\ read' \in Seq(Rows) /\ DOMAIN read' = 1 .. Len(read) + 1
      /\ Len(read) \in Nat /\ DOMAIN read = 1 .. Len(read)
      /\ \A n \in DOMAIN read : read'[n] = read[n]
      /\ read'[Len(read) + 1] = row
  OBVIOUS
<1>2. ASSUME NEW id, NEW types
      PROVE  AboutIn(read', id, types) = AboutIn(read, id, types) \cup
               (IF IsAbout(row, id, types) THEN {Len(read) + 1} ELSE {})
  <2>1. AboutIn(read, id, types) = {n \in DOMAIN read : IsAbout(read[n], id, types)}
        /\ AboutIn(read', id, types) = {n \in DOMAIN read' : IsAbout(read'[n], id, types)}
    BY Zenon DEF AboutIn, IsAbout
  <2>. QED  BY <1>1, <2>1
<1>. QED  BY <1>1, <1>2

\* what was removed from an order,
LEMMA RemovedAdds ==
  ASSUME read \in Seq(Rows), NEW row \in Rows, read' = Append(read, row),
         NEW id, NEW n \in DOMAIN read
  PROVE  /\ RemovedIn(read, id, n) \in Int /\ row.size \in Nat
         /\ RemovedIn(read', id, n) = RemovedIn(read, id, n)
              + (IF IsAbout(row, id, ReductionTypes) THEN row.size ELSE 0)
<1> DEFINE N == Len(read) + 1
           f == [m \in DOMAIN read |-> read[m].size]
           g == [m \in DOMAIN read' |-> read'[m].size]
           S == {m \in AboutIn(read, id, ReductionTypes) : m > n}
           T == {m \in AboutIn(read', id, ReductionTypes) : m > n}
<1>1. /\ read' \in Seq(Rows) /\ DOMAIN read' = 1 .. N
      /\ Len(read) \in Nat /\ DOMAIN read = 1 .. Len(read)
      /\ \A m \in DOMAIN read : read'[m] = read[m]
      /\ read'[N] = row
      /\ AboutIn(read', id, ReductionTypes) = AboutIn(read, id, ReductionTypes) \cup
           (IF IsAbout(row, id, ReductionTypes) THEN {N} ELSE {})
  BY RowAdds
<1>2. \A r \in Rows : r.size \in Nat
  BY FileAssumption
<1>3. \A m \in DOMAIN read : read[m] \in Rows
  OBVIOUS
<1>4. /\ \A m \in DOMAIN read : f[m] = read[m].size /\ f[m] \in Int /\ g[m] = f[m]
      /\ g[N] = row.size /\ row.size \in Nat /\ N \notin DOMAIN read
  BY <1>1, <1>2, <1>3
<1>5. S \subseteq DOMAIN read /\ IsFiniteSet(S)
  <2>1. S \in SUBSET (1 .. Len(read))
    BY <1>1 DEF AboutIn
  <2>2. IsFiniteSet(1 .. Len(read))
    BY <1>1, FS_Interval
  <2>. QED  BY <1>1, <2>1, <2>2, FS_Subset
<1>6. T = IF IsAbout(row, id, ReductionTypes) THEN S \cup {N} ELSE S
  BY <1>1
<1>7. /\ RemovedIn(read, id, n) = M!SumFunctionOnSet(f, S)
      /\ RemovedIn(read', id, n) = M!SumFunctionOnSet(g, T)
  <2>1. /\ RemovedIn(read, id, n) = SumFunctionOnSet(f, S)
        /\ RemovedIn(read', id, n) = SumFunctionOnSet(g, T)
    BY Zenon DEF RemovedIn
  <2> HIDE DEF f, g, S, T
  <2>. QED  BY <2>1, SameSum
<1> HIDE DEF f, g, S, T, N
<1>8. M!SumFunctionOnSet(f, S) \in Int /\ M!SumFunctionOnSet(g, S) = M!SumFunctionOnSet(f, S)
  <2>1. (\A x \in S : f[x] \in Int) /\ (\A x \in S : g[x] = f[x])
    BY <1>4, <1>5
  <2>2. M!SumFunctionOnSet(f, S) \in Int
    BY <1>5, <2>1, SameSum, M!SumIsInteger
  <2>3. M!SumFunctionOnSet(g, S) = M!SumFunctionOnSet(f, S)
    BY <1>5, <2>1, SameSum, M!SumSame
  <2>. QED  BY <2>2, <2>3
<1>9. CASE IsAbout(row, id, ReductionTypes)
  <2>1. T = S \cup {N} /\ N \notin S /\ T \ {N} = S /\ N \in T
    BY <1>4, <1>5, <1>6, <1>9
  <2>2. IsFiniteSet(T) /\ \A x \in T : g[x] \in Int
    <3>1. IsFiniteSet(T)
      BY <1>5, <2>1, FS_AddElement
    <3>2. \A x \in S : g[x] \in Int
      BY <1>4, <1>5
    <3>3. g[N] \in Int
      BY <1>4
    <3>. QED  BY <2>1, <3>1, <3>2, <3>3
  <2>3. M!SumFunctionOnSet(g, T) = g[N] + M!SumFunctionOnSet(g, T \ {N})
    BY <2>1, <2>2, SameSum, M!SumTakes
  <2>4. /\ g[N] = row.size /\ row.size \in Nat
        /\ RemovedIn(read', id, n) = g[N] + M!SumFunctionOnSet(g, S)
        /\ M!SumFunctionOnSet(g, S) = RemovedIn(read, id, n) /\ RemovedIn(read, id, n) \in Int
    BY <1>4, <1>7, <1>8, <2>1, <2>3, Zenon
  <2>. QED  BY <1>9, <2>4
<1>10. CASE ~IsAbout(row, id, ReductionTypes)
  BY <1>4, <1>6, <1>7, <1>8, <1>10
<1>. QED  BY <1>9, <1>10

\* and the orders that stand.
Ends(row, n) ==
  \/ IsAbout(row, read[n].id, {SubmissionType, DeletionType})
  \/ /\ IsAbout(row, read[n].id, ReductionTypes)
     /\ RemovedIn(read, read[n].id, n) + row.size >= read[n].size

\* One more row: what stood stands but for the order it ends, and a submission
\* stands.
LEMMA StandingAdds ==
  ASSUME read \in Seq(Rows), NEW row \in Rows, read' = Append(read, row)
  PROVE  StandingIn(read') = {n \in StandingIn(read) : ~Ends(row, n)} \cup
           (IF row.type = SubmissionType /\ row.direction \in {1, -1} THEN {Len(read) + 1} ELSE {})
<1> DEFINE N == Len(read) + 1
           Final == {SubmissionType, DeletionType}
<1>1. /\ read' \in Seq(Rows) /\ DOMAIN read' = 1 .. N
      /\ Len(read) \in Nat /\ DOMAIN read = 1 .. Len(read)
      /\ \A m \in DOMAIN read : read'[m] = read[m]
      /\ read'[N] = row
  BY RowAdds
<1>2. \A id, types : AboutIn(read', id, types) = AboutIn(read, id, types) \cup
        (IF IsAbout(row, id, types) THEN {N} ELSE {})
  BY RowAdds
<1>3. \A id, types : AboutIn(read, id, types) \subseteq DOMAIN read
  BY DEF AboutIn
<1>4. ASSUME NEW n \in DOMAIN read
      PROVE  n \in StandingIn(read') <=> n \in StandingIn(read) /\ ~Ends(row, n)
  <2> DEFINE id == read[n].id
             removed == RemovedIn(read, id, n)
  <2>1. n \in StandingIn(read) <=>
           /\ n \in AboutIn(read, id, {SubmissionType})
           /\ \A m \in AboutIn(read, id, Final) : m <= n
           /\ removed < read[n].size
    BY StandingIs
  <2>2. n \in DOMAIN read' /\ read'[n] = read[n] /\ read[n].size \in Nat
    <3>1. read[n] \in Rows
      OBVIOUS
    <3>. QED  BY <1>1, <3>1, FileAssumption
  <2>3. n \in StandingIn(read') <=>
           /\ n \in AboutIn(read', id, {SubmissionType})
           /\ \A m \in AboutIn(read', id, Final) : m <= n
           /\ RemovedIn(read', id, n) < read[n].size
    <3> HIDE DEF Final
    <3>1. n \in StandingIn(read') <=>
           /\ n \in AboutIn(read', read'[n].id, {SubmissionType})
           /\ \A m \in AboutIn(read', read'[n].id, Final) : m <= n
           /\ RemovedIn(read', read'[n].id, n) < read'[n].size
      BY <1>1, <2>2, StandingIs DEF Final
    <3>. QED  BY <2>2, <3>1
  <2>4. /\ removed \in Int /\ row.size \in Nat
        /\ RemovedIn(read', id, n) = removed
             + (IF IsAbout(row, id, ReductionTypes) THEN row.size ELSE 0)
    BY RemovedAdds
  <2> HIDE DEF removed, id
  <2>5. n \in AboutIn(read', id, {SubmissionType}) <=> n \in AboutIn(read, id, {SubmissionType})
    BY <1>1, <1>2
  <2>6. (\A m \in AboutIn(read', id, Final) : m <= n) <=>
          ~IsAbout(row, id, Final) /\ \A m \in AboutIn(read, id, Final) : m <= n
    <3> HIDE DEF Final
    <3>1. AboutIn(read', id, Final) = AboutIn(read, id, Final) \cup
            (IF IsAbout(row, id, Final) THEN {N} ELSE {})
      BY <1>2
    <3>2. ~(N <= n)
      BY <1>1
    <3>. QED  BY <3>1, <3>2
  <2>7. Ends(row, n) <=> IsAbout(row, id, Final) \/
                         (IsAbout(row, id, ReductionTypes) /\ removed + row.size >= read[n].size)
    BY DEF Ends, id, removed
  <2> HIDE DEF Final
  <2>. QED  BY <2>1, <2>2, <2>3, <2>4, <2>5, <2>6, <2>7 DEF id
<1>5. N \in StandingIn(read') <=> row.type = SubmissionType /\ row.direction \in {1, -1}
  <2>1. N \in DOMAIN read' /\ read'[N] = row
    BY <1>1
  <2>2. N \in StandingIn(read') <=>
           /\ N \in AboutIn(read', row.id, {SubmissionType})
           /\ \A m \in AboutIn(read', row.id, Final) : m <= N
           /\ RemovedIn(read', row.id, N) < row.size
    BY <1>1, <2>1, StandingIs
  <2>3. \A types : AboutIn(read', row.id, types) \subseteq 1 .. N
    BY <1>1 DEF AboutIn
  <2>4. N \in AboutIn(read', row.id, {SubmissionType})
          <=> row.type = SubmissionType /\ row.direction \in {1, -1}
    BY <2>1 DEF AboutIn
  <2>5. RemovedIn(read', row.id, N) = 0
    <3>1. {m \in AboutIn(read', row.id, ReductionTypes) : m > N} = {}
      BY <1>1, <2>3
    <3>2. RemovedIn(read', row.id, N) = SumFunctionOnSet([m \in DOMAIN read' |-> read'[m].size], {})
      BY <3>1, Zenon DEF RemovedIn
    <3>. QED  BY <3>2, SameSum, M!SumOfNone
  <2>6. row.type = SubmissionType => 0 < row.size
    BY FileAssumption
  <2>. QED  BY <1>1, <2>2, <2>3, <2>4, <2>5, <2>6
<1>6. StandingIn(read) \subseteq DOMAIN read /\ StandingIn(read') \subseteq DOMAIN read'
  BY DEF StandingIn
<1>. QED  BY <1>1, <1>4, <1>5, <1>6

----------------------------------------------------------------------------
(* The loader's map of orders, against the file                            *)

\* The order k of id is the one its row submitted, less what was removed since.
RowOf(r, id, k) ==
  /\ k.row \in DOMAIN r /\ r[k.row].id = id /\ r[k.row].price = k.price
  /\ (r[k.row].direction = 1) = (k.side = "Buy")
  /\ k.quantity = r[k.row].size - RemovedIn(r, id, k.row)

\* The ledger a is what stands in the file r.
LedgerOf(r, a) ==
  /\ IsLedger(a)
  /\ StandingIn(r) = {a[id].row : id \in DOMAIN a}
  /\ \A id \in DOMAIN a : RowOf(r, id, a[id])

\* The row ends the order k of id: there is another of the id, none or nothing left.
EndsOrder(row, id, k) ==
  \/ IsAbout(row, id, {SubmissionType, DeletionType})
  \/ IsAbout(row, id, ReductionTypes) /\ row.size >= k.quantity

\* What one more row makes of the orders that stand,
LEMMA LedgerRows ==
  ASSUME read \in Seq(Rows), NEW row \in Rows, read' = Append(read, row),
         NEW a, LedgerOf(read, a)
  PROVE  StandingIn(read') =
           {a[id].row : id \in {i \in DOMAIN a : ~EndsOrder(row, i, a[i])}} \cup
             (IF row.type = SubmissionType /\ row.direction \in {1, -1}
                THEN {Len(read) + 1} ELSE {})
<1>1. ASSUME NEW id \in DOMAIN a
      PROVE  Ends(row, a[id].row) <=> EndsOrder(row, id, a[id])
  <2> DEFINE n == a[id].row
  <2>1. /\ n \in DOMAIN read /\ read[n].id = id
        /\ a[id].quantity = read[n].size - RemovedIn(read, id, n)
    BY DEF LedgerOf, RowOf
  <2>2. RemovedIn(read, id, n) \in Int /\ row.size \in Nat /\ read[n].size \in Nat
    <3>1. read[n] \in Rows
      BY <2>1
    <3>. QED  BY <2>1, <3>1, RemovedAdds, FileAssumption
  <2> HIDE DEF n
  <2>3. RemovedIn(read, id, n) + row.size >= read[n].size <=> row.size >= a[id].quantity
    BY <2>1, <2>2
  <2>. QED  BY <2>1, <2>3 DEF Ends, EndsOrder, n
<1>2. {n \in StandingIn(read) : ~Ends(row, n)}
        = {a[id].row : id \in {i \in DOMAIN a : ~EndsOrder(row, i, a[i])}}
  BY <1>1 DEF LedgerOf
<1>. QED  BY <1>2, StandingAdds

\* and of the size of one of them.
LEMMA RowAfter ==
  ASSUME read \in Seq(Rows), NEW row \in Rows, read' = Append(read, row),
         NEW a, LedgerOf(read, a), NEW id \in DOMAIN a,
         NEW k, k.row = a[id].row, k.side = a[id].side, k.price = a[id].price,
         k.quantity = a[id].quantity - (IF IsAbout(row, id, ReductionTypes) THEN row.size ELSE 0)
  PROVE  RowOf(read', id, k)
<1> DEFINE n == a[id].row
<1>1. /\ n \in DOMAIN read /\ read[n].id = id /\ read[n].price = a[id].price
      /\ (read[n].direction = 1) = (a[id].side = "Buy")
      /\ a[id].quantity = read[n].size - RemovedIn(read, id, n)
  BY DEF LedgerOf, RowOf
<1>2. n \in DOMAIN read' /\ read'[n] = read[n]
  BY <1>1, RowAdds
<1>3. /\ RemovedIn(read, id, n) \in Int /\ row.size \in Nat /\ read[n].size \in Nat
      /\ RemovedIn(read', id, n) = RemovedIn(read, id, n)
            + (IF IsAbout(row, id, ReductionTypes) THEN row.size ELSE 0)
  <2>1. read[n] \in Rows
    BY <1>1
  <2>. QED  BY <1>1, <2>1, RemovedAdds, FileAssumption
<1> HIDE DEF n
<1>4. k.quantity = read[n].size - RemovedIn(read', id, n)
  BY <1>1, <1>3
<1>. QED  BY <1>1, <1>2, <1>4 DEF RowOf, n

\* A row that touches no order that stands and submits none.
LEMMA LedgerStays ==
  ASSUME read \in Seq(Rows), NEW row \in Rows, read' = Append(read, row),
         NEW a, LedgerOf(read, a),
         ~(row.type = SubmissionType /\ row.direction \in {1, -1}),
         \A id \in DOMAIN a : ~IsAbout(row, id, {DeletionType} \cup ReductionTypes)
  PROVE  LedgerOf(read', a)
<1>1. ASSUME NEW id \in DOMAIN a
      PROVE  ~IsAbout(row, id, ReductionTypes) /\ ~EndsOrder(row, id, a[id])
  BY DEF IsAbout, EndsOrder
<1>2. {i \in DOMAIN a : ~EndsOrder(row, i, a[i])} = DOMAIN a
  BY <1>1
<1>3. StandingIn(read') = {a[id].row : id \in DOMAIN a}
  BY <1>2, LedgerRows
<1>4. ASSUME NEW id \in DOMAIN a PROVE RowOf(read', id, a[id])
  <2>1. a[id].quantity = a[id].quantity - (IF IsAbout(row, id, ReductionTypes) THEN row.size ELSE 0)
    BY <1>1 DEF LedgerOf, IsLedger, Kept
  <2>. QED  BY <2>1, RowAfter
<1>. QED  BY <1>3, <1>4 DEF LedgerOf

\* A submission.
LEMMA LedgerGrows ==
  ASSUME read \in Seq(Rows), NEW row \in Rows, read' = Append(read, row),
         NEW a, LedgerOf(read, a),
         row.type = SubmissionType, row.direction \in {1, -1}, row.id \notin DOMAIN a,
         NEW k \in Kept, k.row = Len(read) + 1, k.price = row.price, k.quantity = row.size,
         k.side = IF row.direction = 1 THEN "Buy" ELSE "Sell"
  PROVE  /\ LedgerOf(read', With(a, row.id, k))
         /\ \A id \in DOMAIN a : a[id].row < k.row
<1> DEFINE b == With(a, row.id, k)
           N == Len(read) + 1
<1>1. /\ DOMAIN b = DOMAIN a \cup {row.id} /\ b[row.id] = k
      /\ \A id \in DOMAIN a : b[id] = a[id]
  BY DEF With
<1>2. IsLedger(b)
  <2>1. row.id \in OrderIds \ {0}
    BY FileAssumption
  <2>2. DOMAIN a \subseteq OrderIds \ {0} /\ \A id \in DOMAIN a : a[id] \in Kept
    BY DEF LedgerOf, IsLedger
  <2>3. b \in [DOMAIN a \cup {row.id} -> Kept]
    BY <2>2 DEF With
  <2>. QED  BY <1>1, <2>1, <2>2, <2>3 DEF IsLedger
<1> HIDE DEF b
<1>3. ASSUME NEW id \in DOMAIN a
      PROVE  ~IsAbout(row, id, ReductionTypes) /\ ~EndsOrder(row, id, a[id])
  BY DEF IsAbout, EndsOrder
<1>4. {i \in DOMAIN a : ~EndsOrder(row, i, a[i])} = DOMAIN a
  BY <1>3
<1>5. StandingIn(read') = {a[id].row : id \in DOMAIN a} \cup {N}
  BY <1>4, LedgerRows
<1>6. StandingIn(read') = {b[id].row : id \in DOMAIN b}
  BY <1>1, <1>5
<1>7. ASSUME NEW id \in DOMAIN a PROVE RowOf(read', id, a[id])
  <2>1. a[id].quantity = a[id].quantity - (IF IsAbout(row, id, ReductionTypes) THEN row.size ELSE 0)
    BY <1>3 DEF LedgerOf, IsLedger, Kept
  <2>. QED  BY <2>1, RowAfter
<1>8. N \in DOMAIN read' /\ read'[N] = row /\ Len(read) \in Nat /\ DOMAIN read = 1 .. Len(read)
      /\ DOMAIN read' = 1 .. N
  BY RowAdds
<1>9. RemovedIn(read', row.id, N) = 0
  <2>1. {m \in AboutIn(read', row.id, ReductionTypes) : m > N} = {}
    BY <1>8 DEF AboutIn
  <2>2. RemovedIn(read', row.id, N) = SumFunctionOnSet([m \in DOMAIN read' |-> read'[m].size], {})
    BY <2>1, Zenon DEF RemovedIn
  <2>. QED  BY <2>2, SameSum, M!SumOfNone
<1>10. RowOf(read', row.id, k)
  <2>1. row.size \in Nat
    BY FileAssumption
  <2>. QED  BY <1>8, <1>9, <2>1 DEF RowOf
<1>11. \A id \in DOMAIN b : RowOf(read', id, b[id])
  BY <1>1, <1>7, <1>10
<1>12. \A id \in DOMAIN a : a[id].row < N
  <2>1. \A id \in DOMAIN a : a[id].row \in DOMAIN read
    BY DEF LedgerOf, RowOf
  <2>. QED  BY <1>8, <2>1
<1>. QED  BY <1>2, <1>6, <1>11, <1>12 DEF LedgerOf, b

\* A deletion, or a reduction by all that is left.
LEMMA LedgerShrinks ==
  ASSUME read \in Seq(Rows), NEW row \in Rows, read' = Append(read, row),
         NEW a, LedgerOf(read, a), row.id \in DOMAIN a, row.direction \in {1, -1},
         \/ row.type = DeletionType
         \/ (row.type \in ReductionTypes /\ row.size = a[row.id].quantity)
  PROVE  LedgerOf(read', Less(a, row.id))
<1> DEFINE b == Less(a, row.id)
<1>1. DOMAIN b = DOMAIN a \ {row.id} /\ \A id \in DOMAIN b : b[id] = a[id]
  BY DEF Less
<1>2. IsLedger(b)
  <2>1. DOMAIN a \subseteq OrderIds \ {0} /\ \A id \in DOMAIN a : a[id] \in Kept
    BY DEF LedgerOf, IsLedger
  <2>2. b \in [DOMAIN a \ {row.id} -> Kept]
    BY <2>1 DEF Less
  <2>. QED  BY <1>1, <2>1, <2>2 DEF IsLedger
<1> HIDE DEF b
<1>3. ASSUME NEW id \in DOMAIN a
      PROVE  EndsOrder(row, id, a[id]) <=> id = row.id
  <2>1. CASE id = row.id
    <3>1. a[id].quantity \in Nat
      BY DEF LedgerOf, IsLedger, Kept
    <3>. QED  BY <2>1, <3>1 DEF IsAbout, EndsOrder
  <2>2. CASE id # row.id
    BY <2>2 DEF IsAbout, EndsOrder
  <2>. QED  BY <2>1, <2>2
<1>4. {i \in DOMAIN a : ~EndsOrder(row, i, a[i])} = DOMAIN b
  BY <1>1, <1>3
<1>5. ~(row.type = SubmissionType)
  BY DEF SubmissionType, DeletionType, ReductionTypes
<1>6. StandingIn(read') = {a[id].row : id \in DOMAIN b}
  BY <1>4, <1>5, LedgerRows
<1>7. StandingIn(read') = {b[id].row : id \in DOMAIN b}
  BY <1>1, <1>6
<1>8. ASSUME NEW id \in DOMAIN b PROVE RowOf(read', id, b[id])
  <2>1. ~IsAbout(row, id, ReductionTypes) /\ id \in DOMAIN a /\ b[id] = a[id]
    BY <1>1 DEF IsAbout
  <2>2. a[id].quantity = a[id].quantity - (IF IsAbout(row, id, ReductionTypes) THEN row.size ELSE 0)
    BY <2>1 DEF LedgerOf, IsLedger, Kept
  <2>. QED  BY <2>1, <2>2, RowAfter
<1>. QED  BY <1>2, <1>7, <1>8 DEF LedgerOf, b

\* A reduction that leaves something.
LEMMA LedgerReduces ==
  ASSUME read \in Seq(Rows), NEW row \in Rows, read' = Append(read, row),
         NEW a, LedgerOf(read, a), row.id \in DOMAIN a, row.direction \in {1, -1},
         row.type \in ReductionTypes, row.size < a[row.id].quantity,
         NEW k \in Kept, k.row = a[row.id].row, k.side = a[row.id].side,
         k.price = a[row.id].price, k.quantity = a[row.id].quantity - row.size
  PROVE  LedgerOf(read', With(a, row.id, k))
<1> DEFINE b == With(a, row.id, k)
<1>1. /\ DOMAIN b = DOMAIN a /\ b[row.id] = k
      /\ \A id \in DOMAIN a : id # row.id => b[id] = a[id]
  BY DEF With
<1>2. IsLedger(b)
  <2>1. DOMAIN a \subseteq OrderIds \ {0} /\ \A id \in DOMAIN a : a[id] \in Kept
    BY DEF LedgerOf, IsLedger
  <2>2. b \in [DOMAIN a -> Kept]
    BY <2>1 DEF With
  <2>. QED  BY <1>1, <2>1, <2>2 DEF IsLedger
<1> HIDE DEF b
<1>3. ~(row.type \in {SubmissionType, DeletionType})
  BY DEF SubmissionType, DeletionType, ReductionTypes
<1>4. ASSUME NEW id \in DOMAIN a PROVE ~EndsOrder(row, id, a[id])
  <2>1. row.size \in Nat /\ a[id].quantity \in Nat
    BY FileAssumption DEF LedgerOf, IsLedger, Kept
  <2>. QED  BY <1>3, <2>1 DEF IsAbout, EndsOrder
<1>5. {i \in DOMAIN a : ~EndsOrder(row, i, a[i])} = DOMAIN a
  BY <1>4
<1>6. StandingIn(read') = {a[id].row : id \in DOMAIN a}
  BY <1>3, <1>5, LedgerRows
<1>7. \A id \in DOMAIN a : b[id].row = a[id].row
  BY <1>1
<1>8. StandingIn(read') = {b[id].row : id \in DOMAIN b}
  BY <1>1, <1>6, <1>7
<1>9. ASSUME NEW id \in DOMAIN b PROVE RowOf(read', id, b[id])
  <2>1. CASE id = row.id
    <3>1. IsAbout(row, id, ReductionTypes) /\ b[id] = k
      BY <1>1, <2>1 DEF IsAbout
    <3>2. k.quantity = a[id].quantity - (IF IsAbout(row, id, ReductionTypes) THEN row.size ELSE 0)
      BY <2>1, <3>1
    <3>. QED  BY <1>1, <2>1, <3>1, <3>2, RowAfter
  <2>2. CASE id # row.id
    <3>1. ~IsAbout(row, id, ReductionTypes) /\ id \in DOMAIN a /\ b[id] = a[id]
      BY <1>1, <2>2 DEF IsAbout
    <3>2. a[id].quantity
            = a[id].quantity - (IF IsAbout(row, id, ReductionTypes) THEN row.size ELSE 0)
      BY <3>1 DEF LedgerOf, IsLedger, Kept
    <3>. QED  BY <3>1, <3>2, RowAfter
  <2>. QED  BY <2>1, <2>2
<1>. QED  BY <1>2, <1>8, <1>9 DEF LedgerOf, b

----------------------------------------------------------------------------
(* The invariant                                                           *)

\* What the loader makes of a row.
Converted ==
  [sequence_number : Nat, type : {"Add", "Cancel", "Modify"}, order_id : OrderIds,
   side : M!Sides, price : Int, quantity : Nat, participant_id : {0}, symbol_id : {SymbolId}]

\* The ledgers h after none, one, two ... of the events ev.
HistoryOf(h, ev) ==
  /\ ev \in Seq(Converted)
  /\ DOMAIN h[0] = {}
  /\ \A k \in 0 .. Len(ev) : IsLedger(h[k])
  /\ \A k \in 1 .. Len(ev) : EventTyped(ev[k], k) /\ Follows(ev[k], h[k - 1], h[k])

\* The loader's map m is the ledger a, but for the rows.
ActiveOf(m, a) ==
  /\ DOMAIN m = DOMAIN a
  /\ \A id \in DOMAIN a :
       m[id] = [side |-> a[id].side, price |-> a[id].price, quantity |-> a[id].quantity]

\* What has been converted is what stands in the file so far.
LoaderInv(h) ==
  /\ loading \in {"reading", "loaded", "failed"}
  /\ read \in Seq(Rows) /\ Len(events) <= Len(read) /\ Len(read) <= MaxRows
  /\ loading # "failed" =>
       LedgerOf(read, h[Len(events)]) /\ ActiveOf(activeOrders, h[Len(events)])

\* The book is where the events applied leave it.
BookInv(h) ==
  /\ DOMAIN result = DOMAIN NewResult
  /\ result.rejected = 0 /\ result.applied \in 0 .. Len(events)
  /\ loading # "loaded" => ~replaying /\ ~result.completed
  /\ replaying =>
       /\ result.completed
       /\ rest \in Seq(Converted)
       /\ Len(rest) = Len(events) - result.applied
       /\ \A n \in 1 .. Len(rest) : rest[n] = events[result.applied + n]
       /\ result.applied > 0 /\ rest # << >> => expected = result.applied + 1
       /\ BookIs(queue, h[result.applied])
  /\ ~replaying /\ result.completed =>
       result.applied = Len(events) /\ BookIs(queue, h[Len(events)])
  /\ ~result.completed => result.applied = 0 /\ BookIs(queue, h[0])

\* The invariant: there are ledgers that the loader and the book follow.
LobsterInv == \E h : HistoryOf(h, events) /\ LoaderInv(h) /\ BookInv(h)

\* One more event, and where it leads.
LEMMA HistoryGrows ==
  ASSUME NEW h, HistoryOf(h, events), NEW e \in Converted, EventTyped(e, Len(events) + 1),
         NEW b, IsLedger(b), Follows(e, h[Len(events)], b)
  PROVE  \E g : /\ HistoryOf(g, Append(events, e))
                /\ g[0] = h[0] /\ g[Len(Append(events, e))] = b
<1> DEFINE N == Len(events) + 1
           g == [k \in 0 .. N |-> IF k < N THEN h[k] ELSE b]
           ev == Append(events, e)
<1>1. /\ ev \in Seq(Converted) /\ Len(ev) = N /\ N \in Nat /\ N > 0 /\ Len(events) \in Nat
      /\ \A k \in 1 .. Len(events) : ev[k] = events[k]
      /\ ev[N] = e
  BY DEF HistoryOf
<1>2. /\ \A k \in 0 .. Len(events) : g[k] = h[k]
      /\ g[N] = b
  BY <1>1
<1> HIDE DEF g, ev
<1>3. \A k \in 0 .. N : IsLedger(g[k])
  <2> TAKE k \in 0 .. N
  <2>1. CASE k = N
    BY <1>2, <2>1
  <2>2. CASE k # N
    <3>1. k \in 0 .. Len(events)
      BY <1>1, <2>2
    <3>. QED  BY <1>2, <3>1 DEF HistoryOf
  <2>. QED  BY <2>1, <2>2
<1>4. \A k \in 1 .. N : EventTyped(ev[k], k) /\ Follows(ev[k], g[k - 1], g[k])
  <2> TAKE k \in 1 .. N
  <2>1. CASE k = N
    <3>1. N - 1 = Len(events) /\ Len(events) \in 0 .. Len(events)
      BY <1>1
    <3>. QED  BY <1>1, <1>2, <2>1, <3>1
  <2>2. CASE k # N
    <3>1. k \in 1 .. Len(events) /\ k \in 0 .. Len(events) /\ k - 1 \in 0 .. Len(events)
      BY <1>1, <2>2
    <3>2. EventTyped(events[k], k) /\ Follows(events[k], h[k - 1], h[k])
      BY <3>1 DEF HistoryOf
    <3>3. ev[k] = events[k] /\ g[k - 1] = h[k - 1] /\ g[k] = h[k]
      BY <1>1, <1>2, <3>1
    <3>. QED  BY <3>2, <3>3
  <2>. QED  BY <2>1, <2>2
<1>5. g[0] = h[0] /\ DOMAIN g[0] = {}
  BY <1>1, <1>2 DEF HistoryOf
<1>6. HistoryOf(g, ev)
  BY <1>1, <1>3, <1>4, <1>5 DEF HistoryOf
<1>7. g[Len(ev)] = b
  BY <1>1, <1>2
<1>. QED  BY <1>5, <1>6, <1>7 DEF ev

----------------------------------------------------------------------------
(* The loader's steps                                                      *)

\* A step of the loader keeps what it should of the ledgers, extended or not.
Keeps(h) == \E g : HistoryOf(g, events') /\ LoaderInv(g)' /\ g[0] = h[0]

\* Where an exception ends the conversion nothing is claimed of the file.
LEMMA ThrowKeeps ==
  ASSUME NEW h, HistoryOf(h, events), LoaderInv(h), Throws,
         read' \in Seq(Rows), Len(read') <= MaxRows
  PROVE  Keeps(h)
<1>1. HistoryOf(h, events')
  <2>1. events' = << >> /\ events' \in Seq(Converted) /\ Len(events') = 0
    BY DEF Throws
  <2>2. IsLedger(h[0]) /\ DOMAIN h[0] = {}
    BY DEF HistoryOf
  <2>. QED  BY <2>1, <2>2 DEF HistoryOf
<1>2. LoaderInv(h)'
  BY DEF Throws, LoaderInv
<1>. QED  BY <1>1, <1>2 DEF Keeps

\* A row that leaves the events and the map of orders as they are.
LEMMA NoEventKeeps ==
  ASSUME NEW h, HistoryOf(h, events), LoaderInv(h), NEW row \in Rows,
         loading = "reading", Len(read) < MaxRows, read' = Append(read, row),
         UNCHANGED <<loading, events, activeOrders>>,
         ~(row.type = SubmissionType /\ row.direction \in {1, -1}),
         \A id \in DOMAIN activeOrders : ~IsAbout(row, id, {DeletionType} \cup ReductionTypes)
  PROVE  Keeps(h)
<1> DEFINE a == h[Len(events)]
<1>1. read \in Seq(Rows) /\ LedgerOf(read, a) /\ ActiveOf(activeOrders, a)
  BY DEF LoaderInv
<1>2. LedgerOf(read', a)
  <2> HIDE DEF a
  <2>1. DOMAIN activeOrders = DOMAIN a
    BY <1>1 DEF ActiveOf
  <2>. QED  BY <1>1, <2>1, LedgerStays
<1>3. read' \in Seq(Rows) /\ Len(read') = Len(read) + 1 /\ Len(read) \in Nat
  BY <1>1
<1>4. Len(events') <= Len(read') /\ Len(read') <= MaxRows
  BY <1>3, FileAssumption DEF LoaderInv, HistoryOf
<1>5. LoaderInv(h)'
  BY <1>1, <1>2, <1>3, <1>4 DEF LoaderInv
<1>. QED  BY <1>5 DEF Keeps

\* A row that makes an event.
LEMMA EventKept ==
  ASSUME NEW h, HistoryOf(h, events), LoaderInv(h), NEW row \in Rows,
         loading = "reading", Len(read) < MaxRows, read' = Append(read, row),
         NEW e \in Converted, EventTyped(e, Len(events) + 1), Converts(e),
         NEW b, LedgerOf(read', b), Follows(e, h[Len(events)], b), ActiveOf(activeOrders', b)
  PROVE  Keeps(h)
<1>1. PICK g : HistoryOf(g, Append(events, e)) /\ g[0] = h[0] /\ g[Len(Append(events, e))] = b
  <2>1. IsLedger(b)
    BY DEF LedgerOf
  <2>. QED  BY <2>1, HistoryGrows
<1>2. events' = Append(events, e) /\ loading' = "reading"
  BY DEF Converts
<1>3. /\ read' \in Seq(Rows) /\ Len(read') = Len(read) + 1 /\ Len(read) \in Nat
      /\ Len(events') = Len(events) + 1 /\ Len(events) \in Nat
  BY <1>2 DEF LoaderInv, HistoryOf
<1>4. Len(events') <= Len(read') /\ Len(read') <= MaxRows
  BY <1>3, FileAssumption DEF LoaderInv
<1>5. g[Len(events')] = b
  BY <1>1, <1>2
<1>6. LoaderInv(g)'
  BY <1>2, <1>3, <1>4, <1>5 DEF LoaderInv
<1>. QED  BY <1>1, <1>2, <1>6 DEF Keeps

\* A row that is about no order, or of no type that matters.
LEMMA IgnoreKeeps ==
  ASSUME NEW h, HistoryOf(h, events), LoaderInv(h), NEW row \in Rows, IgnoreRow(row)
  PROVE  Keeps(h)
BY NoEventKeeps DEF IgnoreRow, Ignores, IsAbout

\* A new order.
LEMMA SubmissionKeeps ==
  ASSUME NEW h, HistoryOf(h, events), LoaderInv(h), NEW row \in Rows, Submission(row)
  PROVE  Keeps(h)
<1> DEFINE a == h[Len(events)]
<1>1. /\ loading = "reading" /\ Len(read) < MaxRows /\ read' = Append(read, row)
      /\ row.direction \in {1, -1} /\ row.type = SubmissionType
  BY DEF Submission, Reads
<1>2. read \in Seq(Rows) /\ LedgerOf(read, a) /\ ActiveOf(activeOrders, a)
  BY <1>1 DEF LoaderInv
<1>3. /\ row.id \in OrderIds \ {0} /\ row.size \in Nat \ {0}
      /\ row.price \in Prices /\ row.price > 0 /\ row.price \in Int
  BY <1>1, FileAssumption
<1>4. /\ read' \in Seq(Rows) /\ Len(read') = Len(read) + 1
      /\ Len(read) \in Nat /\ Len(read') <= MaxRows
  BY <1>1, <1>2, FileAssumption
<1>5. CASE row.id \in DOMAIN activeOrders
  BY <1>4, <1>5, ThrowKeeps DEF Submission
<1>6. CASE row.id \notin DOMAIN activeOrders
  <2> DEFINE side == IF row.direction = 1 THEN "Buy" ELSE "Sell"
             o == [side |-> side, price |-> row.price, quantity |-> row.size]
             k == [row |-> Len(read) + 1, side |-> side, price |-> row.price,
                   quantity |-> row.size]
             e == AddEvent(row.id, o)
             b == With(a, row.id, k)
  <2>1. Converts(e) /\ activeOrders' = Standing(row.id, o)
    BY <1>6, Zenon DEF Submission
  <2>2. side \in M!Sides
    BY DEF M!Sides
  <2> HIDE DEF side, a
  <2>3. k \in Kept
    BY <1>3, <1>4, <2>2 DEF Kept
  <2>4. DOMAIN activeOrders = DOMAIN a /\ row.id \notin DOMAIN a
    BY <1>2, <1>6 DEF ActiveOf
  <2>5. LedgerOf(read', b) /\ \A id \in DOMAIN a : a[id].row < k.row
    BY <1>1, <1>2, <2>3, <2>4, LedgerGrows DEF side
  <2>6. /\ e \in Converted /\ EventTyped(e, Len(events) + 1)
        /\ e.type = "Add" /\ e.order_id = row.id /\ e.side = side /\ e.price = row.price
        /\ e.quantity = row.size
    <3>1. Len(events) + 1 \in Nat \ {0}
      BY DEF HistoryOf
    <3>. QED  BY <1>3, <2>2, <3>1, FileAssumption DEF AddEvent, Event, Converted, EventTyped
  <2>7. Follows(e, a, b)
    <3> HIDE DEF e, b
    <3>1. k.side = side /\ k.price = row.price /\ k.quantity = row.size
      OBVIOUS
    <3> HIDE DEF k
    <3>. QED  BY <2>3, <2>4, <2>5, <2>6, <3>1 DEF Follows, Adds, b
  <2>8. ActiveOf(activeOrders', b)
    <3>1. DOMAIN activeOrders' = DOMAIN b
      BY <2>1, <2>4 DEF Standing, With
    <3>2. ASSUME NEW id \in DOMAIN b
          PROVE  activeOrders'[id] =
                   [side |-> b[id].side, price |-> b[id].price, quantity |-> b[id].quantity]
      BY <1>2, <2>1, <2>4 DEF Standing, With, ActiveOf
    <3>. QED  BY <3>1, <3>2 DEF ActiveOf
  <2> HIDE DEF b, e, k, o
  <2>. QED  BY <1>1, <2>1, <2>5, <2>6, <2>7, <2>8, EventKept DEF a
<1>. QED  BY <1>5, <1>6

\* An order that stands no longer.
LEMMA CancelsKeeps ==
  ASSUME NEW h, HistoryOf(h, events), LoaderInv(h), NEW row \in Rows,
         loading = "reading", Len(read) < MaxRows, read' = Append(read, row),
         row.direction \in {1, -1}, row.id \in DOMAIN activeOrders,
         \/ row.type = DeletionType
         \/ (row.type \in ReductionTypes /\ row.size = activeOrders[row.id].quantity),
         Converts(CancelEvent(row.id)), activeOrders' = Without(row.id)
  PROVE  Keeps(h)
<1> DEFINE a == h[Len(events)]
           e == CancelEvent(row.id)
           b == Less(a, row.id)
<1>1. read \in Seq(Rows) /\ LedgerOf(read, a) /\ ActiveOf(activeOrders, a)
  BY DEF LoaderInv
<1> HIDE DEF a
<1>2. row.id \in DOMAIN a /\ activeOrders[row.id].quantity = a[row.id].quantity
  BY <1>1 DEF ActiveOf
<1>3. LedgerOf(read', b)
  BY <1>1, <1>2, LedgerShrinks
<1>4. /\ e \in Converted /\ EventTyped(e, Len(events) + 1)
      /\ e.type = "Cancel" /\ e.order_id = row.id
  <2>1. Len(events) + 1 \in Nat \ {0}
    BY DEF HistoryOf
  <2>2. row.id \in OrderIds \ {0}
    BY <1>1, <1>2 DEF LedgerOf, IsLedger
  <2>. QED  BY <2>1, <2>2, FileAssumption DEF CancelEvent, Event, Converted, EventTyped, M!Sides
<1>5. Follows(e, a, b)
  <2> HIDE DEF e
  <2>. QED  BY <1>2, <1>4 DEF Follows, Cancels
<1>6. ActiveOf(activeOrders', b)
  <2>1. DOMAIN activeOrders' = DOMAIN b
    BY <1>1, <1>2 DEF Without, Less, ActiveOf
  <2>2. ASSUME NEW id \in DOMAIN b
        PROVE  activeOrders'[id] =
                 [side |-> b[id].side, price |-> b[id].price, quantity |-> b[id].quantity]
    BY <1>1, <1>2 DEF Without, Less, ActiveOf
  <2>. QED  BY <2>1, <2>2 DEF ActiveOf
<1>7. Converts(e)
  OBVIOUS
<1> HIDE DEF b, e
<1>. QED  BY <1>3, <1>4, <1>5, <1>6, <1>7, EventKept DEF a

\* An order deleted.
LEMMA DeletionKeeps ==
  ASSUME NEW h, HistoryOf(h, events), LoaderInv(h), NEW row \in Rows, Deletion(row)
  PROVE  Keeps(h)
<1>1. /\ loading = "reading" /\ Len(read) < MaxRows /\ read' = Append(read, row)
      /\ row.direction \in {1, -1} /\ row.type = DeletionType
  BY DEF Deletion, Reads
<1>2. CASE row.id \in DOMAIN activeOrders
  <2>1. Converts(CancelEvent(row.id)) /\ activeOrders' = Without(row.id)
    BY <1>2 DEF Deletion
  <2>2. \/ row.type = DeletionType
        \/ (row.type \in ReductionTypes /\ row.size = activeOrders[row.id].quantity)
    BY <1>1, Zenon
  <2>. QED  BY <1>1, <1>2, <2>1, <2>2, CancelsKeeps
<1>3. CASE row.id \notin DOMAIN activeOrders
  <2>1. UNCHANGED <<loading, events, activeOrders>>
    BY <1>3 DEF Deletion, Skips
  <2>2. row.type # SubmissionType
    BY <1>1 DEF SubmissionType, DeletionType
  <2>3. \A id \in DOMAIN activeOrders : ~IsAbout(row, id, {DeletionType} \cup ReductionTypes)
    BY <1>3 DEF IsAbout
  <2>. QED  BY <1>1, <2>1, <2>2, <2>3, NoEventKeeps
<1>. QED  BY <1>2, <1>3

\* An order reduced.
LEMMA ReductionKeeps ==
  ASSUME NEW h, HistoryOf(h, events), LoaderInv(h), NEW row \in Rows, Reduction(row)
  PROVE  Keeps(h)
<1> DEFINE a == h[Len(events)]
           old == activeOrders[row.id]
           reduced == [old EXCEPT !.quantity = Remaining(old, row.size)]
<1>1. /\ loading = "reading" /\ Len(read) < MaxRows /\ read' = Append(read, row)
      /\ row.direction \in {1, -1} /\ row.type \in ReductionTypes
  BY DEF Reduction, Reads
<1>2. read \in Seq(Rows) /\ LedgerOf(read, a) /\ ActiveOf(activeOrders, a)
  BY <1>1 DEF LoaderInv
<1>3. \/ row.id \notin DOMAIN activeOrders /\ Skips
      \/ row.id \in DOMAIN activeOrders /\ Throws
      \/ /\ row.id \in DOMAIN activeOrders /\ RemovesAll(old, row.size)
         /\ Converts(CancelEvent(row.id)) /\ activeOrders' = Without(row.id)
      \/ /\ row.id \in DOMAIN activeOrders
         /\ Removable(old, row.size) /\ ~RemovesAll(old, row.size)
         /\ Converts(ModifyEvent(row.id, old.price, reduced.quantity))
         /\ activeOrders' = Standing(row.id, reduced)
  BY Zenon DEF Reduction
<1> HIDE DEF a, old, reduced
<1>4. CASE row.id \notin DOMAIN activeOrders /\ Skips
  <2>1. UNCHANGED <<loading, events, activeOrders>>
    BY <1>4 DEF Skips
  <2>2. row.type # SubmissionType
    BY <1>1 DEF SubmissionType, ReductionTypes
  <2>3. \A id \in DOMAIN activeOrders : ~IsAbout(row, id, {DeletionType} \cup ReductionTypes)
    BY <1>4 DEF IsAbout
  <2>. QED  BY <1>1, <2>1, <2>2, <2>3, NoEventKeeps
<1>5. CASE row.id \in DOMAIN activeOrders /\ Throws
  <2>1. read' \in Seq(Rows) /\ Len(read') = Len(read) + 1 /\ Len(read) \in Nat
    BY <1>1, <1>2
  <2>2. Len(read') <= MaxRows
    BY <1>1, <2>1, FileAssumption
  <2>. QED  BY <1>5, <2>1, <2>2, ThrowKeeps
<1>6. CASE /\ row.id \in DOMAIN activeOrders /\ RemovesAll(old, row.size)
           /\ Converts(CancelEvent(row.id)) /\ activeOrders' = Without(row.id)
  <2>1. row.size = activeOrders[row.id].quantity
    BY <1>6 DEF RemovesAll, old
  <2>. QED  BY <1>1, <1>6, <2>1, CancelsKeeps
<1>7. CASE /\ row.id \in DOMAIN activeOrders
           /\ Removable(old, row.size) /\ ~RemovesAll(old, row.size)
           /\ Converts(ModifyEvent(row.id, old.price, reduced.quantity))
           /\ activeOrders' = Standing(row.id, reduced)
  <2> DEFINE id == row.id
             left == a[id].quantity - row.size
             k == [row |-> a[id].row, side |-> a[id].side, price |-> a[id].price,
                   quantity |-> left]
             e == ModifyEvent(id, old.price, reduced.quantity)
             b == With(a, id, k)
  <2>1. id \in DOMAIN a /\ DOMAIN activeOrders = DOMAIN a
        /\ old = [side |-> a[id].side, price |-> a[id].price, quantity |-> a[id].quantity]
    BY <1>2, <1>7 DEF ActiveOf, old
  <2>2. a[id] \in Kept /\ id \in OrderIds \ {0}
    BY <1>2, <2>1 DEF LedgerOf, IsLedger
  <2>3. /\ a[id].row \in Nat /\ a[id].side \in M!Sides /\ a[id].price \in Prices
        /\ a[id].price > 0 /\ a[id].quantity \in Nat \ {0}
    BY <2>2 DEF Kept
  <2>4. row.size \in Nat /\ row.size < a[id].quantity
    <3>1. row.size \in Nat
      BY FileAssumption
    <3>2. row.size <= a[id].quantity /\ row.size # a[id].quantity
      BY <1>7, <2>1 DEF Removable, RemovesAll
    <3>. QED  BY <2>3, <3>1, <3>2
  <2>5. left \in Nat \ {0} /\ left <= a[id].quantity
    BY <2>3, <2>4
  <2>6. reduced = [side |-> a[id].side, price |-> a[id].price, quantity |-> left]
    BY <2>1 DEF reduced, Remaining
  <2> HIDE DEF left, id
  <2>7. k \in Kept
    BY <2>3, <2>5 DEF Kept
  <2>8. k.row = a[id].row /\ k.side = a[id].side /\ k.price = a[id].price /\ k.quantity = left
    OBVIOUS
  <2>9. old.price = a[id].price /\ reduced.quantity = left
    BY <2>1, <2>6
  <2>10. /\ e \in Converted /\ EventTyped(e, Len(events) + 1)
         /\ e.type = "Modify" /\ e.order_id = id /\ e.price = a[id].price /\ e.quantity = left
    <3>1. Len(events) + 1 \in Nat \ {0}
      BY DEF HistoryOf
    <3>2. Prices \subseteq Int /\ SymbolId = DefaultSymbol
      BY FileAssumption
    <3>3. a[id].price \in Int
      BY <2>3, <3>2
    <3>. QED  BY <2>2, <2>5, <2>9, <3>1, <3>2, <3>3
             DEF ModifyEvent, Event, Converted, EventTyped, M!Sides
  <2>11. Converts(e) /\ activeOrders' = Standing(id, reduced)
    BY <1>7 DEF id
  <2> HIDE DEF k, e
  <2>12. LedgerOf(read', b)
    BY <1>1, <1>2, <2>1, <2>4, <2>7, <2>8, LedgerReduces DEF id, left
  <2>13. Follows(e, a, b)
    BY <2>1, <2>5, <2>7, <2>8, <2>10 DEF Follows, Reduces
  <2>14. ActiveOf(activeOrders', b)
    <3>1. DOMAIN activeOrders' = DOMAIN b
      BY <2>1, <2>11 DEF Standing, With
    <3>2. ASSUME NEW i \in DOMAIN b
          PROVE  activeOrders'[i] =
                   [side |-> b[i].side, price |-> b[i].price, quantity |-> b[i].quantity]
      <4>1. CASE i = id
        BY <2>1, <2>6, <2>8, <2>11, <4>1 DEF Standing, With
      <4>2. CASE i # id
        BY <1>2, <2>1, <2>11, <4>2 DEF Standing, With, ActiveOf
      <4>. QED  BY <4>1, <4>2
    <3>. QED  BY <3>1, <3>2 DEF ActiveOf
  <2> HIDE DEF b
  <2>. QED  BY <1>1, <2>10, <2>11, <2>12, <2>13, <2>14, EventKept DEF a
<1>. QED  BY <1>3, <1>4, <1>5, <1>6, <1>7

\* Every step of the loader.
LEMMA LoaderKeeps ==
  ASSUME NEW h, HistoryOf(h, events), LoaderInv(h), LoaderNext
  PROVE  Keeps(h) /\ loading = "reading"
<1>1. loading = "reading"
  BY DEF LoaderNext, IgnoreRow, Submission, Reduction, Deletion, Reads, MalformedRow, EndOfFile
<1>2. CASE \E row \in Rows : IgnoreRow(row) \/ Submission(row) \/ Reduction(row) \/ Deletion(row)
  <2>1. PICK row \in Rows : IgnoreRow(row) \/ Submission(row) \/ Reduction(row) \/ Deletion(row)
    BY <1>2
  <2>2. Keeps(h)
    BY <2>1, IgnoreKeeps, SubmissionKeeps, ReductionKeeps, DeletionKeeps
  <2>. QED  BY <1>1, <2>2
<1>3. CASE MalformedRow
  BY <1>3, ThrowKeeps DEF MalformedRow, LoaderInv
<1>4. CASE EndOfFile
  <2>1. loading' = "loaded" /\ UNCHANGED <<read, events, activeOrders>>
    BY <1>4 DEF EndOfFile
  <2>2. LoaderInv(h)' /\ HistoryOf(h, events')
    BY <1>1, <2>1 DEF LoaderInv
  <2>. QED  BY <1>1, <2>2 DEF Keeps
<1>. QED  BY <1>1, <1>2, <1>3, <1>4 DEF LoaderNext

----------------------------------------------------------------------------
(* The replay's steps                                                      *)

\* No order rests in the book.
IsEmptyBook(q) == DOMAIN q = M!Keys /\ \A key \in M!Keys : q[key] = << >>

\* An empty book is one of an empty ledger, and the other way round.
LEMMA EmptyBook ==
  ASSUME NEW a, DOMAIN a = {}, NEW q
  PROVE  IsEmptyBook(q) <=> BookIs(q, a)
<1>1. ASSUME IsEmptyBook(q) PROVE BookIs(q, a)
  <2>1. \A key \in M!Keys : q[key] = << >> /\ q[key] \in Seq(M!Order) /\ DOMAIN q[key] = {}
    <3>1. << >> \in Seq(M!Order) /\ DOMAIN << >> = {}
      OBVIOUS
    <3>. QED  BY <1>1, <3>1, Zenon DEF IsEmptyBook
  <2>2. M!PricesTyped
    BY FileAssumption, SameSum DEF M!PricesTyped
  <2>3. M!QueuesTyped(q)
    BY <1>1, <2>1 DEF M!QueuesTyped, IsEmptyBook
  <2>4. M!IdsUnique(q)
    BY <2>1 DEF M!IdsUnique
  <2>. QED  BY <2>1, <2>2, <2>3, <2>4 DEF BookIs, M!GoodBook
<1>2. ASSUME BookIs(q, a) PROVE IsEmptyBook(q)
  <2>1. DOMAIN q = M!Keys /\ \A key \in M!Keys : q[key] \in Seq(M!Order)
    BY <1>2 DEF BookIs, M!GoodBook, M!QueuesTyped
  <2>2. \A key \in M!Keys : DOMAIN q[key] = {}
    BY <1>2 DEF BookIs
  <2>3. \A key \in M!Keys : q[key] = << >>
    BY <2>1, <2>2
  <2>. QED  BY <2>1, <2>3 DEF IsEmptyBook
<1>. QED  BY <1>1, <1>2

\* A replay begins, with the book as it is, which is empty, or made so.
LEMMA BeginKeeps ==
  ASSUME NEW h, HistoryOf(h, events), LoaderInv(h), BookInv(h), ReplayLoaded
  PROVE  HistoryOf(h, events') /\ LoaderInv(h)' /\ BookInv(h)'
<1>1. /\ loading = "loaded" /\ ~result.completed
      /\ UNCHANGED <<loading, read, events, activeOrders>>
  BY DEF ReplayLoaded, loaderVars
<1>2. PICK options \in Options : BeginReplay(events, options)
  BY DEF ReplayLoaded
<1>3. BookIs(queue, h[0]) /\ DOMAIN h[0] = {}
  BY <1>1 DEF BookInv, HistoryOf
<1>4. IsEmptyBook(queue)
  BY <1>3, EmptyBook
<1>5. IsEmptyBook(queue')
  <2>1. CASE options.reset_book_before_replay
    <3>1. queue' = [key \in DOMAIN queue |-> << >>]
      BY <1>2, <2>1 DEF BeginReplay, Book!Reset
    <3>. QED  BY <1>4, <3>1 DEF IsEmptyBook
  <2>2. CASE ~options.reset_book_before_replay
    BY <1>2, <1>4, <2>2 DEF BeginReplay, bookVars
  <2>. QED  BY <2>1, <2>2
<1>6. BookIs(queue', h[0])
  BY <1>3, <1>5, EmptyBook
<1>7. /\ replaying' = TRUE /\ rest' = events
      /\ result' = [completed |-> TRUE, applied |-> 0, rejected |-> 0, gaps |-> 0,
                    missing |-> 0, duplicates |-> 0]
  BY <1>2 DEF BeginReplay, NewResult
<1>8. events \in Seq(Converted) /\ Len(events) \in Nat
  BY DEF HistoryOf
<1>9. BookInv(h)'
  <2>1. result'.completed /\ result'.rejected = 0 /\ result'.applied = 0
        /\ DOMAIN result' = DOMAIN NewResult
    BY <1>7 DEF NewResult
  <2>2. \A n \in 1 .. Len(events) : 0 + n = n
    OBVIOUS
  <2>3. Len(events) - 0 = Len(events)
    BY <1>8
  <2>. QED  BY <1>1, <1>6, <1>7, <1>8, <2>1, <2>2, <2>3 DEF BookInv
<1>10. LoaderInv(h)'
  BY <1>1 DEF LoaderInv
<1>. QED  BY <1>1, <1>9, <1>10

\* The next event of a replay is the one after those applied.
LEMMA NextEvent ==
  ASSUME NEW h, HistoryOf(h, events), LoaderInv(h), BookInv(h), replaying, rest # << >>
  PROVE  LET n == result.applied + 1
         IN  /\ n \in 1 .. Len(events) /\ n <= MaxSequence
             /\ n - 1 = result.applied /\ result.applied \in 0 .. Len(events)
             /\ Head(rest) = events[n] /\ EventTyped(events[n], n)
             /\ Follows(events[n], h[result.applied], h[n])
             /\ Tail(rest) \in Seq(Converted) /\ Len(Tail(rest)) = Len(events) - n
             /\ \A i \in 1 .. Len(Tail(rest)) : Tail(rest)[i] = events[n + i]
<1> DEFINE k == result.applied
           n == k + 1
<1>1. /\ rest \in Seq(Converted) /\ Len(rest) = Len(events) - k
      /\ \A i \in 1 .. Len(rest) : rest[i] = events[k + i]
      /\ k \in 0 .. Len(events) /\ Len(events) \in Nat
  BY DEF BookInv, HistoryOf
<1> HIDE DEF k
<1>2. Len(rest) \in Nat /\ Len(rest) >= 1 /\ 1 \in 1 .. Len(rest) /\ Head(rest) = rest[1]
  BY <1>1
<1>3. n \in 1 .. Len(events) /\ n - 1 = k
  BY <1>1, <1>2
<1>4. n <= MaxSequence
  <2>1. /\ Len(events) <= Len(read) /\ Len(read) <= MaxRows /\ Len(read) \in Nat
    BY DEF LoaderInv
  <2>2. MaxRows \in Nat /\ MaxRows <= MaxSequence /\ MaxSequence \in Nat
    BY FileAssumption, ReplayAssumption
  <2>. QED  BY <1>1, <1>3, <2>1, <2>2
<1>5. Head(rest) = events[n]
  BY <1>1, <1>2
<1>6. EventTyped(events[n], n) /\ Follows(events[n], h[n - 1], h[n])
  BY <1>3 DEF HistoryOf
<1>7. Tail(rest) \in Seq(Converted) /\ Len(Tail(rest)) = Len(rest) - 1
      /\ \A i \in 1 .. Len(Tail(rest)) : Tail(rest)[i] = rest[i + 1] /\ i + 1 \in 1 .. Len(rest)
  BY <1>1, <1>2
<1>8. \A i \in 1 .. Len(Tail(rest)) : Tail(rest)[i] = events[n + i]
  <2> TAKE i \in 1 .. Len(Tail(rest))
  <2>1. Tail(rest)[i] = events[k + (i + 1)]
    BY <1>1, <1>7
  <2>2. k + (i + 1) = n + i
    BY <1>1, <1>7
  <2>. QED  BY <2>1, <2>2
<1>9. Len(Tail(rest)) = Len(events) - n
  BY <1>1, <1>7
<1>. QED  BY <1>1, <1>3, <1>4, <1>5, <1>6, <1>7, <1>8, <1>9 DEF k

\* An event is applied.
LEMMA EventApplied ==
  ASSUME NEW h, HistoryOf(h, events), LoaderInv(h), BookInv(h), ReplayEvent,
         UNCHANGED loaderVars
  PROVE  BookInv(h)'
<1> DEFINE k == result.applied
           n == k + 1
           e == Head(rest)
<1>1. /\ replaying /\ rest # << >>
      /\ \/ AppliesEvent(e) /\ Applies(e)
         \/ RefusesEvent(e) /\ Rejects(e)
  BY Zenon DEF ReplayEvent
<1>2. /\ n \in 1 .. Len(events) /\ n <= MaxSequence
      /\ n - 1 = k /\ k \in 0 .. Len(events)
      /\ e = events[n] /\ EventTyped(events[n], n)
      /\ Follows(events[n], h[k], h[n])
      /\ Tail(rest) \in Seq(Converted) /\ Len(Tail(rest)) = Len(events) - n
      /\ \A i \in 1 .. Len(Tail(rest)) : Tail(rest)[i] = events[n + i]
  BY <1>1, NextEvent, Zenon
<1>3. BookIs(queue, h[k]) /\ result.completed /\ loading = "loaded" /\ IsLedger(h[k])
      /\ result.rejected = 0 /\ DOMAIN result = DOMAIN NewResult
  BY <1>1, <1>2 DEF BookInv, HistoryOf
<1> HIDE DEF e
<1>4. EventTyped(e, n) /\ Follows(e, h[k], h[n])
  BY <1>2
<1> HIDE DEF k
<1>5. AppliesEvent(e) /\ Applies(e) /\ BookIs(queue', h[n])
  BY <1>1, <1>3, <1>4, EventKeeps
<1>6. /\ replaying' = replaying /\ rest' = Tail(rest)
      /\ expected' = ExpectedAfter(e.sequence_number)
      /\ result' = [result EXCEPT !.applied = @ + 1]
  BY <1>5 DEF Applies, Goes
<1>7. /\ DOMAIN result' = DOMAIN NewResult /\ result'.applied = n
      /\ result'.rejected = 0 /\ result'.completed
  BY <1>3, <1>6 DEF NewResult, k
<1>8. rest' # << >> => expected' = n + 1
  <2>1. e.sequence_number = n
    BY <1>4 DEF EventTyped
  <2>2. ASSUME Tail(rest) # << >> PROVE n # MaxSequence
    <3>1. Len(Tail(rest)) >= 1 /\ Len(events) \in Nat
      BY <1>2, <2>2 DEF HistoryOf
    <3>2. n + 1 <= Len(events)
      BY <1>2, <3>1
    <3>3. /\ Len(events) <= Len(read) /\ Len(read) <= MaxRows /\ Len(read) \in Nat
      BY DEF LoaderInv
    <3>4. MaxRows \in Nat /\ MaxRows <= MaxSequence /\ MaxSequence \in Nat
      BY FileAssumption, ReplayAssumption
    <3>. QED  BY <1>2, <3>1, <3>2, <3>3, <3>4
  <2>. QED  BY <1>6, <2>1, <2>2 DEF ExpectedAfter
<1>9. UNCHANGED <<loading, events>>
  BY DEF loaderVars
<1>10. n \in 0 .. Len(events)
  BY <1>2
<1> HIDE DEF n
<1>. QED  BY <1>1, <1>2, <1>3, <1>5, <1>6, <1>7, <1>8, <1>9, <1>10 DEF BookInv

\* The replay can only stop at the first event, where one was expected first that is not.
LEMMA StopKeeps ==
  ASSUME NEW h, HistoryOf(h, events), LoaderInv(h), BookInv(h), StopOutOfSequence,
         UNCHANGED loaderVars
  PROVE  BookInv(h)'
<1> DEFINE n == result.applied + 1
<1>1. /\ replaying /\ rest # << >> /\ OutOfSequence(Head(rest).sequence_number)
      /\ ~replaying' /\ UNCHANGED queue
      /\ \/ result' = [result EXCEPT !.completed = FALSE, !.gaps = @ + 1,
                           !.missing = @ + Head(rest).sequence_number - expected]
         \/ result' = [result EXCEPT !.completed = FALSE, !.duplicates = @ + 1]
  BY DEF StopOutOfSequence, bookVars
<1>2. Head(rest) = events[n] /\ EventTyped(events[n], n) /\ result.applied \in 0 .. Len(events)
  BY <1>1, NextEvent, Zenon
<1>3. Head(rest).sequence_number = n
  BY <1>2 DEF EventTyped
<1>4. result.applied = 0
  <2>1. result.applied > 0 => expected = n
    BY <1>1 DEF BookInv
  <2>2. expected # n
    BY <1>1, <1>3 DEF OutOfSequence
  <2>. QED  BY <1>2, <2>1, <2>2
<1>5. /\ DOMAIN result' = DOMAIN NewResult /\ ~result'.completed
      /\ result'.applied = 0 /\ result'.rejected = 0
  <2>1. DOMAIN result = DOMAIN NewResult /\ result.rejected = 0
    BY DEF BookInv
  <2>. QED  BY <1>1, <1>4, <2>1 DEF NewResult
<1>6. BookIs(queue, h[0]) /\ loading = "loaded"
  BY <1>1, <1>4 DEF BookInv
<1>7. UNCHANGED <<loading, events, queue>> /\ Len(events) \in Nat
  BY <1>1 DEF loaderVars, HistoryOf
<1>. QED  BY <1>1, <1>5, <1>6, <1>7 DEF BookInv

\* It ends when it has applied them all.
LEMMA EndKeeps ==
  ASSUME NEW h, HistoryOf(h, events), LoaderInv(h), BookInv(h), EndReplay,
         UNCHANGED loaderVars
  PROVE  BookInv(h)'
<1>1. /\ replaying /\ rest = << >> /\ ~replaying' /\ UNCHANGED <<queue, result, rest>>
      /\ UNCHANGED <<loading, events>>
  BY DEF EndReplay, bookVars, loaderVars
<1>2. Len(events) \in Nat /\ result.applied \in 0 .. Len(events)
      /\ Len(rest) = Len(events) - result.applied /\ BookIs(queue, h[result.applied])
      /\ result.completed /\ loading = "loaded"
  BY <1>1 DEF BookInv, HistoryOf
<1>3. result.applied = Len(events)
  <2>1. Len(rest) = 0
    BY <1>1
  <2>. QED  BY <1>2, <2>1
<1>. QED  BY <1>1, <1>2, <1>3 DEF BookInv

----------------------------------------------------------------------------
(* The theorems                                                            *)

\* Nothing read: one ledger, without orders, and an empty book.
LEMMA LobsterInvInit ==
  ASSUME LobsterInit
  PROVE  LobsterInv
<1> DEFINE h == [k \in {0} |-> [id \in {} |-> 0]]
<1>1. /\ loading = "reading" /\ read = << >> /\ events = << >> /\ activeOrders = << >>
  BY DEF LobsterInit, LoaderInit
<1>2. /\ replaying = FALSE /\ rest = << >>
      /\ result = [completed |-> FALSE, applied |-> 0, rejected |-> 0, gaps |-> 0,
                   missing |-> 0, duplicates |-> 0]
      /\ queue = [key \in Book!Sides \X Prices |-> << >>]
  BY DEF LobsterInit, ReplayInit, NewResult, Book!Init
<1>3. /\ events \in Seq(Converted) /\ Len(events) = 0 /\ read \in Seq(Rows) /\ Len(read) = 0
      /\ DOMAIN read = {} /\ DOMAIN activeOrders = {}
  BY <1>1
<1>4. DOMAIN h[0] = {}
  OBVIOUS
<1> HIDE DEF h
<1>5. IsLedger(h[0])
  <2>1. h[0] = [id \in DOMAIN h[0] |-> h[0][id]]
    BY DEF h
  <2>. QED  BY <1>4, <2>1 DEF IsLedger
<1>6. HistoryOf(h, events)
  BY <1>3, <1>4, <1>5 DEF HistoryOf
<1>7. LedgerOf(read, h[0])
  BY <1>3, <1>4, <1>5 DEF LedgerOf, StandingIn
<1>8. ActiveOf(activeOrders, h[0])
  BY <1>3, <1>4 DEF ActiveOf
<1>9. LoaderInv(h)
  BY <1>1, <1>3, <1>7, <1>8, FileAssumption DEF LoaderInv
<1>10. BookIs(queue, h[0])
  <2>1. Book!Sides \X Prices = M!Keys
    BY DEF Book!Sides, M!Sides, M!Keys
  <2>2. IsEmptyBook(queue)
    BY <1>2, <2>1 DEF IsEmptyBook
  <2>. QED  BY <1>4, <2>2, EmptyBook
<1>11. BookInv(h)
  BY <1>1, <1>2, <1>3, <1>10 DEF BookInv, NewResult
<1>. QED  BY <1>6, <1>9, <1>11 DEF LobsterInv

\* A row adds at most one ledger; a step of the replay moves to the next one.
LEMMA LobsterInvStep ==
  ASSUME LobsterInv, [LobsterNext]_lobsterVars
  PROVE  LobsterInv'
<1>1. PICK h : HistoryOf(h, events) /\ LoaderInv(h) /\ BookInv(h)
  BY DEF LobsterInv
<1>2. CASE Load
  <2>1. Keeps(h) /\ loading = "reading" /\ UNCHANGED replayVars
    BY <1>1, <1>2, LoaderKeeps DEF Load
  <2>2. PICK g : HistoryOf(g, events') /\ LoaderInv(g)' /\ g[0] = h[0]
    BY <2>1 DEF Keeps
  <2>3. /\ ~replaying /\ ~result.completed /\ result.applied = 0 /\ result.rejected = 0
        /\ DOMAIN result = DOMAIN NewResult /\ BookIs(queue, h[0])
    BY <1>1, <2>1 DEF BookInv
  <2>4. UNCHANGED <<queue, replaying, rest, expected, result>>
    BY <2>1 DEF replayVars, bookVars
  <2>5. Len(events') \in Nat
    BY <2>2 DEF HistoryOf
  <2>6. BookInv(g)'
    BY <2>2, <2>3, <2>4, <2>5 DEF BookInv
  <2>. QED  BY <2>2, <2>6 DEF LobsterInv
<1>3. CASE ReplayLoaded
  BY <1>1, <1>3, BeginKeeps DEF LobsterInv
<1>4. CASE ReplayLoadedEvent
  <2>1. UNCHANGED loaderVars /\ (ReplayEvent \/ StopOutOfSequence \/ EndReplay)
    BY <1>4 DEF ReplayLoadedEvent
  <2>2. BookInv(h)'
    BY <1>1, <2>1, EventApplied, StopKeeps, EndKeeps
  <2>3. HistoryOf(h, events') /\ LoaderInv(h)'
    BY <1>1, <2>1 DEF loaderVars, LoaderInv
  <2>. QED  BY <2>2, <2>3 DEF LobsterInv
<1>5. CASE UNCHANGED lobsterVars
  BY <1>1, <1>5 DEF LobsterInv, LoaderInv, BookInv, lobsterVars, loaderVars, replayVars, bookVars
<1>. QED  BY <1>2, <1>3, <1>4, <1>5 DEF LobsterNext

\* The book has followed the file, as far as the replay has come.
THEOREM LobsterInvHolds == LobsterSpec => []LobsterInv
<1>1. LobsterInit => LobsterInv
  BY LobsterInvInit
<1>2. LobsterInv /\ [LobsterNext]_lobsterVars => LobsterInv'
  BY LobsterInvStep
<1>. QED  BY <1>1, <1>2, PTL DEF LobsterSpec

\* The book refuses no converted event.
THEOREM NothingIsRejected == LobsterSpec => []NothingRejected
<1>1. LobsterInv => NothingRejected
  BY DEF LobsterInv, BookInv, NothingRejected, Replayed
<1>. QED  BY <1>1, LobsterInvHolds, PTL

\* The row that the loader's map holds for an id is the last that submits it.
LEMMA SubmittedBy ==
  ASSUME NEW a, LedgerOf(read, a), NEW id \in DOMAIN a
  PROVE  SubmittedAt(id) = a[id].row
<1> DEFINE n == a[id].row
<1>1. n \in StandingIn(read) /\ read[n].id = id
  BY DEF LedgerOf, RowOf
<1> HIDE DEF n
<1>2. n = Max(AboutIn(read, read[n].id, {SubmissionType}))
  BY <1>1 DEF StandingIn
<1>. QED  BY <1>1, <1>2, SameRows DEF n

\* One level of the book against the file.
LEMMA LevelHolds ==
  ASSUME NEW a, LedgerOf(read, a), BookIs(queue, a), NEW side \in M!Sides, NEW price \in Prices
  PROVE  LET level == queue[<<side, price>>]
             row(k) == SubmittedAt(level[k].id)
         IN  /\ {row(k) : k \in DOMAIN level}
                  = {n \in StandingRows : read[n].price = price
                                           /\ (read[n].direction = 1) = (side = "Buy")}
             /\ \A j, k \in DOMAIN level : j < k => row(j) < row(k)
             /\ \A k \in DOMAIN level :
                  level[k].quantity = read[row(k)].size - RemovedSince(level[k].id, row(k))
<1> DEFINE key == <<side, price>>
           level == queue[key]
           row(k) == SubmittedAt(level[k].id)
           there == {n \in StandingRows : read[n].price = price
                                          /\ (read[n].direction = 1) = (side = "Buy")}
<1>1. key \in M!Keys
  BY DEF M!Keys
<1>2. ASSUME NEW k \in DOMAIN level
      PROVE  /\ level[k].id \in DOMAIN a /\ a[level[k].id].side = side
             /\ a[level[k].id].price = price /\ level[k].quantity = a[level[k].id].quantity
             /\ row(k) = a[level[k].id].row
  <2>1. /\ level[k].id \in DOMAIN a /\ key = <<a[level[k].id].side, a[level[k].id].price>>
        /\ level[k].quantity = a[level[k].id].quantity
    BY <1>1 DEF BookIs
  <2>2. SubmittedAt(level[k].id) = a[level[k].id].row
    BY <2>1, SubmittedBy
  <2>. QED  BY <2>1, <2>2
<1>3. \A id \in DOMAIN a : RowOf(read, id, a[id])
  BY DEF LedgerOf
<1>4. StandingRows = {a[id].row : id \in DOMAIN a}
  BY SameRows DEF LedgerOf
<1>5. ASSUME NEW k \in DOMAIN level PROVE row(k) \in there
  <2>1. RowOf(read, level[k].id, a[level[k].id])
    BY <1>2, <1>3
  <2>2. read[row(k)].price = price /\ (read[row(k)].direction = 1) = (side = "Buy")
    BY <1>2, <2>1 DEF RowOf
  <2>. QED  BY <1>2, <1>4, <2>2
<1>6. ASSUME NEW n \in there PROVE \E k \in DOMAIN level : n = row(k)
  <2>1. PICK id \in DOMAIN a : n = a[id].row
    BY <1>4
  <2>2. a[id].side \in M!Sides
    BY DEF LedgerOf, IsLedger, Kept
  <2>3. a[id].price = price /\ a[id].side = side
    <3>1. read[n].price = a[id].price /\ (read[n].direction = 1) = (a[id].side = "Buy")
      BY <1>3, <2>1 DEF RowOf
    <3>2. (a[id].side = "Buy") = (side = "Buy") /\ read[n].price = price
      BY <3>1
    <3>. QED  BY <2>2, <3>1, <3>2 DEF M!Sides
  <2>4. PICK k \in DOMAIN level : level[k].id = id
    BY <2>3 DEF BookIs
  <2>. QED  BY <1>2, <2>1, <2>4
<1>7. \A j, k \in DOMAIN level : j < k => a[level[j].id].row < a[level[k].id].row
  BY <1>1 DEF BookIs
<1>8. \A j, k \in DOMAIN level : j < k => row(j) < row(k)
  BY <1>2, <1>7
<1>9. ASSUME NEW k \in DOMAIN level
      PROVE  level[k].quantity = read[row(k)].size - RemovedSince(level[k].id, row(k))
  <2>1. RowOf(read, level[k].id, a[level[k].id])
    BY <1>2, <1>3
  <2>. QED  BY <1>2, <2>1, SameRows DEF RowOf
<1>10. {row(k) : k \in DOMAIN level} = there
  <2> HIDE DEF row, level, there
  <2>. QED  BY <1>5, <1>6
<1>. QED  BY <1>8, <1>9, <1>10

\* The replayed book is what stands in the file.
THEOREM BookIsTheFile == LobsterSpec => []BookHoldsWhatStands
<1>1. LobsterInv => BookHoldsWhatStands
  <2> SUFFICES ASSUME LobsterInv, Replayed, NEW side \in Book!Sides, NEW price \in Prices
               PROVE  LET level == queue[<<side, price>>]
                          row(k) == SubmittedAt(level[k].id)
                      IN  /\ {row(k) : k \in DOMAIN level}
                               = {n \in StandingRows : read[n].price = price
                                    /\ (read[n].direction = 1) = (side = "Buy")}
                          /\ \A j, k \in DOMAIN level : j < k => row(j) < row(k)
                          /\ \A k \in DOMAIN level :
                               level[k].quantity
                                 = read[row(k)].size - RemovedSince(level[k].id, row(k))
    BY Zenon DEF BookHoldsWhatStands
  <2>1. PICK h : HistoryOf(h, events) /\ LoaderInv(h) /\ BookInv(h)
    BY DEF LobsterInv
  <2>2. LedgerOf(read, h[Len(events)]) /\ BookIs(queue, h[Len(events)])
    BY <2>1 DEF Replayed, LoaderInv, BookInv
  <2>3. side \in M!Sides
    BY DEF Book!Sides, M!Sides
  <2>. QED  BY <2>2, <2>3, LevelHolds, Zenon
<1>. QED  BY <1>1, LobsterInvHolds, PTL
=============================================================================
