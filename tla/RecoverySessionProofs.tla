----------------------- MODULE RecoverySessionProofs -----------------------
(***************************************************************************)
(* Proofs about RecoverySession, for any recordings, any source and any    *)
(* sizes of requests and records.                                          *)
(***************************************************************************)
EXTENDS RecoverySession, FiniteSetTheorems, TLAPS

Open == {"connect", "send", "status", "record"}

\* The sockets and the answer of fetch.
FetchInv ==
  /\ stage \in Open \cup {"idle", "returned"}
  /\ left \in Nat
  /\ sockets = IF stage \in Open THEN 1 ELSE 0
  /\ stage # "returned" => fetched = {}
  /\ stage = "returned" /\ fetched = {} => trouble

\* The recording has an event of this number.
Placed(sequence) == sequence - FirstSequence + 1 \in DOMAIN recording

\* What the server sends undamaged it has from the recording.
PeerInv ==
  /\ DOMAIN peer = {"read", "reply", "due", "arrived", "closed"}
  /\ stage = "record" => peer.reply.found
  /\ peer.reply.found =>
       \A record \in peer.reply.record :
         record.intact => \E n \in DOMAIN recording : record.event = recording[n]

\* What has been fetched and what is held is what was recorded.
HeldInv ==
  /\ recording \in Recordings
  /\ \A e \in fetched : e = Recorded(asked) /\ Placed(asked)
  /\ \A s \in DOMAIN buffer : buffer[s] = Recorded(s) /\ Placed(s)

SessionInv == FetchInv /\ PeerInv /\ HeldInv

----------------------------------------------------------------------------
(* fetch alone *)

LEMMA GivesUpKeeps == FetchInv /\ stage \in Open /\ GivesUp => FetchInv'
  BY DEF FetchInv, GivesUp, Returns, Closes, AfterClose, Open

LEMMA CallKeeps == FetchInv /\ (Call \/ ReceiveFails) => FetchInv'
<1> SUFFICES ASSUME FetchInv, Call \/ ReceiveFails PROVE FetchInv'
  OBVIOUS
<1>1. CASE Connect
  BY <1>1, FetchAssumption DEF Connect, FetchInv, Open
<1>2. CASE ConnectFails \/ SendFails \/ ReceiveNotFound \/ ReceiveEnds \/ ReceiveFails
  BY <1>2, GivesUpKeeps
     DEF ConnectFails, SendFails, ReceiveNotFound, ReceiveEnds, ReceiveFails, Open
<1>3. CASE SendSome
  BY <1>3 DEF SendSome, Transferred, FetchInv, Open
<1>4. CASE ReceiveStatus
  BY <1>4, FetchAssumption DEF ReceiveStatus, FetchInv, Open
<1>5. CASE ReceiveSome
  <2>1. PICK n \in 1 .. left :
          IF Transferred(left - n)
            THEN /\ \E record \in peer.reply.record :
                      /\ Returns(IF n = left THEN EventIn(record) ELSE {})
                      /\ trouble' = (EventIn(record) = {})
                 /\ Closes
            ELSE left' = left - n /\ UNCHANGED <<stage, fetched, sockets, trouble>>
    BY <1>5 DEF ReceiveSome
  <2>2. stage = "record" /\ left \in Nat /\ sockets = 1 /\ fetched = {}
    BY <1>5 DEF ReceiveSome, FetchInv, Open
  <2>3. CASE left - n = 0
    <3>1. PICK record \in peer.reply.record :
            Returns(EventIn(record)) /\ trouble' = (EventIn(record) = {}) /\ Closes
      BY <2>1, <2>2, <2>3 DEF Transferred
    <3>. HIDE DEF EventIn
    <3>2. /\ stage' = "returned" /\ left' = 0 /\ sockets' = sockets - 1
          /\ fetched' = EventIn(record)
      BY <3>1 DEF Returns, Closes, AfterClose
    <3>3. fetched' = {} => trouble'
      BY <3>1, <3>2, Zenon
    <3>. QED  BY <2>2, <3>2, <3>3 DEF FetchInv, Open
  <2>4. CASE left - n # 0
    BY <2>1, <2>2, <2>4 DEF Transferred, FetchInv, Open
  <2>. QED  BY <2>3, <2>4
<1>. QED  BY <1>1, <1>2, <1>3, <1>4, <1>5 DEF Call

LEMMA FetchStepsKeep == FetchInv /\ [Next]_vars => FetchInv'
<1> SUFFICES ASSUME FetchInv, [Next]_vars PROVE FetchInv'
  OBVIOUS
<1>1. CASE UNCHANGED fetchVars
  BY <1>1 DEF FetchInv, fetchVars
<1>2. CASE FetchOverTcp
  BY <1>2 DEF FetchOverTcp, LoopStands, BeginFetch, Returns, FetchInv, Open
<1>3. CASE FetchFromMemory
  <2>. HIDE DEF LookedUp
  <2>. QED  BY <1>3 DEF FetchFromMemory, LoopStands, Returns, FetchInv, Open
<1>4. CASE FetchStep \/ ConnectionLost
  BY <1>4, CallKeeps DEF FetchStep, ConnectionLost
<1>5. CASE TakeFetched \/ CountMiss
  BY <1>5 DEF TakeFetched, CountMiss, FetchInv, Open
<1>6. CASE ServerStep
  BY <1>6 DEF ServerStep, ServerAnswers, ServerSends, ServerCloses, FetchInv
<1>7. \/ UNCHANGED fetchVars
      \/ FetchOverTcp \/ FetchFromMemory \/ FetchStep \/ ConnectionLost
      \/ TakeFetched \/ CountMiss \/ ServerStep
  BY DEF Next, Continue, ApplyBaseline, BeginFeed, OnEvent, BeginRetry, LoopEnds, SkipHeld,
       DrainOne, DrainEnds, vars
<1>. QED  BY <1>1, <1>2, <1>3, <1>4, <1>5, <1>6, <1>7

\* A fetch under way has one socket, and one that is over none and an answer or a
\* reason, in every state of a session.
THEOREM FetchInvariant == Spec => []FetchInv
<1>1. Init => FetchInv
  BY DEF Init, FetchInit, FetchInv, Open
<1>. QED  BY <1>1, FetchStepsKeep, PTL DEF Spec

\* However a fetch ends, and however often it is repeated, no socket stays open,
\* and it does not come back with nothing because its answer came in pieces.
THEOREM SessionFetchesEndInOrder == Spec => []FetchEndsInOrder
<1>1. FetchInv => FetchEndsInOrder
  BY DEF FetchInv, FetchEndsInOrder, SocketsClosed, MissesHaveACause, Open
<1>. QED  BY <1>1, FetchInvariant, PTL

----------------------------------------------------------------------------
(* What the server sends *)

LEMMA NewPeerKeeps == ASSUME peer' = NewPeer, stage' # "record" PROVE PeerInv'
  BY DEF PeerInv, NewPeer, NoReply

LEMMA SameReplyKeeps ==
  ASSUME PeerInv, recording' = recording, DOMAIN peer' = DOMAIN peer,
         peer'.reply = peer.reply, stage' = stage \/ stage' # "record"
  PROVE  PeerInv'
  BY DEF PeerInv

LEMMA CallKeepsPeer ==
  PeerInv /\ recording' = recording /\ (Call \/ ReceiveFails) => PeerInv'
<1> SUFFICES ASSUME PeerInv, recording' = recording, Call \/ ReceiveFails PROVE PeerInv'
  OBVIOUS
<1>1. CASE GivesUp
  BY <1>1, NewPeerKeeps DEF GivesUp, Returns, Closes
<1>2. CASE Connect
  BY <1>2 DEF Connect, PeerInv
<1>3. CASE SendSome
  BY <1>3 DEF SendSome, PeerInv
<1>4. CASE ReceiveStatus
  BY <1>4 DEF ReceiveStatus, PeerInv
<1>5. CASE ReceiveSome
  <2>1. \/ stage' = "returned" /\ peer' = NewPeer
        \/ \E n \in 1 .. left : peer' = [peer EXCEPT !.arrived = @ - n] /\ stage' = stage
    BY <1>5 DEF ReceiveSome, Returns, Closes
  <2>2. CASE stage' = "returned" /\ peer' = NewPeer
    BY <2>2, NewPeerKeeps
  <2>3. ASSUME NEW n \in 1 .. left, peer' = [peer EXCEPT !.arrived = @ - n], stage' = stage
        PROVE  PeerInv'
    BY <2>3 DEF PeerInv
  <2>. QED  BY <2>1, <2>2, <2>3
<1>. QED
  BY <1>1, <1>2, <1>3, <1>4, <1>5
     DEF Call, ConnectFails, SendFails, ReceiveNotFound, ReceiveEnds, ReceiveFails

\* The records of ServedRecords that are intact are of the recording.
LEMMA ServedIntact ==
  ASSUME NEW record \in ServedRecords, record.intact
  PROVE  \E n \in DOMAIN recording : record.event = recording[n]
<1>. DEFINE Whole == {[intact |-> TRUE, formed |-> TRUE, event |-> recording[n]] :
                        n \in DOMAIN recording}
            Right == {r \in Whole : RightSequence(r.event)}
<1>1. CASE record \in Whole
  BY <1>1
<1>2. CASE record \in {[r EXCEPT !.intact = FALSE, !.event = Garbled(@)] : r \in Right}
  <2>1. PICK r \in Right : record = [r EXCEPT !.intact = FALSE, !.event = Garbled(@)]
    BY <1>2
  <2>2. r \in Whole
    OBVIOUS
  <2>3. PICK n \in DOMAIN recording :
          r = [intact |-> TRUE, formed |-> TRUE, event |-> recording[n]]
    BY <2>2
  <2>4. record.intact = FALSE
    BY <2>1, <2>3
  <2>. QED  BY <2>4
<1>3. CASE record \in {[r EXCEPT !.formed = FALSE] : r \in Right}
  <2>1. PICK r \in Right : record = [r EXCEPT !.formed = FALSE]
    BY <1>3
  <2>2. PICK n \in DOMAIN recording :
          r = [intact |-> TRUE, formed |-> TRUE, event |-> recording[n]]
    OBVIOUS
  <2>. QED  BY <2>1, <2>2
<1>. QED  BY <1>1, <1>2, <1>3 DEF ServedRecords

LEMMA ServerKeepsPeer == PeerInv /\ recording' = recording /\ ServerStep => PeerInv'
<1> SUFFICES ASSUME PeerInv, recording' = recording, ServerStep PROVE PeerInv'
  OBVIOUS
<1>1. CASE ServerSends \/ ServerCloses
  <2>1. DOMAIN peer' = DOMAIN peer /\ peer'.reply = peer.reply /\ stage' = stage
    BY <1>1 DEF ServerSends, ServerCloses, PeerInv
  <2>. QED  BY <2>1, SameReplyKeeps
<1>2. CASE ServerAnswers(ServedRecords)
  <2>1. ~peer.reply.found /\ stage' = stage
    <3>1. peer.reply = NoReply /\ stage' = stage
      BY <1>2 DEF ServerAnswers
    <3>2. ~NoReply.found
      BY DEF NoReply
    <3>. QED  BY <3>1, <3>2
  <2>2. CASE peer' = [peer EXCEPT !.reply = NotFound, !.due = 1]
    BY <2>1, <2>2 DEF PeerInv, NotFound
  <2>3. ASSUME NEW record \in ServedRecords,
               peer' = [peer EXCEPT !.reply = Found(record), !.due = 1 + RecordSize]
        PROVE  PeerInv'
    <3>. HIDE DEF ServedRecords
    <3>1. record.intact => \E n \in DOMAIN recording : record.event = recording[n]
      BY ServedIntact
    <3>. QED  BY <2>1, <2>3, <3>1 DEF PeerInv, Found
  <2>. QED  BY <1>2, <2>2, <2>3 DEF ServerAnswers
<1>. QED  BY <1>1, <1>2 DEF ServerStep

----------------------------------------------------------------------------
(* What is fetched and what is held *)

LEMMA RecordedIsGenuine ==
  ASSUME recording \in Recordings, NEW n \in DOMAIN recording
  PROVE  /\ Recorded(recording[n].sequence_number) = recording[n]
         /\ Placed(recording[n].sequence_number)
<1>1. n \in Nat /\ recording[n].sequence_number = FirstSequence + n - 1
  BY RecordingsAssumption
<1>. QED  BY <1>1, SequencerAssumption DEF Recorded, Placed

LEMMA CallFetches ==
  ASSUME FetchInv, PeerInv, HeldInv, Call \/ ReceiveFails,
         UNCHANGED <<recording, buffer>>
  PROVE  HeldInv'
<1>1. /\ asked' = asked
      /\ \/ fetched' = fetched
         \/ fetched' = {}
         \/ /\ stage = "record"
            /\ \E record \in peer.reply.record : fetched' = EventIn(record)
  <2>1. CASE ReceiveSome
    <3>1. /\ stage = "record" /\ asked' = asked
          /\ \/ fetched' = fetched
             \/ \E n \in 1 .. left, record \in peer.reply.record :
                  fetched' = IF n = left THEN EventIn(record) ELSE {}
      BY <2>1 DEF ReceiveSome, Returns
    <3>. QED  BY <3>1
  <2>2. CASE ~ReceiveSome
    BY <2>2 DEF Call, Connect, ConnectFails, SendSome, SendFails, ReceiveStatus,
         ReceiveNotFound, ReceiveEnds, ReceiveFails, GivesUp, Returns
  <2>. QED  BY <2>1, <2>2
<1>2. ASSUME stage = "record", NEW record \in peer.reply.record, NEW e \in EventIn(record)
      PROVE  e = Recorded(asked) /\ Placed(asked)
  <2>1. record.intact /\ e = record.event /\ e.sequence_number = asked
    BY <1>2 DEF EventIn, Decodable, RightSequence
  <2>2. PICK n \in DOMAIN recording : record.event = recording[n]
    BY <1>2, <2>1 DEF PeerInv
  <2>. QED  BY <2>1, <2>2, RecordedIsGenuine DEF HeldInv
<1>. QED  BY <1>1, <1>2 DEF HeldInv, Recorded, Placed

LEMMA MemoryFetches ==
  ASSUME HeldInv, NEW sequence, NEW e \in LookedUp(sequence)
  PROVE  e = Recorded(sequence) /\ Placed(sequence)
<1>1. PICK n \in DOMAIN recording : e = recording[n] /\ e.sequence_number = sequence
  BY DEF LookedUp
<1>. QED  BY <1>1, RecordedIsGenuine DEF HeldInv

LEMMA EmplacedGenuine ==
  ASSUME HeldInv, NEW sequence, buffer' = Emplaced(sequence, Recorded(sequence)),
         Placed(sequence), recording' = recording
  PROVE  \A s \in DOMAIN buffer' : buffer'[s] = Recorded(s)' /\ Placed(s)'
  BY DEF Emplaced, HeldInv, Recorded, Placed

\* No step changes the recording.
LEMMA RecordingStays == [Next]_vars => recording' = recording
  BY DEF Next, Continue, ApplyBaseline, BeginFeed, OnEvent, BeginRetry, LoopEnds, SkipHeld,
       FetchOverTcp, FetchFromMemory, FetchStep, ConnectionLost, TakeFetched, CountMiss,
       DrainOne, DrainEnds, ServerStep, sessionVars, vars

LEMMA HeldStepsKeep == SessionInv /\ [Next]_vars => HeldInv'
<1> SUFFICES ASSUME SessionInv, [Next]_vars PROVE HeldInv'
  OBVIOUS
<1>. USE DEF SessionInv
<1>1. recording' = recording
  BY RecordingStays
<1>2. CASE UNCHANGED <<buffer, fetched, asked>>
  BY <1>1, <1>2 DEF HeldInv, Recorded, Placed
<1>3. ASSUME NEW n \in DOMAIN recording, OnEvent(recording[n]) PROVE HeldInv'
  <2>1. /\ UNCHANGED <<fetched, asked>>
        /\ buffer' = buffer \/ buffer' = Emplaced(recording[n].sequence_number, recording[n])
    BY <1>3 DEF OnEvent, IgnoresOld, TakesExpected, Overflows, IgnoresHeld, Holds,
         ApplyExpected, fetchVars
  <2>2. /\ Recorded(recording[n].sequence_number) = recording[n]
        /\ Placed(recording[n].sequence_number)
    BY RecordedIsGenuine DEF HeldInv
  <2>3. \A s \in DOMAIN buffer' : buffer'[s] = Recorded(s)' /\ Placed(s)'
    BY <1>1, <2>1, <2>2, EmplacedGenuine DEF HeldInv, Recorded, Placed
  <2>. QED  BY <1>1, <2>1, <2>3 DEF HeldInv, Recorded, Placed
<1>4. CASE DrainOne
  BY <1>1, <1>4 DEF DrainOne, ApplyExpected, fetchVars, HeldInv, Recorded, Placed
<1>5. CASE FetchOverTcp
  BY <1>1, <1>5 DEF FetchOverTcp, LoopStands, BeginFetch, Returns, sequencerVars, HeldInv,
       FetchInv, Recorded, Placed
<1>6. CASE FetchFromMemory
  <2>1. fetched' = LookedUp(asked') /\ buffer' = buffer
    BY <1>6 DEF FetchFromMemory, Returns, sequencerVars
  <2>. QED  BY <1>1, <2>1, MemoryFetches DEF HeldInv, Recorded, Placed
<1>7. CASE FetchStep \/ ConnectionLost
  BY <1>1, <1>7, CallFetches DEF FetchStep, ConnectionLost, sequencerVars
<1>8. CASE TakeFetched
  <2>1. PICK e \in fetched : buffer' = Emplaced(asked, e)
    BY <1>8 DEF TakeFetched
  <2>2. fetched' = {}
    BY <1>8 DEF TakeFetched
  <2>3. \A s \in DOMAIN buffer' : buffer'[s] = Recorded(s)' /\ Placed(s)'
    BY <1>1, <2>1, EmplacedGenuine DEF HeldInv
  <2>. QED  BY <1>1, <2>2, <2>3 DEF HeldInv
<1>9. CASE CountMiss
  BY <1>1, <1>9 DEF CountMiss, HeldInv, Recorded, Placed
<1>10. \/ UNCHANGED <<buffer, fetched, asked>>
       \/ \E n \in DOMAIN recording : OnEvent(recording[n])
       \/ DrainOne \/ FetchOverTcp \/ FetchFromMemory \/ FetchStep \/ ConnectionLost
       \/ TakeFetched \/ CountMiss
  BY DEF Next, Continue, ApplyBaseline, BeginFeed, BeginRetry, LoopEnds, SkipHeld,
       DrainEnds, ServerStep, ServerAnswers, ServerSends, ServerCloses, sequencerVars,
       fetchVars, vars
<1>. QED  BY <1>2, <1>3, <1>4, <1>5, <1>6, <1>7, <1>8, <1>9, <1>10

LEMMA PeerStepsKeep == SessionInv /\ [Next]_vars => PeerInv'
<1> SUFFICES ASSUME SessionInv, [Next]_vars PROVE PeerInv'
  OBVIOUS
<1>. USE DEF SessionInv
<1>1. recording' = recording
  BY RecordingStays
<1>2. CASE peer' = peer /\ (stage' = stage \/ stage' # "record")
  BY <1>1, <1>2, SameReplyKeeps
<1>3. CASE FetchStep \/ ConnectionLost
  BY <1>1, <1>3, CallKeepsPeer DEF FetchStep, ConnectionLost
<1>4. CASE ServerStep
  BY <1>1, <1>4, ServerKeepsPeer
<1>5. \/ peer' = peer /\ (stage' = stage \/ stage' # "record")
      \/ FetchStep \/ ConnectionLost \/ ServerStep
  BY DEF Next, Continue, ApplyBaseline, BeginFeed, OnEvent, BeginRetry, LoopEnds, SkipHeld,
       FetchOverTcp, FetchFromMemory, TakeFetched, CountMiss, DrainOne, DrainEnds,
       BeginFetch, Returns, fetchVars, vars
<1>. QED  BY <1>2, <1>3, <1>4, <1>5

\* Whatever the feed loses, doubles or reorders, and whatever the server sends
\* of its recording, damaged, cut short or not asked for, what the sequencer holds
\* under a number is the event recorded with that number.
THEOREM SessionHoldsGenuineEvents == Spec => []HeldEventsAreGenuine
<1>1. Init => SessionInv
  BY DEF Init, FetchInit, SessionInv, FetchInv, PeerInv, HeldInv, Open, NewPeer, NoReply
<1>2. SessionInv /\ [Next]_vars => SessionInv'
  BY FetchStepsKeep, PeerStepsKeep, HeldStepsKeep DEF SessionInv
<1>3. SessionInv => HeldEventsAreGenuine
  BY DEF SessionInv, HeldInv, HeldEventsAreGenuine
<1>. QED  BY <1>1, <1>2, <1>3, PTL DEF Spec

----------------------------------------------------------------------------
(* Call by call the sequencer is RecoverySequencer                         *)

SP == INSTANCE RecoverySequencerProofs WITH
  expected <- settled.expected, buffer <- settled.buffer,
  state <- settled.state, statistics <- settled.statistics

\* What is missing below reach when a call begins.
Gap(reach) == (settled.expected .. reach - 1) \ settled.buffer

\* The statistics once it has been fetched.
Noted(reach, missed) ==
  SP!NotingDepth([settled.statistics EXCEPT
                    !.events_recovered = @ + Cardinality(Gap(reach)),
                    !.recovery_misses = IF missed THEN @ + 1 ELSE @],
                 Cardinality(settled.buffer \cup Gap(reach)))

Top == SP!Max(settled.buffer)

Fetched(reach, missed) ==
  /\ reach \in settled.expected .. Top
  /\ DOMAIN buffer = settled.buffer \cup Gap(reach)
  /\ statistics = Noted(reach, missed)

\* Between two calls the members are as the last one left them.
IdleInv ==
  /\ thread \notin {"fetching", "draining"} => settled = Members
  /\ stage # "idle" => thread = "fetching"

\* An event is fetched and held under its own number.
NumberedInv ==
  /\ \A e \in fetched : e.sequence_number = asked
  /\ \A s \in DOMAIN buffer : buffer[s].sequence_number = s

\* The loop of attemptRecoveryUntil: what lies below reach has been fetched, and
\* reach comes next, or has been missed.
FetchingInv ==
  thread = "fetching" =>
    /\ settled.state # "Failed" /\ settled.buffer # {}
    /\ settled.statistics.recovery_misses < MaxMisses
    /\ expected = settled.expected /\ state = settled.state
    /\ \E reach \in Int :
         \/ /\ Fetched(reach, FALSE)
            /\ toTry = reach .. Top - 1
            /\ stage # "idle" => asked = reach /\ reach < Top /\ reach \notin settled.buffer
         \/ /\ Fetched(reach, TRUE)
            /\ toTry = {} /\ stage = "idle"
            /\ reach \notin settled.buffer

\* The arguments the calls hand to Drain.
Handed(held, counted) ==
  \/ /\ SP!Listening
     /\ held = settled.buffer \cup {settled.expected}
     /\ counted = SP!Received
  \/ /\ settled.state # "Failed" /\ settled.buffer # {}
     /\ \E reach \in SP!Reach(settled.buffer) :
          /\ reach \notin settled.buffer => settled.statistics.recovery_misses < MaxMisses
          /\ held = settled.buffer \cup Gap(reach)
          /\ counted = Noted(reach, reach \notin settled.buffer)

\* The loop of drainContiguousEvents: what lies below expected has been applied.
Drained(held, counted) ==
  /\ settled.expected .. expected - 1 \subseteq held
  /\ DOMAIN buffer = {s \in held : s >= expected}
  /\ statistics = SP!Counting(counted, expected - settled.expected, 0)

DrainingInv ==
  thread = "draining" =>
    /\ expected \in settled.expected .. LastSequence
    /\ state = settled.state
    /\ \E held \in SUBSET SP!Sequences : \E counted \in SP!Statistics :
         Handed(held, counted) /\ Drained(held, counted)

CallInv ==
  /\ FetchInv /\ NumberedInv /\ IdleInv /\ FetchingInv /\ DrainingInv
  /\ SP!IInv /\ SP!PeakNoted

----------------------------------------------------------------------------

LEMMA SameNotions ==
  \A S : SP!Cardinality(S) = Cardinality(S) /\ SP!IsFiniteSet(S) = IsFiniteSet(S)
<1>1. ASSUME NEW S PROVE SP!Cardinality(S) = Cardinality(S)
  BY DEF SP!Cardinality, Cardinality
<1>2. ASSUME NEW S PROVE SP!IsFiniteSet(S) = IsFiniteSet(S)
  BY DEF SP!IsFiniteSet, IsFiniteSet
<1>. QED  BY <1>1, <1>2

LEMMA SettledFacts ==
  ASSUME SP!IInv
  PROVE  /\ settled.expected \in Nat /\ settled.expected \in FirstSequence .. LastSequence
         /\ settled.statistics \in SP!Statistics
         /\ settled.buffer \subseteq SP!Sequences
         /\ \A s \in settled.buffer :
              /\ s \in Int /\ settled.expected < s /\ s <= settled.expected + MaximumReorderDepth
              /\ s <= LastSequence
         /\ IsFiniteSet(settled.buffer) /\ Cardinality(settled.buffer) \in Nat
<1>0. /\ MaximumReorderDepth \in Nat /\ MaximumReorderDepth >= 1
      /\ 1 <= FirstSequence /\ FirstSequence <= LastSequence
      /\ FirstSequence \in Nat /\ LastSequence \in Nat /\ MaxReceived \in Nat /\ MaxMisses \in Nat
  BY SequencerAssumption
<1>1. /\ settled.expected \in Nat /\ settled.statistics \in SP!Statistics
      /\ \A s \in settled.buffer : s \in settled.expected + 1 .. settled.expected + SP!Window
                                   /\ s \in SP!Sequences
      /\ IsFiniteSet(settled.buffer) /\ Cardinality(settled.buffer) \in Nat
  BY <1>0, SP!Facts, SameNotions
<1>2. settled.expected \in FirstSequence .. LastSequence
  BY DEF SP!IInv, SP!Typed
<1>3. \A s \in settled.buffer :
        /\ s \in Int /\ settled.expected < s /\ s <= settled.expected + MaximumReorderDepth
        /\ s <= LastSequence
  BY <1>1, SequencerAssumption DEF SP!Window, SP!Sequences
<1>. QED  BY <1>1, <1>2, <1>3

LEMMA CountingSteps ==
  ASSUME NEW c \in SP!Statistics, NEW n \in Nat
  PROVE  /\ SP!Counting(c, 0, 0) = c
         /\ [SP!Counting(c, n, 0) EXCEPT !.events_applied = @ + 1] = SP!Counting(c, n + 1, 0)
         /\ [SP!Counting(c, n, 0) EXCEPT !.application_rejections = @ + 1]
              = SP!Counting(c, n, 1)
<1>. DEFINE E(x, y) == [c EXCEPT !.events_applied = x, !.application_rejections = y]
            a == c.events_applied
            r == c.application_rejections
<1>1. a \in Nat /\ r \in Nat
  BY DEF SP!Statistics
<1>2. E(a, r) = c
  BY DEF SP!Statistics
<1>3. ASSUME NEW x \in Nat, NEW y \in Nat, NEW z \in Nat
      PROVE  /\ E(x, y).events_applied = x /\ E(x, y).application_rejections = y
             /\ [E(x, y) EXCEPT !.events_applied = z] = E(z, y)
             /\ [E(x, y) EXCEPT !.application_rejections = z] = E(x, z)
  BY DEF SP!Statistics
<1>4. \A m \in Nat, k \in Nat : SP!Counting(c, m, k) = E(a + m, r + k)
  BY DEF SP!Counting
<1>. HIDE DEF E, a, r
<1>5. SP!Counting(c, n, 0) = E(a + n, r) /\ SP!Counting(c, n + 1, 0) = E(a + n + 1, r)
      /\ SP!Counting(c, n, 1) = E(a + n, r + 1) /\ SP!Counting(c, 0, 0) = E(a, r)
  BY <1>1, <1>4
<1>. DEFINE i == a + n
            j == a + n + 1
            k == r + 1
<1>6. i \in Nat /\ j \in Nat /\ k \in Nat
  BY <1>1
<1>. HIDE DEF i, j, k
<1>7. /\ E(i, r).events_applied = i /\ E(i, r).application_rejections = r
      /\ [E(i, r) EXCEPT !.events_applied = j] = E(j, r)
      /\ [E(i, r) EXCEPT !.application_rejections = k] = E(i, k)
  BY <1>1, <1>3, <1>6
<1>8. j = i + 1 /\ k = r + 1
  BY <1>1 DEF i, j, k
<1>9. /\ [E(i, r) EXCEPT !.events_applied = @ + 1] = E(j, r)
      /\ [E(i, r) EXCEPT !.application_rejections = @ + 1] = E(i, k)
  BY <1>7, <1>8
<1>. QED  BY <1>2, <1>5, <1>9 DEF i, j, k

LEMMA MaxOfTwo ==
  ASSUME NEW a \in Int, NEW b \in Int
  PROVE  Max({a, b}) = IF b > a THEN b ELSE a
  BY DEF Max

LEMMA MinOfRange ==
  ASSUME NEW a \in Int, NEW b \in Int, a <= b
  PROVE  Min(a .. b) = a /\ (a .. b) \ {a} = a + 1 .. b
<1>1. a \in a .. b /\ \A y \in a .. b : a <= y
  OBVIOUS
<1>2. \A x \in a .. b : (\A y \in a .. b : x <= y) => x = a
  OBVIOUS
<1>3. Min(a .. b) = a
  BY <1>1, <1>2 DEF Min
<1>. QED  BY <1>3

LEMMA WithDepthNotes ==
  ASSUME NEW stats \in SP!Statistics, NEW held, Cardinality(DOMAIN held) \in Nat
  PROVE  WithDepth(stats, held) = SP!NotingDepth(stats, Cardinality(DOMAIN held))
<1>1. stats.maximum_buffer_depth \in Nat
  BY DEF SP!Statistics
<1>2. Max({stats.maximum_buffer_depth, Cardinality(DOMAIN held)})
        = IF Cardinality(DOMAIN held) > stats.maximum_buffer_depth
            THEN Cardinality(DOMAIN held) ELSE stats.maximum_buffer_depth
  BY <1>1, MaxOfTwo
<1>. QED  BY <1>2 DEF WithDepth, SP!NotingDepth

----------------------------------------------------------------------------
(* Draining                                                                *)

LEMMA HandedDrains ==
  ASSUME SP!IInv, NEW held, NEW counted, Handed(held, counted), SP!Drain(held, counted)
  PROVE  SP!Next
<1>1. CASE SP!Listening /\ held = settled.buffer \cup {settled.expected}
           /\ counted = SP!Received
  <2>1. settled.expected \in SP!Sequences
    BY SettledFacts, SequencerAssumption DEF SP!Sequences
  <2>2. SP!ExpectedEvent(settled.expected)
    BY <1>1 DEF SP!ExpectedEvent
  <2>. QED  BY <2>1, <2>2 DEF SP!Next, SP!OnEvent
<1>2. CASE /\ settled.state # "Failed" /\ settled.buffer # {}
           /\ \E reach \in SP!Reach(settled.buffer) :
                /\ reach \notin settled.buffer
                     => settled.statistics.recovery_misses < MaxMisses
                /\ held = settled.buffer \cup Gap(reach)
                /\ counted = Noted(reach, reach \notin settled.buffer)
  <2>1. PICK reach \in SP!Reach(settled.buffer) :
          /\ reach \notin settled.buffer => settled.statistics.recovery_misses < MaxMisses
          /\ held = settled.buffer \cup Gap(reach)
          /\ counted = Noted(reach, reach \notin settled.buffer)
    BY <1>2
  <2>2. \A S : SP!Cardinality(S) = Cardinality(S)
    BY SameNotions
  <2>3. SP!RetryRecovery
    BY <1>2, <2>1, <2>2 DEF SP!RetryRecovery, Gap, Noted
  <2>. QED  BY <2>3 DEF SP!Next
<1>. QED  BY <1>1, <1>2 DEF Handed

LEMMA HandedStays ==
  ASSUME NEW held, NEW counted, Handed(held, counted), settled' = settled
  PROVE  Handed(held, counted)'
  BY DEF Handed, Gap, Noted, SP!Listening, SP!Received, SP!Reach

LEMMA DrainEndsMaps ==
  ASSUME CallInv, DrainEnds
  PROVE  SP!Next /\ thread' = "idle" /\ settled' = Members'
<1>1. PICK held \in SUBSET SP!Sequences, counted \in SP!Statistics :
        Handed(held, counted) /\ Drained(held, counted)
  BY DEF CallInv, DrainEnds, DrainingInv
<1>2. /\ expected \in settled.expected .. LastSequence
      /\ expected \notin DOMAIN buffer
      /\ thread' = "idle" /\ settled' = Members'
      /\ state' = IF DOMAIN buffer = {} THEN "Healthy" ELSE "Recovering"
      /\ UNCHANGED <<expected, buffer, statistics>>
  BY DEF CallInv, DrainEnds, DrainingInv, Settles
<1>3. /\ settled'.expected = expected /\ settled'.buffer = DOMAIN buffer
      /\ settled'.state = state' /\ settled'.statistics = statistics
  BY <1>2 DEF Members
<1>4. settled.expected \in Int /\ expected \in Int /\ LastSequence \in Int
      /\ \A s \in held : s \in Int
  BY <1>2, SettledFacts, SequencerAssumption DEF CallInv, SP!Sequences
<1>5. expected \notin held /\ DOMAIN buffer = SP!HeldAfter(held, expected)
  BY <1>1, <1>2, <1>4 DEF Drained, SP!HeldAfter
<1>6. SP!Drain(held, counted)
  <2>1. expected \in settled.expected .. LastSequence + 1 /\ ~(expected > LastSequence)
    BY <1>2, <1>4
  <2>2. settled'.state = SP!FeedStateFor(SP!HeldAfter(held, expected))
    BY <1>2, <1>3, <1>5 DEF SP!FeedStateFor
  <2>. QED  BY <1>1, <1>3, <1>5, <2>1, <2>2 DEF SP!Drain, Drained
<1>. QED  BY <1>1, <1>2, <1>6, HandedDrains DEF CallInv

\* One call of applyExpectedEvent inside a call of the sequencer: it ends the
\* call as Drain may end, or goes on.
LEMMA ApplyingMaps ==
  ASSUME SP!IInv, NEW held \in SUBSET SP!Sequences, NEW counted \in SP!Statistics,
         Handed(held, counted),
         NEW e, e.sequence_number = expected, NEW rest,
         expected \in settled.expected .. LastSequence,
         settled.expected .. expected \subseteq held,
         DOMAIN rest = {s \in held : s > expected},
         ApplyExpected(e, rest, SP!Counting(counted, expected - settled.expected, 0))
  PROVE  \/ SP!Next /\ thread' = "idle" /\ settled' = Members'
         \/ /\ settled' = settled /\ thread' = "draining" /\ state' = state
            /\ expected' \in settled.expected .. LastSequence
            /\ Handed(held, counted)' /\ Drained(held, counted)'
<1>. DEFINE n == expected - settled.expected
            soFar == SP!Counting(counted, n, 0)
<1>1. /\ settled.expected \in Int /\ expected \in Int /\ LastSequence \in Int
      /\ n \in Nat /\ n + 1 = (expected + 1) - settled.expected
      /\ \A s \in held : s \in Int /\ s <= LastSequence
      /\ expected \in held
  BY SettledFacts, SequencerAssumption DEF SP!Sequences
<1>2. /\ [soFar EXCEPT !.events_applied = @ + 1] = SP!Counting(counted, n + 1, 0)
      /\ [soFar EXCEPT !.application_rejections = @ + 1] = SP!Counting(counted, n, 1)
  BY <1>1, CountingSteps
<1>. HIDE DEF n, soFar
<1>3. /\ buffer' = rest
      /\ \/ AppliesExpected(soFar)
         \/ Fails([soFar EXCEPT !.application_rejections = @ + 1])
  BY DEF ApplyExpected, soFar, n
<1>4. CASE AppliesExpected(soFar) /\ expected # LastSequence
  <2>1. /\ expected' = expected + 1 /\ thread' = "draining"
        /\ statistics' = SP!Counting(counted, n + 1, 0)
        /\ state' = state /\ settled' = settled
    BY <1>2, <1>4 DEF AppliesExpected
  <2>2. settled.expected .. expected' - 1 \subseteq held
    BY <1>1, <2>1
  <2>3. DOMAIN buffer' = {s \in held : s >= expected'}
    BY <1>1, <1>3, <2>1
  <2>4. statistics' = SP!Counting(counted, expected' - settled'.expected, 0)
    BY <1>1, <2>1
  <2>5. Drained(held, counted)'
    BY <2>1, <2>2, <2>3, <2>4 DEF Drained
  <2>6. expected' \in settled.expected .. LastSequence
    BY <1>1, <1>4, <2>1
  <2>. QED  BY <2>1, <2>5, <2>6, HandedStays
<1>5. CASE AppliesExpected(soFar) /\ expected = LastSequence
  <2>1. /\ expected' = expected /\ state' = "Failed"
        /\ thread' = "idle" /\ settled' = Members'
        /\ statistics' = SP!Counting(counted, n + 1, 0)
    BY <1>2, <1>5 DEF AppliesExpected, Fails, Settles
  <2>2. /\ settled'.expected = LastSequence /\ settled'.buffer = DOMAIN rest
        /\ settled'.state = "Failed" /\ settled'.statistics = SP!Counting(counted, n + 1, 0)
    BY <1>3, <1>5, <2>1 DEF Members
  <2>. DEFINE stop == LastSequence + 1
  <2>3. /\ stop \in settled.expected .. LastSequence + 1
        /\ stop > LastSequence /\ stop \notin held
        /\ settled.expected .. stop - 1 \subseteq held
        /\ stop - settled.expected = n + 1
    BY <1>1, <1>5
  <2>4. DOMAIN rest = SP!HeldAfter(held, stop)
    <3>1. \A s \in held : ~(s > expected) /\ ~(s > stop)
      BY <1>1, <1>5
    <3>. QED  BY <3>1 DEF SP!HeldAfter
  <2>. HIDE DEF stop
  <2>5. SP!Drain(held, counted)
    BY <2>2, <2>3, <2>4 DEF SP!Drain
  <2>. QED  BY <2>1, <2>5, HandedDrains
<1>6. CASE Fails([soFar EXCEPT !.application_rejections = @ + 1])
  <2>1. /\ expected' = expected /\ state' = "Failed"
        /\ thread' = "idle" /\ settled' = Members'
        /\ statistics' = SP!Counting(counted, n, 1)
    BY <1>2, <1>6 DEF Fails, Settles
  <2>2. /\ settled'.expected = expected /\ settled'.buffer = DOMAIN rest
        /\ settled'.state = "Failed" /\ settled'.statistics = SP!Counting(counted, n, 1)
    BY <1>3, <2>1 DEF Members
  <2>3. /\ expected \in settled.expected .. LastSequence + 1
        /\ ~(expected > LastSequence)
        /\ settled.expected .. expected - 1 \subseteq held
    BY <1>1
  <2>4. DOMAIN rest = SP!HeldAfter(held, expected)
    BY DEF SP!HeldAfter
  <2>5. SP!Drain(held, counted)
    BY <1>1, <2>2, <2>3, <2>4 DEF SP!Drain, n
  <2>. QED  BY <2>1, <2>5, HandedDrains
<1>. QED  BY <1>3, <1>4, <1>5, <1>6

LEMMA DrainOneMaps ==
  ASSUME CallInv, DrainOne
  PROVE  \/ SP!Next /\ thread' = "idle" /\ settled' = Members'
         \/ settled' = settled /\ thread' = "draining" /\ DrainingInv'
<1>1. PICK held \in SUBSET SP!Sequences, counted \in SP!Statistics :
        Handed(held, counted) /\ Drained(held, counted)
  BY DEF CallInv, DrainOne, DrainingInv
<1>. DEFINE rest == [s \in DOMAIN buffer \ {expected} |-> buffer[s]]
<1>2. /\ expected \in settled.expected .. LastSequence /\ state = settled.state
      /\ expected \in DOMAIN buffer
      /\ ApplyExpected(buffer[expected], rest, statistics)
  BY DEF CallInv, DrainOne, DrainingInv
<1>3. buffer[expected].sequence_number = expected
  BY <1>2 DEF CallInv, NumberedInv
<1>4. settled.expected \in Int /\ expected \in Int /\ LastSequence \in Int
      /\ \A s \in held : s \in Int
  BY <1>2, SettledFacts, SequencerAssumption DEF CallInv, SP!Sequences
<1>5. settled.expected .. expected \subseteq held
  BY <1>1, <1>2, <1>4 DEF Drained
<1>6. DOMAIN rest = {s \in held : s > expected}
  BY <1>1, <1>2, <1>4 DEF Drained
<1>7. statistics = SP!Counting(counted, expected - settled.expected, 0)
  BY <1>1 DEF Drained
<1>8. SP!IInv
  BY DEF CallInv
<1>. HIDE DEF rest
<1>9. \/ SP!Next /\ thread' = "idle" /\ settled' = Members'
      \/ /\ settled' = settled /\ thread' = "draining" /\ state' = state
         /\ expected' \in settled.expected .. LastSequence
         /\ Handed(held, counted)' /\ Drained(held, counted)'
  BY <1>1, <1>2, <1>3, <1>5, <1>6, <1>7, <1>8, ApplyingMaps
<1>. QED  BY <1>2, <1>9 DEF DrainingInv

----------------------------------------------------------------------------
(* onEvent                                                                 *)

LEMMA RecordedNumber ==
  ASSUME recording \in Recordings, NEW n \in DOMAIN recording
  PROVE  recording[n].sequence_number \in FirstSequence .. LastSequence
<1>1. /\ n \in 1 .. Len(recording) /\ Len(recording) \in Nat
      /\ FirstSequence + Len(recording) - 1 <= LastSequence
      /\ recording[n].sequence_number = FirstSequence + n - 1
  BY RecordingsAssumption
<1>2. n \in 1 .. Len(recording) /\ FirstSequence \in Nat /\ LastSequence \in Nat
  BY <1>1, SequencerAssumption
<1>. QED  BY <1>1, <1>2

LEMMA OnEventMaps ==
  ASSUME CallInv, recording \in Recordings, NEW n \in DOMAIN recording, OnEvent(recording[n])
  PROVE  \/ SP!Next /\ thread' = "idle" /\ settled' = Members'
         \/ settled' = settled /\ thread' = "draining" /\ DrainingInv'
<1>. DEFINE e == recording[n]
            sequence == e.sequence_number
            received == [statistics EXCEPT !.events_received = @ + 1]
            ahead == [received EXCEPT !.out_of_order_events = @ + 1, !.gaps_detected = @ + 1]
<1>1. /\ settled.expected = expected /\ settled.buffer = DOMAIN buffer
      /\ settled.state = state /\ settled.statistics = statistics
  <2>1. settled = Members
    BY DEF OnEvent, CallInv, IdleInv
  <2>. QED  BY <2>1 DEF Members
<1>2. SP!Listening /\ SP!Received = received /\ SP!ReceivedAhead = ahead
  BY <1>1 DEF OnEvent, SP!Listening, SP!Received, SP!ReceivedAhead
<1>3. sequence \in SP!Sequences /\ sequence \in FirstSequence .. LastSequence
  BY RecordedNumber, SequencerAssumption DEF SP!Sequences
<1>4. settled' = Members' =>
        /\ settled'.expected = expected' /\ settled'.buffer = DOMAIN buffer'
        /\ settled'.state = state' /\ settled'.statistics = statistics'
  BY DEF Members
<1>5. \/ IgnoresOld(e, received) \/ TakesExpected(e, received) \/ Overflows(e, ahead)
      \/ IgnoresHeld(e, ahead) \/ Holds(e, ahead)
  BY DEF OnEvent
<1>6. SP!IInv /\ settled.expected \in Int /\ MaximumReorderDepth \in Int
  BY SettledFacts, SequencerAssumption DEF CallInv
<1>. HIDE DEF e, sequence, received, ahead
<1>7. CASE IgnoresOld(e, received)
  <2>1. /\ sequence < expected /\ UNCHANGED <<expected, buffer, state>>
        /\ statistics' = [received EXCEPT !.duplicates_ignored = @ + 1]
        /\ thread' = "idle" /\ settled' = Members'
    BY <1>7 DEF IgnoresOld, Settles, sequence
  <2>2. SP!OldEvent(sequence)
    BY <1>1, <1>2, <1>4, <2>1 DEF SP!OldEvent, SP!ReceivedDuplicate
  <2>. QED  BY <1>3, <2>1, <2>2 DEF SP!Next, SP!OnEvent
<1>8. CASE Overflows(e, ahead)
  <2>1. /\ sequence - expected > MaximumReorderDepth /\ UNCHANGED <<expected, buffer>>
        /\ state' = "Failed"
        /\ statistics' = [ahead EXCEPT !.reorder_buffer_overflows = @ + 1]
        /\ thread' = "idle" /\ settled' = Members'
    BY <1>8 DEF Overflows, Fails, Settles, sequence
  <2>2. sequence > expected
    BY <1>1, <1>3, <1>6, <2>1, SequencerAssumption
  <2>3. SP!TooFarAhead(sequence)
    BY <1>1, <1>2, <1>4, <2>1, <2>2 DEF SP!TooFarAhead, SP!BeyondWindow
  <2>. QED  BY <1>3, <2>1, <2>3 DEF SP!Next, SP!OnEvent
<1>9. CASE IgnoresHeld(e, ahead)
  <2>1. /\ sequence - expected \in 1 .. MaximumReorderDepth /\ sequence \in DOMAIN buffer
        /\ UNCHANGED <<expected, buffer, state>>
        /\ statistics' = [ahead EXCEPT !.duplicates_ignored = @ + 1]
        /\ thread' = "idle" /\ settled' = Members'
    BY <1>9 DEF IgnoresHeld, Settles, sequence
  <2>2. sequence > expected /\ ~(sequence - expected > MaximumReorderDepth)
    BY <1>1, <1>3, <1>6, <2>1, SequencerAssumption
  <2>3. SP!HeldEvent(sequence)
    BY <1>1, <1>2, <1>4, <2>1, <2>2 DEF SP!HeldEvent, SP!BeyondWindow, SP!AlreadyHeld
  <2>. QED  BY <1>3, <2>1, <2>3 DEF SP!Next, SP!OnEvent
<1>10. CASE Holds(e, ahead)
  <2>1. /\ sequence - expected \in 1 .. MaximumReorderDepth /\ sequence \notin DOMAIN buffer
        /\ DOMAIN buffer' = DOMAIN buffer \cup {sequence} /\ UNCHANGED expected
        /\ state' = "Recovering"
        /\ statistics' = WithDepth(ahead, buffer')
        /\ thread' = "idle" /\ settled' = Members'
    BY <1>10 DEF Holds, Settles, Emplaced, sequence
  <2>2. sequence > expected /\ ~(sequence - expected > MaximumReorderDepth)
    BY <1>1, <1>3, <1>6, <2>1, SequencerAssumption
  <2>3. Cardinality(DOMAIN buffer') \in Nat
    <3>1. IsFiniteSet(DOMAIN buffer)
      BY <1>1, <1>6, SettledFacts
    <3>. QED  BY <2>1, <3>1, FS_AddElement, FS_CardinalityType
  <2>4. ahead \in SP!Statistics
    <3>1. settled.statistics \in SP!Statistics
      BY <1>6, SettledFacts
    <3>. QED  BY <1>2, <3>1, SP!ReceivedFacts, SequencerAssumption
  <2>5. statistics' = SP!NotingDepth(ahead, SP!Cardinality(DOMAIN buffer'))
    BY <2>1, <2>3, <2>4, WithDepthNotes, SameNotions
  <2>6. SP!EarlyEvent(sequence)
    BY <1>1, <1>2, <1>4, <2>1, <2>2, <2>5 DEF SP!EarlyEvent, SP!BeyondWindow, SP!AlreadyHeld
  <2>. QED  BY <1>3, <2>1, <2>6 DEF SP!Next, SP!OnEvent
<1>11. CASE TakesExpected(e, received)
  <2>. DEFINE held == settled.buffer \cup {settled.expected}
  <2>1. sequence = expected /\ ApplyExpected(e, buffer, received)
    BY <1>11 DEF TakesExpected, sequence
  <2>2. held \subseteq SP!Sequences /\ Handed(held, received)
    BY <1>1, <1>2, <1>3, <1>6, <2>1, SettledFacts DEF Handed
  <2>3. received \in SP!Statistics
    <3>1. settled.statistics \in SP!Statistics
      BY <1>6, SettledFacts
    <3>. QED  BY <1>2, <3>1, SP!ReceivedFacts, SequencerAssumption
  <2>4. /\ expected - settled.expected = 0
        /\ settled.expected .. expected \subseteq held
        /\ expected \in settled.expected .. LastSequence
    BY <1>1, <1>6, SettledFacts, SequencerAssumption
  <2>5. DOMAIN buffer = {s \in held : s > expected}
    BY <1>1, <1>6, SettledFacts
  <2>6. received = SP!Counting(received, expected - settled.expected, 0)
    BY <2>3, <2>4, CountingSteps
  <2>7. PICK h \in SUBSET SP!Sequences, c \in SP!Statistics : h = held /\ c = received
    BY <2>2, <2>3
  <2>8. /\ Handed(h, c) /\ settled.expected .. expected \subseteq h
        /\ DOMAIN buffer = {s \in h : s > expected}
    BY <2>2, <2>4, <2>5, <2>7
  <2>9. ApplyExpected(e, buffer, SP!Counting(c, expected - settled.expected, 0))
    BY <2>1, <2>6, <2>7
  <2>10. e.sequence_number = expected
    BY <2>1 DEF sequence
  <2>. HIDE DEF held
  <2>11. \/ SP!Next /\ thread' = "idle" /\ settled' = Members'
         \/ /\ settled' = settled /\ thread' = "draining" /\ state' = state
            /\ expected' \in settled.expected .. LastSequence
            /\ Handed(h, c)' /\ Drained(h, c)'
    BY <1>6, <2>4, <2>8, <2>9, <2>10, ApplyingMaps
  <2>. QED  BY <1>1, <2>11 DEF DrainingInv
<1>. QED  BY <1>5, <1>7, <1>8, <1>9, <1>10, <1>11
----------------------------------------------------------------------------
(* The loop of attemptRecoveryUntil                                        *)

LEMMA TopFacts ==
  ASSUME SP!IInv, settled.buffer # {}
  PROVE  /\ Top \in settled.buffer /\ Top \in Int /\ settled.expected < Top
         /\ Max(settled.buffer) = Top
         /\ \A s \in settled.buffer : s <= Top
<1>1. /\ settled.expected \in Int /\ MaximumReorderDepth \in Int
      /\ \A s \in settled.buffer :
           s \in Int /\ settled.expected < s /\ s <= settled.expected + MaximumReorderDepth
  BY SettledFacts, SequencerAssumption
<1>. DEFINE a == settled.expected
            b == settled.expected + MaximumReorderDepth
<1>2. a \in Int /\ b \in Int /\ settled.buffer \subseteq a .. b
  BY <1>1
<1>. HIDE DEF a, b
<1>3. Top \in settled.buffer /\ \A s \in settled.buffer : s <= Top
  BY <1>2, SequencerAssumption, SP!LargestExists DEF Top
<1>4. Max(settled.buffer) = Top
  BY DEF Top, SP!Max, Max
<1>. QED  BY <1>1, <1>3, <1>4

\* stats with another account of the fetches.
Fetches(stats, recovered, misses, depth) ==
  [stats EXCEPT !.events_recovered = recovered, !.recovery_misses = misses,
                !.maximum_buffer_depth = depth]

LEMMA FetchesFacts ==
  ASSUME NEW c \in SP!Statistics, NEW r \in Nat, NEW m \in Nat, NEW d \in Nat, NEW x \in Nat
  PROVE  /\ Fetches(c, c.events_recovered, c.recovery_misses, c.maximum_buffer_depth) = c
         /\ Fetches(c, r, m, d) \in SP!Statistics
         /\ Fetches(c, r, m, d).events_recovered = r
         /\ Fetches(c, r, m, d).recovery_misses = m
         /\ Fetches(c, r, m, d).maximum_buffer_depth = d
         /\ [Fetches(c, r, m, d) EXCEPT !.events_recovered = x] = Fetches(c, x, m, d)
         /\ [Fetches(c, r, m, d) EXCEPT !.recovery_misses = x] = Fetches(c, r, x, d)
         /\ [Fetches(c, r, m, d) EXCEPT !.maximum_buffer_depth = x] = Fetches(c, r, m, x)
<1>1. Fetches(c, c.events_recovered, c.recovery_misses, c.maximum_buffer_depth) = c
  BY DEF Fetches, SP!Statistics
<1>2. Fetches(c, r, m, d) \in SP!Statistics
  BY DEF Fetches, SP!Statistics
<1>3. /\ Fetches(c, r, m, d).events_recovered = r
      /\ Fetches(c, r, m, d).recovery_misses = m
      /\ Fetches(c, r, m, d).maximum_buffer_depth = d
  BY DEF Fetches, SP!Statistics
<1>4. [Fetches(c, r, m, d) EXCEPT !.events_recovered = x] = Fetches(c, x, m, d)
  BY DEF Fetches, SP!Statistics
<1>5. [Fetches(c, r, m, d) EXCEPT !.recovery_misses = x] = Fetches(c, r, x, d)
  BY DEF Fetches, SP!Statistics
<1>6. [Fetches(c, r, m, d) EXCEPT !.maximum_buffer_depth = x] = Fetches(c, r, m, x)
  BY DEF Fetches, SP!Statistics
<1>. QED  BY <1>1, <1>2, <1>3, <1>4, <1>5, <1>6

\* The depth noted, where depth is what the buffer holds.
Deepest(depth) ==
  IF depth > settled.statistics.maximum_buffer_depth
    THEN depth ELSE settled.statistics.maximum_buffer_depth

LEMMA NotedFetches ==
  ASSUME SP!IInv, NEW reach, IsFiniteSet(Gap(reach)), NEW missed \in BOOLEAN
  PROVE  LET stats == settled.statistics
             gap   == Cardinality(Gap(reach))
             depth == Cardinality(settled.buffer \cup Gap(reach))
         IN  /\ gap \in Nat /\ depth \in Nat
             /\ stats.events_recovered \in Nat /\ stats.recovery_misses \in Nat
             /\ stats.maximum_buffer_depth \in Nat
             /\ Noted(reach, missed)
                  = Fetches(stats, stats.events_recovered + gap,
                            IF missed THEN stats.recovery_misses + 1 ELSE stats.recovery_misses,
                            Deepest(depth))
             /\ Noted(reach, missed) \in SP!Statistics
<1>. DEFINE stats == settled.statistics
            gap   == Cardinality(Gap(reach))
            depth == Cardinality(settled.buffer \cup Gap(reach))
            r == stats.events_recovered
            m == stats.recovery_misses
            p == stats.maximum_buffer_depth
            x == r + gap
            y == IF missed THEN m + 1 ELSE m
            counted == [stats EXCEPT !.events_recovered = @ + gap,
                                     !.recovery_misses = IF missed THEN @ + 1 ELSE @]
<1>1. stats \in SP!Statistics /\ IsFiniteSet(settled.buffer)
  BY SettledFacts
<1>2. gap \in Nat /\ depth \in Nat
  BY <1>1, FS_CardinalityType, FS_Union
<1>3. r \in Nat /\ m \in Nat /\ p \in Nat
  BY <1>1 DEF SP!Statistics
<1>4. x \in Nat /\ y \in Nat /\ Deepest(depth) \in Nat
  BY <1>2, <1>3 DEF Deepest
<1>5. counted = [stats EXCEPT !.events_recovered = x, !.recovery_misses = y]
  BY <1>1 DEF SP!Statistics
<1>6. Noted(reach, missed) = SP!NotingDepth(counted, depth)
  BY DEF Noted
<1>. HIDE DEF stats, gap, depth, counted, x, y
<1>7. [stats EXCEPT !.events_recovered = x, !.recovery_misses = y] = Fetches(stats, x, y, p)
  BY <1>1, <1>3, <1>4 DEF Fetches, SP!Statistics
<1>8. /\ Fetches(stats, x, y, p).maximum_buffer_depth = p
      /\ [Fetches(stats, x, y, p) EXCEPT !.maximum_buffer_depth = Deepest(depth)]
           = Fetches(stats, x, y, Deepest(depth))
  <2>. HIDE DEF p
  <2>1. Fetches(stats, x, y, p).maximum_buffer_depth = p
    BY <1>1, <1>3, <1>4 DEF Fetches, SP!Statistics
  <2>2. [Fetches(stats, x, y, p) EXCEPT !.maximum_buffer_depth = Deepest(depth)]
          = Fetches(stats, x, y, Deepest(depth))
    BY <1>1, <1>3, <1>4 DEF Fetches, SP!Statistics
  <2>. QED  BY <2>1, <2>2, Zenon
<1>. DEFINE before == Fetches(stats, x, y, p)
<1>9. SP!NotingDepth(before, depth)
        = [before EXCEPT !.maximum_buffer_depth =
             IF depth > before.maximum_buffer_depth THEN depth ELSE before.maximum_buffer_depth]
  BY DEF SP!NotingDepth
<1>10. Deepest(depth)
         = IF depth > before.maximum_buffer_depth THEN depth ELSE before.maximum_buffer_depth
  BY <1>8 DEF Deepest, stats
<1>11. SP!NotingDepth(before, depth) = Fetches(stats, x, y, Deepest(depth))
  BY <1>4, <1>8, <1>9, <1>10
<1>12. Noted(reach, missed) = Fetches(stats, x, y, Deepest(depth))
  BY <1>5, <1>6, <1>7, <1>11
<1>13. Fetches(stats, x, y, Deepest(depth)) \in SP!Statistics
  BY <1>1, <1>4, FetchesFacts
<1>. QED  BY <1>2, <1>3, <1>12, <1>13 DEF stats, gap, depth, x, y
\* What is missing below reach, when reach goes up by one.
LEMMA GapGrows ==
  ASSUME settled.expected \in Int, NEW reach \in Int, settled.expected <= reach
  PROVE  /\ Gap(settled.expected) = {}
         /\ IsFiniteSet(Gap(reach))
         /\ reach \in settled.buffer => Gap(reach + 1) = Gap(reach)
         /\ reach \notin settled.buffer => /\ Gap(reach + 1) = Gap(reach) \cup {reach}
                                           /\ reach \notin Gap(reach)
<1>. DEFINE a == settled.expected
            b == reach - 1
<1>1. a \in Int /\ b \in Int /\ b + 1 = reach /\ a <= reach
  OBVIOUS
<1>2. a .. a - 1 = {} /\ a .. reach + 1 - 1 = a .. b \cup {reach} /\ reach \notin a .. b
  BY <1>1
<1>. HIDE DEF a, b
<1>3. IsFiniteSet(a .. b)
  BY <1>1, FS_Interval
<1>4. IsFiniteSet((a .. b) \ settled.buffer)
  BY <1>3, FS_Subset
<1>. QED  BY <1>2, <1>4 DEF Gap, a, b

LEMMA FetchedStays ==
  ASSUME NEW reach, NEW missed, Fetched(reach, missed), settled' = settled,
         UNCHANGED <<buffer, statistics>>
  PROVE  Fetched(reach, missed)' /\ Top' = Top
<1>. USE DEF Fetched, Top
<1>1. Gap(reach)' = Gap(reach)
  BY DEF Gap
<1>2. Noted(reach, missed)' = Noted(reach, missed)
  BY DEF Noted, Gap
<1>. HIDE DEF Gap, Noted
<1>. QED  BY <1>1, <1>2

LEMMA NotedDepends ==
  ASSUME NEW x, NEW y, Gap(x) = Gap(y), NEW missed
  PROVE  Noted(x, missed) = Noted(y, missed)
  BY Zenon DEF Noted

LEMMA BeginRetryMaps ==
  ASSUME CallInv, BeginRetry
  PROVE  settled' = settled /\ thread' = "fetching" /\ FetchingInv'
<1>1. /\ settled.expected = expected /\ settled.buffer = DOMAIN buffer
      /\ settled.state = state /\ settled.statistics = statistics
      /\ stage = "idle"
  <2>1. settled = Members /\ stage = "idle"
    BY DEF BeginRetry, CallInv, IdleInv
  <2>. QED  BY <2>1 DEF Members
<1>2. /\ SP!IInv /\ SP!PeakNoted
      /\ state # "Failed" /\ DOMAIN buffer # {} /\ statistics.recovery_misses < MaxMisses
      /\ toTry' = expected .. Max(DOMAIN buffer) - 1 /\ thread' = "fetching"
      /\ stage' = "idle" /\ settled' = settled
      /\ UNCHANGED <<expected, buffer, state, statistics>>
  BY <1>1 DEF BeginRetry, CallInv, fetchVars, sequencerVars
<1>3. /\ settled.expected \in Int /\ Gap(settled.expected) = {}
      /\ settled.buffer \cup Gap(settled.expected) = settled.buffer
  BY <1>2, SettledFacts, GapGrows
<1>4. Top \in Int /\ settled.expected < Top /\ Max(settled.buffer) = Top
  BY <1>1, <1>2, TopFacts
<1>5. Noted(settled.expected, FALSE) = settled.statistics
  <2>. DEFINE stats == settled.statistics
              r == stats.events_recovered
              m == stats.recovery_misses
              d == stats.maximum_buffer_depth
  <2>1. /\ r \in Nat /\ m \in Nat /\ d \in Nat /\ stats \in SP!Statistics
        /\ Noted(settled.expected, FALSE)
             = Fetches(stats, r + Cardinality(Gap(settled.expected)), m,
                       Deepest(Cardinality(settled.buffer \cup Gap(settled.expected))))
    BY <1>2, <1>3, NotedFetches, SettledFacts, FS_EmptySet
  <2>2. Cardinality(Gap(settled.expected)) = 0
    BY <1>3, FS_EmptySet
  <2>3. Cardinality(settled.buffer) \in Nat /\ Cardinality(settled.buffer) <= d
    BY <1>2, SettledFacts, SameNotions DEF SP!PeakNoted
  <2>4. Deepest(Cardinality(settled.buffer)) = d
    BY <2>1, <2>3 DEF Deepest
  <2>5. r + Cardinality(Gap(settled.expected)) = r
    BY <2>1, <2>2
  <2>. HIDE DEF r, m, d
  <2>6. Noted(settled.expected, FALSE) = Fetches(stats, r, m, d)
    BY <1>3, <2>1, <2>4, <2>5
  <2>7. Fetches(stats, r, m, d) = stats
    BY <2>1 DEF Fetches, SP!Statistics, r, m, d
  <2>. QED  BY <2>6, <2>7
<1>. PICK reach \in Int : reach = settled.expected
  BY <1>3
<1>6. Fetched(reach, FALSE)
  <2>1. reach \in settled.expected .. Top
    BY <1>3, <1>4
  <2>2. DOMAIN buffer = settled.buffer \cup Gap(reach)
    BY <1>1, <1>3
  <2>3. statistics = Noted(reach, FALSE)
    BY <1>1, <1>5, Zenon
  <2>. QED  BY <2>1, <2>2, <2>3, Zenon DEF Fetched
<1>7. Fetched(reach, FALSE)' /\ Top' = Top
  BY <1>2, <1>6, FetchedStays
<1>8. toTry' = reach .. Top - 1
  BY <1>1, <1>2, <1>4
<1>. QED  BY <1>1, <1>2, <1>7, <1>8 DEF FetchingInv

\* Where the loop stands, or waits for a fetch it has begun.
LEMMA LoopFacts ==
  ASSUME CallInv, thread = "fetching", toTry # {}
  PROVE  \E reach \in Int :
           /\ Fetched(reach, FALSE) /\ reach < Top /\ Top \in Int
           /\ settled.expected \in Int /\ settled.expected <= reach
           /\ toTry = reach .. Top - 1 /\ Min(toTry) = reach /\ Advanced = reach + 1 .. Top - 1
           /\ reach \in DOMAIN buffer <=> reach \in settled.buffer
           /\ stage # "idle" => asked = reach /\ reach \notin settled.buffer
<1>1. SP!IInv /\ settled.buffer # {}
  BY DEF CallInv, FetchingInv
<1>2. Top \in Int /\ settled.expected \in Int
  BY <1>1, TopFacts, SettledFacts
<1>3. PICK reach \in Int :
        /\ Fetched(reach, FALSE) /\ toTry = reach .. Top - 1
        /\ stage # "idle" => asked = reach /\ reach < Top /\ reach \notin settled.buffer
  BY DEF CallInv, FetchingInv
<1>4. reach <= Top - 1 /\ settled.expected <= reach
  BY <1>2, <1>3 DEF Fetched
<1>. DEFINE b == Top - 1
<1>5. b \in Int /\ reach <= b /\ reach < Top
  BY <1>2, <1>4
<1>. HIDE DEF b
<1>6. Min(reach .. b) = reach /\ (reach .. b) \ {reach} = reach + 1 .. b
  BY <1>5, MinOfRange
<1>7. Min(toTry) = reach /\ Advanced = reach + 1 .. Top - 1
  BY <1>3, <1>6 DEF b, Advanced
<1>8. reach \in DOMAIN buffer <=> reach \in settled.buffer
  BY <1>2, <1>3, <1>4 DEF Fetched, Gap
<1>. QED  BY <1>2, <1>3, <1>4, <1>5, <1>7, <1>8

LEMMA SkipHeldMaps ==
  ASSUME CallInv, SkipHeld
  PROVE  settled' = settled /\ thread' = "fetching" /\ FetchingInv'
<1>1. /\ thread = "fetching" /\ stage = "idle" /\ toTry # {}
      /\ Min(toTry) \in DOMAIN buffer /\ toTry' = Advanced
      /\ thread' = "fetching" /\ stage' = "idle" /\ settled' = settled
      /\ UNCHANGED <<expected, buffer, state, statistics>>
  BY DEF SkipHeld, LoopStands, fetchVars, sequencerVars
<1>2. PICK reach \in Int :
        /\ Fetched(reach, FALSE) /\ reach < Top /\ Top \in Int
        /\ settled.expected \in Int /\ settled.expected <= reach
        /\ toTry' = reach + 1 .. Top - 1
        /\ reach \in settled.buffer
  BY <1>1, LoopFacts
<1>3. Gap(reach + 1) = Gap(reach)
  BY <1>2, GapGrows
<1>4. Fetched(reach + 1, FALSE)
  <2>1. reach + 1 \in settled.expected .. Top
    BY <1>2
  <2>2. DOMAIN buffer = settled.buffer \cup Gap(reach + 1)
    BY <1>2, <1>3, Zenon DEF Fetched
  <2>3. statistics = Noted(reach + 1, FALSE)
    <3>1. Noted(reach + 1, FALSE) = Noted(reach, FALSE)
      BY <1>3, NotedDepends, Zenon
    <3>. QED  BY <1>2, <3>1, Zenon DEF Fetched
  <2>. QED  BY <2>1, <2>2, <2>3, Zenon DEF Fetched
<1>5. Fetched(reach + 1, FALSE)' /\ Top' = Top
  BY <1>1, <1>4, FetchedStays
<1>6. /\ settled'.state # "Failed" /\ settled'.buffer # {}
      /\ settled'.statistics.recovery_misses < MaxMisses
      /\ expected' = settled'.expected /\ state' = settled'.state
  BY <1>1 DEF CallInv, FetchingInv
<1>7. reach + 1 \in Int
  BY <1>2
<1>. QED  BY <1>1, <1>2, <1>5, <1>6, <1>7 DEF FetchingInv

LEMMA BeginsToFetchMaps ==
  ASSUME CallInv, FetchOverTcp \/ FetchFromMemory
  PROVE  settled' = settled /\ thread' = "fetching" /\ FetchingInv'
<1>1. /\ thread = "fetching" /\ stage = "idle" /\ toTry # {}
      /\ Min(toTry) \notin DOMAIN buffer /\ asked' = Min(toTry)
      /\ thread' = "fetching" /\ stage' # "idle" /\ settled' = settled
      /\ UNCHANGED <<expected, buffer, state, statistics, toTry>>
  <2>1. CASE FetchOverTcp
    BY <2>1 DEF FetchOverTcp, LoopStands, BeginFetch, Returns, sequencerVars
  <2>2. CASE FetchFromMemory
    BY <2>2 DEF FetchFromMemory, LoopStands, Returns, sequencerVars
  <2>. QED  BY <2>1, <2>2
<1>2. PICK reach \in Int :
        /\ Fetched(reach, FALSE) /\ reach < Top
        /\ toTry' = reach .. Top - 1 /\ asked' = reach
        /\ reach \notin settled.buffer
  BY <1>1, LoopFacts
<1>3. Fetched(reach, FALSE)' /\ Top' = Top
  BY <1>1, <1>2, FetchedStays
<1>4. /\ settled'.state # "Failed" /\ settled'.buffer # {}
      /\ settled'.statistics.recovery_misses < MaxMisses
      /\ expected' = settled'.expected /\ state' = settled'.state
  BY <1>1 DEF CallInv, FetchingInv
<1>. QED  BY <1>1, <1>2, <1>3, <1>4 DEF FetchingInv
LEMMA TakeFetchedMaps ==
  ASSUME CallInv, TakeFetched
  PROVE  settled' = settled /\ thread' = "fetching" /\ FetchingInv'
<1>1. /\ stage = "returned" /\ thread = "fetching" /\ SP!IInv
      /\ toTry' = Advanced /\ stage' = "idle"
      /\ thread' = "fetching" /\ settled' = settled /\ UNCHANGED <<expected, state>>
  BY DEF TakeFetched, CallInv, IdleInv
<1>2. PICK e \in fetched :
        /\ buffer' = Emplaced(asked, e)
        /\ statistics' = WithDepth([statistics EXCEPT !.events_recovered = @ + 1], buffer')
  BY DEF TakeFetched
<1>3. PICK reach \in Int :
        /\ Fetched(reach, FALSE) /\ reach < Top /\ asked = reach
        /\ toTry = reach .. Top - 1 /\ reach \notin settled.buffer
  BY <1>1 DEF CallInv, FetchingInv
<1>4. Top \in Int /\ settled.expected \in Int /\ settled.expected <= reach /\ toTry # {}
  <2>1. settled.buffer # {}
    BY <1>1 DEF CallInv, FetchingInv
  <2>2. Top \in Int /\ settled.expected \in Int
    BY <1>1, <2>1, TopFacts, SettledFacts
  <2>. QED  BY <1>3, <2>2 DEF Fetched
<1>. DEFINE next == reach + 1
<1>5. /\ IsFiniteSet(Gap(reach)) /\ IsFiniteSet(Gap(next))
      /\ Gap(next) = Gap(reach) \cup {reach} /\ reach \notin Gap(reach)
      /\ next \in Int /\ next \in settled.expected .. Top /\ next - 1 = reach
  BY <1>3, <1>4, GapGrows
<1>6. toTry' = next .. Top - 1
  <2>. DEFINE b == Top - 1
  <2>1. b \in Int /\ reach <= b
    BY <1>3, <1>4
  <2>. HIDE DEF b
  <2>2. Min(reach .. b) = reach /\ (reach .. b) \ {reach} = reach + 1 .. b
    BY <2>1, MinOfRange
  <2>. QED  BY <1>1, <1>3, <2>2 DEF b, Advanced
<1>. HIDE DEF next
<1>7. DOMAIN buffer' = settled.buffer \cup Gap(next)
  BY <1>2, <1>3, <1>5 DEF Emplaced, Fetched
<1>8. statistics' = Noted(next, FALSE)
  <2>. DEFINE stats == settled.statistics
              r == stats.events_recovered
              m == stats.recovery_misses
              g == Cardinality(Gap(reach))
              h == Cardinality(Gap(next))
              c == Cardinality(settled.buffer \cup Gap(reach))
              d == Cardinality(settled.buffer \cup Gap(next))
              x == r + g
              y == r + h
  <2>1. /\ g \in Nat /\ c \in Nat /\ r \in Nat /\ m \in Nat
        /\ stats.maximum_buffer_depth \in Nat /\ stats \in SP!Statistics
        /\ Noted(reach, FALSE) = Fetches(stats, x, m, Deepest(c))
    BY <1>1, <1>5, NotedFetches, SettledFacts
  <2>2. /\ h \in Nat /\ d \in Nat
        /\ Noted(next, FALSE) = Fetches(stats, y, m, Deepest(d))
    BY <1>1, <1>5, NotedFetches
  <2>3. h = g + 1 /\ d = c + 1
    <3>1. h = g + 1
      BY <1>5, FS_AddElement
    <3>2. IsFiniteSet(settled.buffer \cup Gap(reach))
      BY <1>1, <1>5, SettledFacts, FS_Union
    <3>3. settled.buffer \cup Gap(next) = (settled.buffer \cup Gap(reach)) \cup {reach}
          /\ reach \notin settled.buffer \cup Gap(reach)
      BY <1>3, <1>5
    <3>4. d = c + 1
      BY <3>2, <3>3, FS_AddElement
    <3>. QED  BY <3>1, <3>4
  <2>4. x \in Nat /\ y \in Nat /\ y = x + 1
    BY <2>1, <2>3
  <2>5. Deepest(c) \in Nat /\ Deepest(d) \in Nat
        /\ Deepest(d) = IF d > Deepest(c) THEN d ELSE Deepest(c)
    BY <2>1, <2>2, <2>3 DEF Deepest
  <2>6. statistics = Noted(reach, FALSE) /\ Cardinality(DOMAIN buffer') = d
    BY <1>3, <1>7 DEF Fetched
  <2>. DEFINE p == Deepest(c)
              q == Deepest(d)
              before == Fetches(stats, x, m, p)
              after == Fetches(stats, y, m, p)
  <2>. HIDE DEF stats, r, m, g, h, c, d, x, y, p, q
  <2>7. statistics = before
    BY <2>1, <2>6 DEF p
  <2>8. p \in Nat /\ q \in Nat /\ q = IF d > p THEN d ELSE p
    BY <2>5 DEF p, q
  <2>9. [before EXCEPT !.events_recovered = @ + 1] = after
    <3>1. before.events_recovered = x /\ [before EXCEPT !.events_recovered = y] = after
      <4>1. before.events_recovered = x
        BY <2>1, <2>4, <2>8 DEF Fetches, SP!Statistics
      <4>2. [before EXCEPT !.events_recovered = y] = after
        BY <2>1, <2>4, <2>8 DEF Fetches, SP!Statistics
      <4>. QED  BY <4>1, <4>2, Zenon
    <3>2. before.events_recovered + 1 = y
      BY <2>4, <3>1
    <3>. QED  BY <3>1, <3>2, Zenon
  <2>10. after \in SP!Statistics /\ after.maximum_buffer_depth = p
    BY <2>1, <2>4, <2>8 DEF Fetches, SP!Statistics
  <2>11. [after EXCEPT !.maximum_buffer_depth = q] = Fetches(stats, y, m, q)
    BY <2>1, <2>4, <2>8 DEF Fetches, SP!Statistics
  <2>. HIDE DEF before, after
  <2>12. statistics' = WithDepth(after, buffer')
    BY <1>2, <2>7, <2>9, Zenon
  <2>13. WithDepth(after, buffer') = SP!NotingDepth(after, d)
    BY <2>2, <2>6, <2>10, WithDepthNotes
  <2>14. SP!NotingDepth(after, d) = [after EXCEPT !.maximum_buffer_depth = q]
    <3>1. q = IF d > after.maximum_buffer_depth THEN d ELSE after.maximum_buffer_depth
      BY <2>8, <2>10
    <3>. QED  BY <3>1, Zenon DEF SP!NotingDepth
  <2>15. Noted(next, FALSE) = Fetches(stats, y, m, q)
    BY <2>2 DEF q
  <2>. QED  BY <2>11, <2>12, <2>13, <2>14, <2>15, Zenon
<1>9. Gap(next)' = Gap(next) /\ Top' = Top
  BY <1>1 DEF Gap, Top, next
<1>10. Noted(next, FALSE)' = Noted(next, FALSE)
  BY <1>1 DEF Noted, Gap, next
<1>11. Fetched(next, FALSE)'
  <2>1. next' = next
    BY DEF next
  <2>2. next' \in settled'.expected .. Top'
    BY <1>1, <1>5, <1>9, <2>1
  <2>3. DOMAIN buffer' = settled'.buffer \cup Gap(next)'
    BY <1>1, <1>7, <1>9
  <2>4. statistics' = Noted(next, FALSE)'
    BY <1>8, <1>10
  <2>. QED  BY <2>1, <2>2, <2>3, <2>4 DEF Fetched
<1>12. /\ settled'.state # "Failed" /\ settled'.buffer # {}
       /\ settled'.statistics.recovery_misses < MaxMisses
       /\ expected' = settled'.expected /\ state' = settled'.state
  BY <1>1 DEF CallInv, FetchingInv
<1>13. \E n \in Int : Fetched(n, FALSE)' /\ toTry' = n .. Top' - 1
  <2>1. next \in Int /\ toTry' = next .. Top' - 1
    BY <1>5, <1>6, <1>9
  <2>. QED  BY <1>11, <2>1 DEF next
<1>. QED  BY <1>1, <1>12, <1>13 DEF FetchingInv
LEMMA CountMissMaps ==
  ASSUME CallInv, CountMiss
  PROVE  settled' = settled /\ thread' = "fetching" /\ FetchingInv'
<1>1. /\ stage = "returned" /\ thread = "fetching" /\ SP!IInv
      /\ statistics' = [statistics EXCEPT !.recovery_misses = @ + 1]
      /\ toTry' = {} /\ stage' = "idle"
      /\ thread' = "fetching" /\ settled' = settled
      /\ UNCHANGED <<expected, buffer, state>>
  BY DEF CountMiss, CallInv, IdleInv, AfterMiss
<1>2. PICK reach \in Int : Fetched(reach, FALSE) /\ reach < Top /\ reach \notin settled.buffer
  BY <1>1 DEF CallInv, FetchingInv
<1>3. settled.expected \in Int /\ settled.expected <= reach
  BY <1>1, <1>2, SettledFacts DEF Fetched
<1>4. statistics' = Noted(reach, TRUE)
  <2>. DEFINE stats == settled.statistics
              x == stats.events_recovered + Cardinality(Gap(reach))
              m == stats.recovery_misses
              d == Deepest(Cardinality(settled.buffer \cup Gap(reach)))
              before == Fetches(stats, x, m, d)
  <2>1. IsFiniteSet(Gap(reach))
    BY <1>3, GapGrows
  <2>2. /\ x \in Nat /\ m \in Nat /\ d \in Nat /\ stats \in SP!Statistics
        /\ Noted(reach, FALSE) = Fetches(stats, x, m, d)
    <3>. DEFINE g == Cardinality(Gap(reach))
                c == Cardinality(settled.buffer \cup Gap(reach))
    <3>1. /\ g \in Nat /\ c \in Nat /\ stats.events_recovered \in Nat /\ m \in Nat
          /\ stats.maximum_buffer_depth \in Nat
          /\ Noted(reach, FALSE) = Fetches(stats, x, m, d)
      BY <1>1, <2>1, NotedFetches
    <3>2. stats \in SP!Statistics
      BY <1>1, SettledFacts
    <3>3. d \in Nat
      BY <3>1 DEF Deepest
    <3>4. x \in Nat
      BY <3>1
    <3>. QED  BY <3>1, <3>2, <3>3, <3>4, Zenon
  <2>3. Noted(reach, TRUE) = Fetches(stats, x, m + 1, d)
    BY <1>1, <2>1, NotedFetches
  <2>4. statistics = before
    BY <1>2, <2>2 DEF Fetched
  <2>. HIDE DEF stats, x, m, d
  <2>5. before.recovery_misses = m /\ m + 1 \in Nat
    BY <2>2 DEF Fetches, SP!Statistics
  <2>6. [before EXCEPT !.recovery_misses = m + 1] = Fetches(stats, x, m + 1, d)
    <3>. DEFINE n == m + 1
    <3>1. n \in Nat
      BY <2>5
    <3>. HIDE DEF n
    <3>2. [before EXCEPT !.recovery_misses = n] = Fetches(stats, x, n, d)
      BY <2>2, <3>1 DEF Fetches, SP!Statistics
    <3>. QED  BY <3>2 DEF n
  <2>. HIDE DEF before
  <2>. QED  BY <1>1, <2>3, <2>4, <2>5, <2>6, Zenon
<1>5. Fetched(reach, TRUE)'
  <2>1. Gap(reach)' = Gap(reach) /\ Top' = Top
    BY <1>1 DEF Gap, Top
  <2>2. Noted(reach, TRUE)' = Noted(reach, TRUE)
    BY <1>1 DEF Noted, Gap
  <2>3. DOMAIN buffer' = settled'.buffer \cup Gap(reach)'
    BY <1>1, <1>2, <2>1 DEF Fetched
  <2>4. reach \in settled'.expected .. Top'
    BY <1>1, <1>2, <2>1 DEF Fetched
  <2>. QED  BY <1>4, <2>2, <2>3, <2>4 DEF Fetched
<1>6. /\ settled'.state # "Failed" /\ settled'.buffer # {}
      /\ settled'.statistics.recovery_misses < MaxMisses
      /\ expected' = settled'.expected /\ state' = settled'.state
  BY <1>1 DEF CallInv, FetchingInv
<1>. QED  BY <1>1, <1>2, <1>5, <1>6 DEF FetchingInv

\* The loop waits, whatever the fetch, the connection and the server do.
LEMMA FetchingStays ==
  ASSUME FetchingInv, settled' = settled,
         UNCHANGED <<thread, expected, buffer, state, statistics, toTry, asked>>,
         stage = "idle" <=> stage' = "idle"
  PROVE  FetchingInv'
<1>. SUFFICES ASSUME thread' = "fetching" PROVE FetchingInv'
  BY DEF FetchingInv
<1>1. /\ settled'.state # "Failed" /\ settled'.buffer # {}
      /\ settled'.statistics.recovery_misses < MaxMisses
      /\ expected' = settled'.expected /\ state' = settled'.state
  BY DEF FetchingInv
<1>2. PICK reach \in Int :
        \/ /\ Fetched(reach, FALSE)
           /\ toTry = reach .. Top - 1
           /\ stage # "idle" => asked = reach /\ reach < Top /\ reach \notin settled.buffer
        \/ /\ Fetched(reach, TRUE)
           /\ toTry = {} /\ stage = "idle"
           /\ reach \notin settled.buffer
  BY DEF FetchingInv
<1>3. CASE /\ Fetched(reach, FALSE)
           /\ toTry = reach .. Top - 1
           /\ stage # "idle" => asked = reach /\ reach < Top /\ reach \notin settled.buffer
  <2>1. Fetched(reach, FALSE)' /\ Top' = Top
    BY <1>3, FetchedStays
  <2>. QED  BY <1>1, <1>3, <2>1 DEF FetchingInv
<1>4. CASE Fetched(reach, TRUE) /\ toTry = {} /\ stage = "idle" /\ reach \notin settled.buffer
  <2>1. Fetched(reach, TRUE)'
    BY <1>4, FetchedStays
  <2>. QED  BY <1>1, <1>4, <2>1 DEF FetchingInv
<1>. QED  BY <1>2, <1>3, <1>4

LEMMA LoopEndsMaps ==
  ASSUME CallInv, LoopEnds
  PROVE  settled' = settled /\ thread' = "draining" /\ DrainingInv'
<1>1. /\ stage = "idle" /\ thread = "fetching" /\ toTry = {} /\ SP!IInv
      /\ thread' = "draining" /\ settled' = settled
      /\ UNCHANGED <<expected, buffer, state, statistics>>
  BY DEF LoopEnds, LoopStands, CallInv, sequencerVars
<1>2. /\ settled.state # "Failed" /\ settled.buffer # {}
      /\ settled.statistics.recovery_misses < MaxMisses
      /\ expected = settled.expected /\ state = settled.state
  BY <1>1 DEF CallInv, FetchingInv
<1>3. /\ Top \in settled.buffer /\ Top \in Int /\ Top \in SP!Sequences
      /\ settled.expected \in Int /\ settled.expected \in FirstSequence .. LastSequence
      /\ LastSequence \in Int /\ FirstSequence \in Int /\ 1 <= FirstSequence
      /\ settled.statistics \in SP!Statistics
      /\ \A s \in settled.buffer : s \in SP!Sequences /\ s \in Int /\ settled.expected < s
  BY <1>1, <1>2, TopFacts, SettledFacts, SequencerAssumption
<1>4. PICK reach \in Int :
        /\ Fetched(reach, reach \notin settled.buffer)
        /\ reach \notin settled.buffer \/ reach = Top
  <2>1. PICK reach \in Int :
          \/ Fetched(reach, FALSE) /\ toTry = reach .. Top - 1
          \/ Fetched(reach, TRUE) /\ reach \notin settled.buffer
    BY <1>1 DEF CallInv, FetchingInv
  <2>2. CASE Fetched(reach, FALSE) /\ toTry = reach .. Top - 1
    <3>1. reach = Top
      BY <1>1, <1>3, <2>2 DEF Fetched
    <3>2. (reach \notin settled.buffer) = FALSE
      BY <1>3, <3>1
    <3>. QED  BY <2>2, <3>1, <3>2, Zenon
  <2>3. CASE Fetched(reach, TRUE) /\ reach \notin settled.buffer
    <3>1. (reach \notin settled.buffer) = TRUE
      BY <2>3
    <3>. QED  BY <2>3, <3>1, Zenon
  <2>. QED  BY <2>1, <2>2, <2>3
<1>. DEFINE missed == reach \notin settled.buffer
<1>5. reach \in settled.expected .. Top /\ settled.expected <= reach
  BY <1>3, <1>4 DEF Fetched
<1>6. PICK held \in SUBSET SP!Sequences : held = settled.buffer \cup Gap(reach)
  <2>1. \A s \in Gap(reach) : s \in SP!Sequences
    BY <1>3, <1>5 DEF Gap, SP!Sequences
  <2>. QED  BY <1>3, <2>1
<1>7. PICK counted \in SP!Statistics : counted = Noted(reach, missed)
  <2>1. IsFiniteSet(Gap(reach)) /\ missed \in BOOLEAN
    BY <1>3, <1>5, GapGrows
  <2>. HIDE DEF missed
  <2>2. Noted(reach, missed) \in SP!Statistics
    BY <1>1, <2>1, NotedFetches
  <2>. QED  BY <2>2
<1>8. Handed(held, counted)
  <2>1. reach \in SP!Reach(settled.buffer)
    BY <1>4, <1>5 DEF SP!Reach, Top
  <2>. QED  BY <1>2, <1>6, <1>7, <2>1 DEF Handed
<1>9. Handed(held, counted)'
  BY <1>1, <1>8, HandedStays
<1>10. Drained(held, counted)'
  <2>1. settled'.expected .. expected' - 1 \subseteq held
    BY <1>1, <1>2, <1>3
  <2>2. \A s \in held : s >= settled.expected
    BY <1>3, <1>5, <1>6 DEF Gap
  <2>3. DOMAIN buffer = held
    BY <1>4, <1>6, Zenon DEF Fetched
  <2>4. DOMAIN buffer' = {s \in held : s >= expected'}
    BY <1>1, <1>2, <2>2, <2>3
  <2>5. statistics = counted
    BY <1>4, <1>7, Zenon DEF Fetched
  <2>6. expected' - settled'.expected = 0
    BY <1>1, <1>2, <1>3
  <2>7. statistics' = SP!Counting(counted, expected' - settled'.expected, 0)
    BY <1>1, <2>5, <2>6, CountingSteps
  <2>. QED  BY <2>1, <2>4, <2>7 DEF Drained
<1>11. expected' \in settled'.expected .. LastSequence /\ state' = settled'.state
  BY <1>1, <1>2, <1>3
<1>. QED  BY <1>1, <1>9, <1>10, <1>11 DEF DrainingInv

----------------------------------------------------------------------------
(* The session                                                             *)

LEMMA NumberedStays ==
  ASSUME FetchInv, NumberedInv, [Next]_vars
  PROVE  NumberedInv'
<1>1. CASE UNCHANGED <<buffer, fetched, asked>>
  BY <1>1 DEF NumberedInv
<1>2. ASSUME NEW n \in DOMAIN recording, OnEvent(recording[n]) PROVE NumberedInv'
  <2>1. /\ UNCHANGED <<fetched, asked>>
        /\ buffer' = buffer \/ buffer' = Emplaced(recording[n].sequence_number, recording[n])
    BY <1>2 DEF OnEvent, IgnoresOld, TakesExpected, Overflows, IgnoresHeld, Holds,
         ApplyExpected, fetchVars
  <2>. QED  BY <2>1 DEF NumberedInv, Emplaced
<1>3. CASE DrainOne
  BY <1>3 DEF DrainOne, ApplyExpected, fetchVars, NumberedInv
<1>4. CASE FetchOverTcp
  <2>1. buffer' = buffer /\ fetched' = {}
    BY <1>4 DEF FetchOverTcp, LoopStands, BeginFetch, Returns, sequencerVars, FetchInv
  <2>. QED  BY <2>1 DEF NumberedInv
<1>5. CASE FetchFromMemory
  <2>1. buffer' = buffer /\ fetched' = LookedUp(asked')
    BY <1>5 DEF FetchFromMemory, Returns, sequencerVars
  <2>2. \A e \in fetched' : e.sequence_number = asked'
    <3>1. ASSUME NEW e \in LookedUp(asked') PROVE e.sequence_number = asked'
      BY DEF LookedUp
    <3>. HIDE DEF LookedUp
    <3>. QED  BY <2>1, <3>1
  <2>. QED  BY <2>1, <2>2 DEF NumberedInv
<1>6. CASE FetchStep \/ ConnectionLost
  <2>1. /\ buffer' = buffer /\ asked' = asked
        /\ fetched' \subseteq fetched \/ \E record \in peer.reply.record : fetched' \subseteq EventIn(record)
    <3>1. buffer' = buffer
      BY <1>6 DEF FetchStep, ConnectionLost, sequencerVars
    <3>2. CASE ReceiveSome
      <4>1. /\ asked' = asked
            /\ \/ fetched' = fetched
               \/ \E n \in 1 .. left, record \in peer.reply.record :
                    fetched' = IF n = left THEN EventIn(record) ELSE {}
        BY <3>2 DEF ReceiveSome, Returns
      <4>. QED  BY <3>1, <4>1
    <3>3. CASE ~ReceiveSome
      BY <1>6, <3>1, <3>3 DEF FetchStep, ConnectionLost, Call, Connect, ConnectFails, SendSome,
           SendFails, ReceiveStatus, ReceiveNotFound, ReceiveEnds, ReceiveFails, GivesUp, Returns
    <3>. QED  BY <3>2, <3>3
  <2>2. \A record : \A e \in EventIn(record) : e.sequence_number = asked
    BY DEF EventIn, RightSequence
  <2>. QED  BY <2>1, <2>2 DEF NumberedInv
<1>7. CASE TakeFetched
  <2>1. fetched' = {} /\ \E e \in fetched : buffer' = Emplaced(asked, e)
    BY <1>7 DEF TakeFetched
  <2>. QED  BY <2>1 DEF NumberedInv, Emplaced
<1>8. CASE CountMiss
  BY <1>8 DEF CountMiss, NumberedInv
<1>9. \/ UNCHANGED <<buffer, fetched, asked>>
      \/ \E n \in DOMAIN recording : OnEvent(recording[n])
      \/ DrainOne \/ FetchOverTcp \/ FetchFromMemory \/ FetchStep \/ ConnectionLost
      \/ TakeFetched \/ CountMiss
  BY DEF Next, Continue, ApplyBaseline, BeginFeed, BeginRetry, LoopEnds, SkipHeld,
       DrainEnds, ServerStep, ServerAnswers, ServerSends, ServerCloses, sequencerVars,
       fetchVars, vars
<1>. QED  BY <1>1, <1>2, <1>3, <1>4, <1>5, <1>6, <1>7, <1>8, <1>9

\* A step inside a call leaves the settled members alone; the last one of a call
\* is the step RecoverySequencer makes of it.
LEMMA StepMaps ==
  ASSUME CallInv, recording \in Recordings, [Next]_vars
  PROVE  /\ SP!Next \/ settled' = settled
         /\ IdleInv' /\ FetchingInv' /\ DrainingInv'
<1>1. ASSUME SP!Next, thread' = "idle", settled' = Members', UNCHANGED stage, thread # "fetching"
      PROVE  (SP!Next \/ settled' = settled) /\ IdleInv' /\ FetchingInv' /\ DrainingInv'
  BY <1>1 DEF CallInv, IdleInv, FetchingInv, DrainingInv
<1>2. ASSUME settled' = settled, thread' = "draining", DrainingInv',
             stage' = "idle"
      PROVE  (SP!Next \/ settled' = settled) /\ IdleInv' /\ FetchingInv' /\ DrainingInv'
  BY <1>2 DEF IdleInv, FetchingInv
<1>3. ASSUME settled' = settled, thread' = "fetching", FetchingInv'
      PROVE  (SP!Next \/ settled' = settled) /\ IdleInv' /\ FetchingInv' /\ DrainingInv'
  BY <1>3 DEF IdleInv, DrainingInv
<1>4. ASSUME UNCHANGED <<settled, expected, buffer, state, statistics, toTry, fetchVars>>,
             thread' = thread \/ {thread, thread'} \cap {"fetching", "draining"} = {}
      PROVE  (SP!Next \/ settled' = settled) /\ IdleInv' /\ FetchingInv' /\ DrainingInv'
  <2>1. stage' = stage /\ asked' = asked
    BY <1>4 DEF fetchVars
  <2>2. IdleInv'
    BY <1>4, <2>1 DEF CallInv, IdleInv, Members
  <2>3. FetchingInv'
    <3>1. CASE thread' = thread
      BY <1>4, <2>1, <3>1, FetchingStays DEF CallInv
    <3>2. CASE thread' # "fetching"
      BY <3>2 DEF FetchingInv
    <3>. QED  BY <1>4, <3>1, <3>2
  <2>4. DrainingInv'
    <3>1. CASE thread' = "draining"
      <4>1. thread = "draining"
        BY <1>4, <3>1
      <4>2. PICK held \in SUBSET SP!Sequences, counted \in SP!Statistics :
              Handed(held, counted) /\ Drained(held, counted)
        BY <4>1 DEF CallInv, DrainingInv
      <4>3. Handed(held, counted)'
        BY <1>4, <4>2, HandedStays
      <4>4. Drained(held, counted)'
        BY <1>4, <4>2 DEF Drained
      <4>5. expected' \in settled'.expected .. LastSequence /\ state' = settled'.state
        BY <1>4, <4>1 DEF CallInv, DrainingInv
      <4>. QED  BY <4>3, <4>4, <4>5 DEF DrainingInv
    <3>2. CASE thread' # "draining"
      BY <3>2 DEF DrainingInv
    <3>. QED  BY <3>1, <3>2
  <2>. QED  BY <1>4, <2>2, <2>3, <2>4
<1>5. ASSUME NEW n \in DOMAIN recording, OnEvent(recording[n])
      PROVE  (SP!Next \/ settled' = settled) /\ IdleInv' /\ FetchingInv' /\ DrainingInv'
  <2>1. thread = "idle" /\ stage' = stage /\ stage = "idle"
    BY <1>5 DEF OnEvent, fetchVars, CallInv, IdleInv
  <2>. QED  BY <1>1, <1>2, <1>5, <2>1, OnEventMaps
<1>6. CASE DrainOne
  <2>1. thread = "draining" /\ stage' = stage /\ stage = "idle"
    BY <1>6 DEF DrainOne, fetchVars, CallInv, IdleInv
  <2>. QED  BY <1>1, <1>2, <1>6, <2>1, DrainOneMaps
<1>7. CASE DrainEnds
  <2>1. thread = "draining" /\ stage' = stage
    BY <1>7 DEF DrainEnds, fetchVars
  <2>. QED  BY <1>1, <1>7, <2>1, DrainEndsMaps
<1>8. CASE BeginRetry
  BY <1>3, <1>8, BeginRetryMaps
<1>9. CASE LoopEnds
  <2>1. stage' = "idle"
    BY <1>9 DEF LoopEnds, LoopStands, fetchVars
  <2>. QED  BY <1>2, <1>9, <2>1, LoopEndsMaps
<1>10. CASE SkipHeld
  BY <1>3, <1>10, SkipHeldMaps
<1>11. CASE FetchOverTcp \/ FetchFromMemory
  BY <1>3, <1>11, BeginsToFetchMaps
<1>12. CASE TakeFetched
  BY <1>3, <1>12, TakeFetchedMaps
<1>13. CASE CountMiss
  BY <1>3, <1>13, CountMissMaps
<1>14. CASE FetchStep \/ ConnectionLost
  <2>1. /\ thread = "fetching" /\ thread' = "fetching" /\ settled' = settled
        /\ UNCHANGED <<expected, buffer, state, statistics, toTry>>
    BY <1>14 DEF FetchStep, ConnectionLost, sequencerVars
  <2>2. asked' = asked /\ stage # "idle" /\ stage' # "idle"
    BY <1>14 DEF FetchStep, ConnectionLost, Call, Connect, ConnectFails, SendSome,
         SendFails, ReceiveStatus, ReceiveNotFound, ReceiveSome, ReceiveEnds, ReceiveFails,
         GivesUp, Returns
  <2>3. FetchingInv'
    BY <2>1, <2>2, FetchingStays DEF CallInv
  <2>. QED  BY <1>3, <2>1, <2>3
<1>15. CASE ServerStep
  <2>1. /\ thread' = thread /\ settled' = settled /\ stage' = stage /\ asked' = asked
        /\ UNCHANGED <<expected, buffer, state, statistics, toTry>>
        /\ stage # "idle"
    BY <1>15 DEF ServerStep, ServerAnswers, ServerSends, ServerCloses, Connected, sequencerVars
  <2>2. thread = "fetching"
    BY <2>1 DEF CallInv, IdleInv
  <2>3. FetchingInv'
    BY <2>1, FetchingStays DEF CallInv
  <2>. QED  BY <1>3, <2>1, <2>2, <2>3
<1>16. CASE ApplyBaseline \/ BeginFeed \/ UNCHANGED vars
  <2>1. /\ UNCHANGED <<settled, expected, buffer, state, statistics, toTry, fetchVars>>
        /\ thread' = thread \/ {thread, thread'} \cap {"fetching", "draining"} = {}
    BY <1>16 DEF ApplyBaseline, BeginFeed, vars, sequencerVars
  <2>. QED  BY <1>4, <2>1
<1>. QED
  BY <1>5, <1>6, <1>7, <1>8, <1>9, <1>10, <1>11, <1>12, <1>13, <1>14, <1>15, <1>16
     DEF Next, Continue

\* What SP says of the sequencer's steps is what Sequencer says.
LEMMA SameStep == SP!Next => Sequencer!Next
<1>. SUFFICES ASSUME SP!Next PROVE Sequencer!Next
  OBVIOUS
<1>1. \A S : /\ Sequencer!Cardinality(S) = SP!Cardinality(S)
             /\ Sequencer!Max(S) = SP!Max(S)
  BY DEF Sequencer!Cardinality, SP!Cardinality, Sequencer!Max, SP!Max
<1>2. ASSUME NEW held, NEW counted, SP!Drain(held, counted) PROVE Sequencer!Drain(held, counted)
  BY <1>2 DEF SP!Drain, Sequencer!Drain, SP!HeldAfter, Sequencer!HeldAfter,
              SP!FeedStateFor, Sequencer!FeedStateFor, SP!Counting, Sequencer!Counting
<1>3. \A stats, depth : SP!NotingDepth(stats, depth) = Sequencer!NotingDepth(stats, depth)
  BY DEF SP!NotingDepth, Sequencer!NotingDepth
<1>4. /\ SP!Received = Sequencer!Received /\ SP!ReceivedAhead = Sequencer!ReceivedAhead
      /\ SP!ReceivedDuplicate = Sequencer!ReceivedDuplicate
      /\ SP!Listening = Sequencer!Listening
      /\ SP!Sequences = Sequencer!Sequences
  BY DEF SP!Received, Sequencer!Received, SP!ReceivedAhead, Sequencer!ReceivedAhead,
         SP!ReceivedDuplicate, Sequencer!ReceivedDuplicate, SP!Listening, Sequencer!Listening,
         SP!Sequences, Sequencer!Sequences
<1>5. ASSUME NEW sequence \in SP!Sequences, SP!OnEvent(sequence) PROVE Sequencer!OnEvent(sequence)
  <2>1. SP!OldEvent(sequence) => Sequencer!OldEvent(sequence)
    BY <1>4 DEF SP!OldEvent, Sequencer!OldEvent
  <2>2. SP!ExpectedEvent(sequence) => Sequencer!ExpectedEvent(sequence)
    BY <1>2, <1>4 DEF SP!ExpectedEvent, Sequencer!ExpectedEvent
  <2>3. SP!TooFarAhead(sequence) => Sequencer!TooFarAhead(sequence)
    BY <1>4 DEF SP!TooFarAhead, Sequencer!TooFarAhead, SP!BeyondWindow, Sequencer!BeyondWindow
  <2>4. SP!HeldEvent(sequence) => Sequencer!HeldEvent(sequence)
    BY <1>4 DEF SP!HeldEvent, Sequencer!HeldEvent, SP!BeyondWindow, Sequencer!BeyondWindow,
                SP!AlreadyHeld, Sequencer!AlreadyHeld
  <2>5. SP!EarlyEvent(sequence) => Sequencer!EarlyEvent(sequence)
    BY <1>1, <1>3, <1>4
       DEF SP!EarlyEvent, Sequencer!EarlyEvent, SP!BeyondWindow, Sequencer!BeyondWindow,
           SP!AlreadyHeld, Sequencer!AlreadyHeld
  <2>. QED  BY <1>5, <2>1, <2>2, <2>3, <2>4, <2>5 DEF SP!OnEvent, Sequencer!OnEvent
<1>6. SP!RetryRecovery => Sequencer!RetryRecovery
  BY <1>1, <1>2, <1>3
     DEF SP!RetryRecovery, Sequencer!RetryRecovery, SP!Reach, Sequencer!Reach
<1>. QED  BY <1>4, <1>5, <1>6 DEF SP!Next, Sequencer!Next

SessionCallInv == SessionInv /\ CallInv

LEMMA SessionStarts == Init => SessionCallInv /\ Sequencer!Init
<1>. SUFFICES ASSUME Init PROVE SessionCallInv /\ Sequencer!Init
  OBVIOUS
<1>1. SessionInv
  BY DEF Init, FetchInit, SessionInv, FetchInv, PeerInv, HeldInv, Open, NewPeer, NoReply
<1>2. settled = Members /\ thread = "baseline" /\ stage = "idle" /\ DOMAIN buffer = {}
      /\ fetched = {}
  BY DEF Init, FetchInit
<1>3. Sequencer!Init
  BY <1>2 DEF Init, Members, Sequencer!Init
<1>4. SP!Init
  BY <1>3 DEF SP!Init, Sequencer!Init
<1>5. SP!IInv
  BY <1>4, SequencerAssumption, SP!InitHolds
<1>6. SP!PeakNoted
  <2>1. settled.buffer = {} /\ settled.statistics.maximum_buffer_depth = 0
    BY <1>4 DEF SP!Init
  <2>2. SP!Cardinality({}) = 0
    BY SameNotions, FS_EmptySet
  <2>. QED  BY <2>1, <2>2 DEF SP!PeakNoted
<1>7. NumberedInv /\ IdleInv /\ FetchingInv /\ DrainingInv
  BY <1>2 DEF NumberedInv, IdleInv, FetchingInv, DrainingInv
<1>. QED  BY <1>1, <1>3, <1>5, <1>6, <1>7 DEF SessionCallInv, CallInv, SessionInv

LEMMA SessionSteps ==
  SessionCallInv /\ [Next]_vars => SessionCallInv' /\ [Sequencer!Next]_(Sequencer!vars)
<1>. SUFFICES ASSUME SessionCallInv, [Next]_vars
              PROVE  SessionCallInv' /\ [Sequencer!Next]_(Sequencer!vars)
  OBVIOUS
<1>. USE DEF SessionCallInv
<1>1. SessionInv'
  BY FetchStepsKeep, PeerStepsKeep, HeldStepsKeep DEF SessionInv
<1>2. /\ SP!Next \/ settled' = settled
      /\ IdleInv' /\ FetchingInv' /\ DrainingInv'
  BY StepMaps DEF SessionInv, HeldInv
<1>3. NumberedInv'
  BY NumberedStays DEF SessionInv, CallInv
<1>4. SP!Next \/ UNCHANGED SP!vars
  BY <1>2 DEF SP!vars
<1>5. SP!IInv'
  BY <1>4, SequencerAssumption, SP!StepHolds DEF CallInv
<1>6. SP!PeakNoted'
  BY <1>4, SequencerAssumption, SP!StepNotesPeak DEF CallInv
<1>7. Sequencer!Next \/ UNCHANGED Sequencer!vars
  BY <1>2, SameStep DEF Sequencer!vars
<1>. QED  BY <1>1, <1>2, <1>3, <1>5, <1>6, <1>7 DEF CallInv, SessionInv

\* Whatever the feed and the server do, the session, with its loops, its sockets
\* and its book, is the sequencer: each call with everything that happens inside
\* it is one step of RecoverySequencer, the fetches of one retry as well.
THEOREM SessionIsTheSequencer == Spec => ImplementsSequencer
<1>1. Init => SessionCallInv /\ Sequencer!Init
  BY SessionStarts
<1>2. SessionCallInv /\ [Next]_vars
        => SessionCallInv' /\ [Sequencer!Next]_(Sequencer!vars)
  BY SessionSteps
<1>. QED  BY <1>1, <1>2, PTL DEF Spec, ImplementsSequencer, Sequencer!Spec
----------------------------------------------------------------------------
(* The book                                                                *)

IdsIn(book) == {o.id : o \in Book!RestingIn(book.queue)}

\* What applyMarketEvent makes of e, as a function of the book.
Accepts(book, e) ==
  ValidEvent(e) /\ (e.order_id \in IdsIn(book) <=> e.type \in {"Cancel", "Modify"})

QueuesAfter(q, e) ==
  CASE e.type = "Add" -> Book!AfterAdd(q, OrderOf(e))
    [] e.type = "Cancel" -> Book!AfterCancel(q, e.order_id)
    [] e.type = "Modify" -> Book!AfterModify(q, e.order_id, e.price, e.quantity)
    [] OTHER -> Book!AfterExecute(q, OrderOf(e))

Result(book, e) ==
  [queue  |-> QueuesAfter(book.queue, e),
   trades |-> IF e.type = "Execute" THEN book.trades \o Book!Fills(book.queue, OrderOf(e))
                                    ELSE book.trades]

EmptyBook == [queue |-> [key \in Book!Sides \X Prices |-> << >>], trades |-> << >>]

LEMMA NowIds == IdsIn(BookNow) = Book!RestingIds
  BY DEF IdsIn, BookNow, Book!RestingIds, Book!Resting

LEMMA ApplyingIsAFunction ==
  ASSUME NEW e, ValidEvent(e), AppliedToBook(e)
  PROVE  IF answer'.accepted THEN Accepts(BookNow, e) /\ BookNow' = Result(BookNow, e)
                             ELSE ~Accepts(BookNow, e)
<1>. DEFINE o == OrderOf(e)
            ids == Book!RestingIds
<1>1. /\ e.type # "Cancel" => /\ e.price > 0 /\ e.quantity > 0
                              /\ o.price > 0 /\ o.quantity > 0 /\ o.symbol_id = DefaultSymbol
      /\ o.id = e.order_id
  BY DEF ValidEvent, OrderOf
<1>2. Accepts(BookNow, e) <=> (e.order_id \in ids <=> e.type \in {"Cancel", "Modify"})
  BY NowIds DEF Accepts
<1>3. /\ BookNow.queue = queue /\ BookNow.trades = trades
      /\ BookNow' = [queue |-> queue', trades |-> trades']
  BY DEF BookNow
<1>. HIDE DEF ids
<1>4. CASE e.type = "Add" /\ Book!Add(o)
  <2>1. IF o.id \notin ids
          THEN queue' = Book!AfterAdd(queue, o) /\ trades' = trades /\ answer'.accepted
          ELSE ~answer'.accepted
    BY <1>1, <1>4 DEF Book!Add, Book!Acceptable, Book!Answers, ids
  <2>2. Result(BookNow, e) = [queue |-> Book!AfterAdd(queue, o), trades |-> trades]
    BY <1>3, <1>4 DEF Result, QueuesAfter
  <2>. QED  BY <1>1, <1>2, <1>3, <1>4, <2>1, <2>2
<1>5. CASE e.type = "Cancel" /\ Book!Cancel(e.order_id)
  <2>1. IF e.order_id \in ids
          THEN queue' = Book!AfterCancel(queue, e.order_id) /\ trades' = trades /\ answer'.accepted
          ELSE ~answer'.accepted
    BY <1>5 DEF Book!Cancel, Book!Answers, ids
  <2>2. Result(BookNow, e) = [queue |-> Book!AfterCancel(queue, e.order_id), trades |-> trades]
    BY <1>3, <1>5 DEF Result, QueuesAfter
  <2>. QED  BY <1>2, <1>3, <1>5, <2>1, <2>2
<1>6. CASE e.type = "Modify" /\ Book!Modify(e.order_id, e.price, e.quantity)
  <2>0. e.price > 0 /\ e.quantity # 0
    BY <1>1, <1>6
  <2>1. IF e.order_id \in ids
          THEN /\ queue' = Book!AfterModify(queue, e.order_id, e.price, e.quantity)
               /\ trades' = trades /\ answer'.accepted
          ELSE ~answer'.accepted
    BY <1>6, <2>0 DEF Book!Modify, Book!Answers, ids
  <2>2. Result(BookNow, e)
          = [queue |-> Book!AfterModify(queue, e.order_id, e.price, e.quantity), trades |-> trades]
    BY <1>3, <1>6 DEF Result, QueuesAfter
  <2>. QED  BY <1>2, <1>3, <1>6, <2>1, <2>2
<1>7. CASE e.type = "Execute" /\ Book!Execute(o)
  <2>1. IF o.id \notin ids
          THEN /\ queue' = Book!AfterExecute(queue, o)
               /\ trades' = trades \o Book!Fills(queue, o) /\ answer'.accepted
          ELSE ~answer'.accepted
    BY <1>1, <1>7 DEF Book!Execute, Book!Acceptable, ids
  <2>2. Result(BookNow, e) = [queue  |-> Book!AfterExecute(queue, o),
                              trades |-> trades \o Book!Fills(queue, o)]
    BY <1>3, <1>7 DEF Result, QueuesAfter
  <2>. QED  BY <1>1, <1>2, <1>3, <1>7, <2>1, <2>2
<1>. QED  BY <1>4, <1>5, <1>6, <1>7 DEF AppliedToBook, o

LEMMA AppliesIsAFunction ==
  ASSUME NEW e, AppliesEvent(e)
  PROVE  Accepts(BookNow, e) /\ BookNow' = Result(BookNow, e)
  BY ApplyingIsAFunction DEF AppliesEvent

LEMMA RefusesIsAFunction ==
  ASSUME NEW e, RefusesEvent(e)
  PROVE  ~Accepts(BookNow, e)
<1>1. CASE ValidEvent(e)
  BY <1>1, ApplyingIsAFunction DEF RefusesEvent
<1>2. CASE ~ValidEvent(e)
  BY <1>2 DEF Accepts
<1>. QED  BY <1>1, <1>2

LEMMA SameKeys ==
  ASSUME NEW e, AppliesEvent(e) \/ RefusesEvent(e)
  PROVE  DOMAIN queue' = DOMAIN queue
<1>1. \A q, o : DOMAIN Book!AfterAdd(q, o) = DOMAIN q
  BY DEF Book!AfterAdd
<1>2. \A q, id : DOMAIN Book!AfterCancel(q, id) = DOMAIN q
  BY DEF Book!AfterCancel
<1>3. \A q, id, price, quantity : DOMAIN Book!AfterModify(q, id, price, quantity) = DOMAIN q
  BY <1>2 DEF Book!AfterModify
<1>4. \A q, o : DOMAIN Book!AfterExecute(q, o) = DOMAIN q
  BY DEF Book!AfterExecute
<1>5. \/ queue' = queue
      \/ \E o : queue' = Book!AfterAdd(queue, o) \/ queue' = Book!AfterExecute(queue, o)
      \/ \E id : queue' = Book!AfterCancel(queue, id)
      \/ \E id, price, quantity : queue' = Book!AfterModify(queue, id, price, quantity)
  BY DEF AppliesEvent, RefusesEvent, AppliedToBook, Book!Add, Book!Cancel, Book!Modify,
         Book!Execute, bookVars
<1>. QED  BY <1>1, <1>2, <1>3, <1>4, <1>5
\* The clean run: each event of the recording accepted, as far as it has come.
CleanRun ==
  /\ \E S : clean \in Seq(S)
  /\ Len(clean) \in 1 .. Len(recording) + 1
  /\ clean[1] = EmptyBook
  /\ \A n \in 1 .. Len(clean) - 1 :
       Accepts(clean[n], recording[n]) /\ clean[n + 1] = Result(clean[n], recording[n])

\* The feed has come as far as the events it has applied.
InStep ==
  /\ statistics \in SP!Statistics
  /\ statistics.application_rejections = 0
  /\ statistics.events_applied <= Len(recording)
  /\ state # "Failed" => expected = FirstSequence + statistics.events_applied

\* The book is the clean one of that moment.
CleanInv ==
  /\ DOMAIN queue = Book!Sides \X Prices
  /\ CleanRun /\ InStep
  /\ thread = "baseline" => BookNow = clean[Len(clean)]
  /\ thread \in {"baseline", "ended"} => statistics.events_applied = 0
  /\ thread \notin {"baseline", "ended"} =>
       /\ Len(clean) = Len(recording) + 1
       /\ BookNow = clean[statistics.events_applied + 1]

LEMMA RecordingFacts ==
  ASSUME recording \in Recordings
  PROVE  Len(recording) \in Nat /\ DOMAIN recording = 1 .. Len(recording)
  BY RecordingsAssumption

LEMMA BaselineIsClean ==
  ASSUME CleanInv, recording \in Recordings, ApplyBaseline
  PROVE  CleanInv'
<1>. DEFINE k == Len(clean)
            e == recording[k]
<1>1. /\ thread = "baseline" /\ k \in DOMAIN recording
      /\ \/ AppliesEvent(e) /\ clean' = Append(clean, BookNow') /\ thread' = thread
         \/ RefusesEvent(e) /\ thread' = "ended" /\ clean' = clean
      /\ UNCHANGED <<recording, expected, buffer, state, statistics>>
  BY DEF ApplyBaseline, sequencerVars
<1>2. DOMAIN queue' = Book!Sides \X Prices
  BY <1>1, SameKeys DEF CleanInv
<1>3. InStep' /\ statistics'.events_applied = 0
  BY <1>1 DEF CleanInv, InStep
<1>4. CASE RefusesEvent(e) /\ thread' = "ended" /\ clean' = clean
  BY <1>1, <1>2, <1>3, <1>4 DEF CleanInv, CleanRun
<1>5. CASE AppliesEvent(e) /\ clean' = Append(clean, BookNow') /\ thread' = thread
  <2>1. BookNow = clean[k] /\ k \in Nat /\ 1 <= k /\ clean[1] = EmptyBook
    BY <1>1, RecordingFacts DEF CleanInv, CleanRun
  <2>2. Accepts(clean[k], e) /\ BookNow' = Result(clean[k], e)
    BY <1>5, <2>1, AppliesIsAFunction
  <2>3. PICK S : clean \in Seq(S)
    BY DEF CleanInv, CleanRun
  <2>. DEFINE b == BookNow'
              T == S \cup {b}
  <2>4. clean \in Seq(T) /\ b \in T
    BY <2>3
  <2>. HIDE DEF b, T
  <2>5. /\ clean' \in Seq(T) /\ Len(clean') = k + 1 /\ clean'[k + 1] = b
        /\ \A n \in 1 .. k : clean'[n] = clean[n]
    BY <1>5, <2>4 DEF b
  <2>6. Len(clean') \in 1 .. Len(recording) + 1
    BY <1>1, <2>1, <2>5, RecordingFacts
  <2>7. \A n \in 1 .. k - 1 :
          Accepts(clean[n], recording[n]) /\ clean[n + 1] = Result(clean[n], recording[n])
    BY DEF CleanInv, CleanRun
  <2>8. ASSUME NEW n \in 1 .. Len(clean') - 1
        PROVE  Accepts(clean'[n], recording[n]) /\ clean'[n + 1] = Result(clean'[n], recording[n])
    <3>1. CASE n = k
      <4>1. clean'[k] = clean[k]
        BY <2>1, <2>5
      <4>. QED  BY <2>2, <2>5, <3>1, <4>1 DEF b
    <3>2. CASE n # k
      <4>1. n \in 1 .. k - 1 /\ n \in 1 .. k /\ n + 1 \in 1 .. k
        BY <2>1, <2>5, <3>2
      <4>. HIDE DEF k
      <4>2. clean'[n] = clean[n] /\ clean'[n + 1] = clean[n + 1]
        BY <2>5, <4>1
      <4>. QED  BY <2>7, <4>1, <4>2
    <3>. QED  BY <3>1, <3>2
  <2>9. clean'[1] = EmptyBook
    BY <2>1, <2>5
  <2>10. CleanRun'
    BY <1>1, <2>5, <2>6, <2>8, <2>9 DEF CleanRun, EmptyBook
  <2>11. BookNow' = clean'[Len(clean')]
    BY <2>5 DEF b
  <2>. QED  BY <1>1, <1>2, <1>3, <1>5, <2>10, <2>11 DEF CleanInv
<1>. QED  BY <1>1, <1>4, <1>5

LEMMA FeedBeginsClean ==
  ASSUME CleanInv, BeginFeed
  PROVE  CleanInv'
<1>1. /\ thread = "baseline" /\ thread' = "idle" /\ Len(clean) = Len(recording) + 1
      /\ UNCHANGED <<recording, clean, expected, state, statistics>>
      /\ queue' = [key \in DOMAIN queue |-> << >>] /\ trades' = << >>
  BY DEF BeginFeed, Book!Reset, sessionVars, sequencerVars
<1>2. CleanRun' /\ InStep' /\ statistics'.events_applied = 0
  BY <1>1 DEF CleanInv, CleanRun, InStep
<1>3. BookNow' = EmptyBook /\ DOMAIN queue' = Book!Sides \X Prices
  BY <1>1 DEF CleanInv, BookNow, EmptyBook
<1>4. clean'[statistics'.events_applied + 1] = EmptyBook
  <2>1. statistics'.events_applied + 1 = 1
    BY <1>2
  <2>. QED  BY <1>2, <2>1 DEF CleanRun
<1>. QED  BY <1>1, <1>2, <1>3, <1>4 DEF CleanInv

\* A step that leaves the book alone applies nothing.
LEMMA QuietStaysClean ==
  ASSUME CleanInv, UNCHANGED <<bookVars, sessionVars>>, thread \notin {"baseline", "ended"},
         thread' \notin {"baseline", "ended"},
         statistics' \in SP!Statistics,
         statistics'.events_applied = statistics.events_applied,
         statistics'.application_rejections = statistics.application_rejections,
         expected' = expected, state' # "Failed" => state # "Failed"
  PROVE  CleanInv'
<1>1. UNCHANGED <<queue, trades, recording, clean>>
  BY DEF bookVars, sessionVars
<1>2. CleanRun' /\ InStep'
  BY <1>1 DEF CleanInv, CleanRun, InStep
<1>3. BookNow' = BookNow
  BY <1>1 DEF BookNow
<1>. QED  BY <1>1, <1>2, <1>3 DEF CleanInv

\* The event that is next in sequence is applied to the clean book before it,
\* and the book accepts it as it did then.
LEMMA ApplyingStaysClean ==
  ASSUME CleanInv, recording \in Recordings, UNCHANGED sessionVars,
         thread \notin {"baseline", "ended"}, state # "Failed",
         NEW e, e = Recorded(expected), e.sequence_number = expected, Placed(expected),
         NEW rest, NEW counted \in SP!Statistics,
         counted.events_applied = statistics.events_applied,
         counted.application_rejections = statistics.application_rejections,
         ApplyExpected(e, rest, counted)
  PROVE  CleanInv'
<1>. DEFINE n == statistics.events_applied + 1
<1>1. /\ statistics.events_applied \in Nat /\ statistics.application_rejections = 0
      /\ expected = FirstSequence + statistics.events_applied
      /\ FirstSequence \in Nat /\ Len(clean) = Len(recording) + 1 /\ BookNow = clean[n]
  BY SequencerAssumption DEF CleanInv, InStep, SP!Statistics
<1>2. expected - FirstSequence + 1 = n /\ n \in Nat
  BY <1>1
<1>. HIDE DEF n
<1>3. n \in 1 .. Len(recording) /\ e = recording[n] /\ Len(recording) \in Nat
  BY <1>2, RecordingFacts DEF Placed, Recorded
<1>4. n \in 1 .. Len(clean) - 1
  BY <1>1, <1>3
<1>5. Accepts(clean[n], e) /\ clean[n + 1] = Result(clean[n], e)
  BY <1>3, <1>4 DEF CleanInv, CleanRun
<1>6. AppliesEvent(e) /\ AppliesExpected(counted)
  BY <1>1, <1>5, RefusesIsAFunction DEF ApplyExpected
<1>7. UNCHANGED <<recording, clean>>
  BY DEF sessionVars
<1>8. BookNow' = clean'[n + 1] /\ DOMAIN queue' = Book!Sides \X Prices
  BY <1>1, <1>5, <1>6, <1>7, AppliesIsAFunction, SameKeys DEF CleanInv
<1>9. /\ statistics' = [counted EXCEPT !.events_applied = @ + 1]
      /\ thread' \in {"idle", "draining"}
      /\ \/ state' = "Failed"
         \/ expected' = expected + 1
  BY <1>6 DEF AppliesExpected, Fails, Settles
<1>10. statistics' = [counted EXCEPT !.events_applied = n]
  BY <1>1, <1>9 DEF n
<1>11. /\ statistics' \in SP!Statistics
       /\ statistics'.events_applied = n /\ statistics'.application_rejections = 0
  BY <1>1, <1>2, <1>10 DEF SP!Statistics
<1>12. state' # "Failed" => expected' = FirstSequence + n
  BY <1>1, <1>2, <1>9
<1>13. n <= Len(recording)
  BY <1>2, <1>3
<1>14. InStep' /\ CleanRun'
  BY <1>7, <1>11, <1>12, <1>13 DEF CleanInv, CleanRun, InStep
<1>. QED  BY <1>1, <1>7, <1>8, <1>9, <1>11, <1>14 DEF CleanInv
LEMMA DrainingListens == CallInv /\ thread = "draining" => state # "Failed"
  BY DEF CallInv, DrainingInv, Handed, SP!Listening

\* Statistics that count nothing more as applied or rejected.
SameApplied(d, c) ==
  /\ d \in SP!Statistics
  /\ d.events_applied = c.events_applied
  /\ d.application_rejections = c.application_rejections

LEMMA OtherCounts ==
  ASSUME NEW c \in SP!Statistics
  PROVE  /\ SameApplied([c EXCEPT !.events_received = @ + 1], c)
         /\ SameApplied([c EXCEPT !.duplicates_ignored = @ + 1], c)
         /\ SameApplied([c EXCEPT !.reorder_buffer_overflows = @ + 1], c)
         /\ SameApplied([c EXCEPT !.events_recovered = @ + 1], c)
         /\ SameApplied([c EXCEPT !.recovery_misses = @ + 1], c)
         /\ SameApplied([c EXCEPT !.out_of_order_events = @ + 1, !.gaps_detected = @ + 1], c)
         /\ \A depth \in Nat : SameApplied(SP!NotingDepth(c, depth), c)
<1>1. SameApplied([c EXCEPT !.events_received = @ + 1], c)
  <2>1. c.events_received + 1 \in Nat
    BY DEF SP!Statistics
  <2>2. ASSUME NEW x \in Nat PROVE SameApplied([c EXCEPT !.events_received = x], c)
    BY DEF SameApplied, SP!Statistics
  <2>. QED  BY <2>1, <2>2
<1>2. SameApplied([c EXCEPT !.duplicates_ignored = @ + 1], c)
  <2>1. c.duplicates_ignored + 1 \in Nat
    BY DEF SP!Statistics
  <2>2. ASSUME NEW x \in Nat PROVE SameApplied([c EXCEPT !.duplicates_ignored = x], c)
    BY DEF SameApplied, SP!Statistics
  <2>. QED  BY <2>1, <2>2
<1>3. SameApplied([c EXCEPT !.reorder_buffer_overflows = @ + 1], c)
  <2>1. c.reorder_buffer_overflows + 1 \in Nat
    BY DEF SP!Statistics
  <2>2. ASSUME NEW x \in Nat PROVE SameApplied([c EXCEPT !.reorder_buffer_overflows = x], c)
    BY DEF SameApplied, SP!Statistics
  <2>. QED  BY <2>1, <2>2
<1>4. SameApplied([c EXCEPT !.events_recovered = @ + 1], c)
  <2>1. c.events_recovered + 1 \in Nat
    BY DEF SP!Statistics
  <2>2. ASSUME NEW x \in Nat PROVE SameApplied([c EXCEPT !.events_recovered = x], c)
    BY DEF SameApplied, SP!Statistics
  <2>. QED  BY <2>1, <2>2
<1>5. SameApplied([c EXCEPT !.recovery_misses = @ + 1], c)
  <2>1. c.recovery_misses + 1 \in Nat
    BY DEF SP!Statistics
  <2>2. ASSUME NEW x \in Nat PROVE SameApplied([c EXCEPT !.recovery_misses = x], c)
    BY DEF SameApplied, SP!Statistics
  <2>. QED  BY <2>1, <2>2
<1>6. SameApplied([c EXCEPT !.out_of_order_events = @ + 1, !.gaps_detected = @ + 1], c)
  <2>1. c.out_of_order_events + 1 \in Nat /\ c.gaps_detected + 1 \in Nat
    BY DEF SP!Statistics
  <2>2. ASSUME NEW x \in Nat, NEW y \in Nat
        PROVE  SameApplied([c EXCEPT !.out_of_order_events = x, !.gaps_detected = y], c)
    BY DEF SameApplied, SP!Statistics
  <2>. QED  BY <2>1, <2>2
<1>7. ASSUME NEW depth \in Nat PROVE SameApplied(SP!NotingDepth(c, depth), c)
  BY SequencerAssumption, SP!NotingDepthFacts DEF SameApplied
<1>. QED  BY <1>1, <1>2, <1>3, <1>4, <1>5, <1>6, <1>7

LEMMA SameAppliedTwice ==
  ASSUME NEW d, NEW c, NEW b, SameApplied(d, c), SameApplied(c, b)
  PROVE  SameApplied(d, b)
  BY DEF SameApplied

LEMMA FeedStaysClean ==
  ASSUME CallInv, CleanInv, HeldInv, NEW n \in DOMAIN recording, OnEvent(recording[n])
  PROVE  CleanInv'
<1>. DEFINE e == recording[n]
            received == [statistics EXCEPT !.events_received = @ + 1]
            ahead == [received EXCEPT !.out_of_order_events = @ + 1, !.gaps_detected = @ + 1]
<1>1. /\ thread = "idle" /\ state # "Failed" /\ UNCHANGED sessionVars
      /\ statistics \in SP!Statistics /\ recording \in Recordings
      /\ e = Recorded(e.sequence_number) /\ Placed(e.sequence_number)
      /\ IsFiniteSet(DOMAIN buffer)
  <2>1. recording \in Recordings
    BY DEF HeldInv
  <2>2. IsFiniteSet(DOMAIN buffer)
    <3>1. settled = Members /\ SP!IInv
      BY DEF OnEvent, CallInv, IdleInv
    <3>. QED  BY <3>1, SettledFacts DEF Members
  <2>. QED  BY <2>1, <2>2, RecordedIsGenuine DEF OnEvent, CleanInv, InStep
<1>2. SameApplied(received, statistics) /\ SameApplied(ahead, statistics)
  <2>1. SameApplied(received, statistics)
    BY <1>1, OtherCounts
  <2>2. received \in SP!Statistics
    BY <2>1 DEF SameApplied
  <2>. HIDE DEF received
  <2>3. SameApplied(ahead, received)
    BY <2>2, OtherCounts
  <2>. QED  BY <2>1, <2>3, SameAppliedTwice
<1>3. /\ received \in SP!Statistics /\ received.events_applied = statistics.events_applied
      /\ received.application_rejections = statistics.application_rejections
      /\ ahead \in SP!Statistics
  BY <1>2 DEF SameApplied
<1>4. \/ IgnoresOld(e, received) \/ TakesExpected(e, received) \/ Overflows(e, ahead)
      \/ IgnoresHeld(e, ahead) \/ Holds(e, ahead)
  BY DEF OnEvent
<1>. HIDE DEF received, ahead, e
<1>5. CASE TakesExpected(e, received)
  <2>1. e.sequence_number = expected /\ ApplyExpected(e, buffer, received)
    BY <1>5 DEF TakesExpected
  <2>. QED  BY <1>1, <1>3, <2>1, ApplyingStaysClean
<1>6. ASSUME NEW counted, counted \in {received, ahead}, SameApplied(statistics', counted),
             UNCHANGED <<bookVars, expected>>, thread' = "idle"
      PROVE  CleanInv'
  <2>1. SameApplied(statistics', statistics)
    BY <1>2, <1>6, SameAppliedTwice
  <2>. QED  BY <1>1, <1>6, <2>1, QuietStaysClean DEF SameApplied
<1>7. CASE IgnoresOld(e, received)
  BY <1>3, <1>6, <1>7, OtherCounts DEF IgnoresOld, Settles
<1>8. CASE Overflows(e, ahead)
  BY <1>3, <1>6, <1>8, OtherCounts DEF Overflows, Fails, Settles
<1>9. CASE IgnoresHeld(e, ahead)
  BY <1>3, <1>6, <1>9, OtherCounts DEF IgnoresHeld, Settles
<1>10. CASE Holds(e, ahead)
  <2>1. /\ DOMAIN buffer' = DOMAIN buffer \cup {e.sequence_number}
        /\ statistics' = WithDepth(ahead, buffer')
        /\ UNCHANGED <<bookVars, expected>> /\ thread' = "idle"
    BY <1>10 DEF Holds, Settles, Emplaced
  <2>2. Cardinality(DOMAIN buffer') \in Nat
    BY <1>1, <2>1, FS_AddElement, FS_CardinalityType
  <2>3. statistics' = SP!NotingDepth(ahead, Cardinality(DOMAIN buffer'))
    BY <1>3, <2>1, <2>2, WithDepthNotes
  <2>. QED  BY <1>3, <1>6, <2>1, <2>2, <2>3, OtherCounts
<1>. QED  BY <1>4, <1>5, <1>7, <1>8, <1>9, <1>10

LEMMA DrainingStaysClean ==
  ASSUME CallInv, CleanInv, HeldInv, DrainOne
  PROVE  CleanInv'
<1>. DEFINE rest == [s \in DOMAIN buffer \ {expected} |-> buffer[s]]
<1>1. /\ thread = "draining" /\ state # "Failed" /\ UNCHANGED sessionVars
      /\ expected \in DOMAIN buffer /\ ApplyExpected(buffer[expected], rest, statistics)
  BY DrainingListens DEF DrainOne
<1>2. /\ recording \in Recordings /\ buffer[expected] = Recorded(expected) /\ Placed(expected)
      /\ buffer[expected].sequence_number = expected /\ statistics \in SP!Statistics
  BY <1>1 DEF HeldInv, CallInv, NumberedInv, CleanInv, InStep
<1>. HIDE DEF rest
<1>. QED  BY <1>1, <1>2, ApplyingStaysClean

LEMMA TakingStaysClean ==
  ASSUME CallInv, CleanInv, TakeFetched
  PROVE  CleanInv'
<1>1. /\ stage = "returned" /\ thread' = thread
      /\ UNCHANGED <<bookVars, sessionVars, expected, state>>
  BY DEF TakeFetched
<1>2. PICK e \in fetched :
        /\ buffer' = Emplaced(asked, e)
        /\ statistics' = WithDepth([statistics EXCEPT !.events_recovered = @ + 1], buffer')
  BY DEF TakeFetched
<1>3. thread = "fetching" /\ statistics \in SP!Statistics
  BY <1>1 DEF CallInv, IdleInv, CleanInv, InStep
<1>4. IsFiniteSet(DOMAIN buffer)
  <2>1. PICK reach, missed : reach \in Int /\ Fetched(reach, missed)
    BY <1>3, Zenon DEF CallInv, FetchingInv
  <2>2. settled.expected \in Int /\ IsFiniteSet(settled.buffer) /\ settled.expected <= reach
    <3>1. SP!IInv /\ settled.buffer # {}
      BY <1>3 DEF CallInv, FetchingInv
    <3>2. settled.expected \in Int /\ Top \in Int /\ IsFiniteSet(settled.buffer)
      BY <3>1, SettledFacts, TopFacts
    <3>. QED  BY <2>1, <3>2 DEF Fetched
  <2>3. IsFiniteSet(Gap(reach))
    BY <2>1, <2>2, GapGrows
  <2>. QED  BY <2>1, <2>2, <2>3, FS_Union DEF Fetched
<1>5. Cardinality(DOMAIN buffer') \in Nat
  <2>1. DOMAIN buffer' = DOMAIN buffer \cup {asked}
    BY <1>2 DEF Emplaced
  <2>. QED  BY <1>4, <2>1, FS_AddElement, FS_CardinalityType
<1>. DEFINE recovered == [statistics EXCEPT !.events_recovered = @ + 1]
<1>6. SameApplied(recovered, statistics)
  BY <1>3, OtherCounts
<1>7. recovered \in SP!Statistics /\ statistics' = WithDepth(recovered, buffer')
  BY <1>2, <1>6 DEF SameApplied
<1>. HIDE DEF recovered
<1>8. SameApplied(statistics', recovered)
  BY <1>5, <1>7, WithDepthNotes, OtherCounts
<1>9. SameApplied(statistics', statistics)
  BY <1>6, <1>8, SameAppliedTwice
<1>. QED  BY <1>1, <1>3, <1>9, QuietStaysClean DEF SameApplied

LEMMA CleanStays ==
  ASSUME CallInv, HeldInv, CleanInv, [Next]_vars
  PROVE  CleanInv'
<1>0. recording \in Recordings /\ statistics \in SP!Statistics
  BY DEF HeldInv, CleanInv, InStep
<1>1. CASE ApplyBaseline
  BY <1>0, <1>1, BaselineIsClean
<1>2. CASE BeginFeed
  BY <1>2, FeedBeginsClean
<1>3. ASSUME NEW n \in DOMAIN recording, OnEvent(recording[n]) PROVE CleanInv'
  BY <1>3, FeedStaysClean
<1>4. CASE DrainOne
  BY <1>4, DrainingStaysClean
<1>5. CASE TakeFetched
  BY <1>5, TakingStaysClean
<1>6. CASE CountMiss
  <2>1. thread = "fetching"
    BY <1>6 DEF CountMiss, CallInv, IdleInv
  <2>2. SameApplied(statistics', statistics)
    BY <1>0, <1>6, OtherCounts DEF CountMiss
  <2>3. thread' = thread /\ UNCHANGED <<bookVars, sessionVars, expected, state>>
    BY <1>6 DEF CountMiss
  <2>. QED  BY <2>1, <2>2, <2>3, QuietStaysClean DEF SameApplied
<1>7. CASE DrainEnds
  <2>1. /\ thread = "draining" /\ thread' = "idle"
        /\ UNCHANGED <<bookVars, sessionVars, expected, statistics>>
    BY <1>7 DEF DrainEnds, Settles
  <2>. QED  BY <1>0, <2>1, DrainingListens, QuietStaysClean
<1>8. CASE BeginRetry \/ LoopEnds \/ SkipHeld \/ FetchOverTcp \/ FetchFromMemory
  <2>1. /\ thread \in {"idle", "fetching"} /\ thread' \in {"fetching", "draining"}
        /\ UNCHANGED <<bookVars, sessionVars, expected, statistics, state>>
    BY <1>8 DEF BeginRetry, LoopEnds, SkipHeld, FetchOverTcp, FetchFromMemory, LoopStands,
         sequencerVars
  <2>. QED  BY <1>0, <2>1, QuietStaysClean
<1>9. CASE FetchStep \/ ConnectionLost \/ ServerStep \/ UNCHANGED vars
  <2>1. UNCHANGED <<queue, trades, recording, clean, thread, expected, statistics, state>>
    BY <1>9 DEF FetchStep, ConnectionLost, ServerStep, sequencerVars, bookVars, sessionVars, vars
  <2>2. CleanRun' /\ InStep' /\ BookNow' = BookNow
    BY <2>1 DEF CleanInv, CleanRun, InStep, BookNow
  <2>. QED  BY <2>1, <2>2 DEF CleanInv
<1>. QED
  BY <1>1, <1>2, <1>3, <1>4, <1>5, <1>6, <1>7, <1>8, <1>9 DEF Next, Continue

LEMMA StartsClean == Init => CleanInv
<1>. SUFFICES ASSUME Init PROVE CleanInv
  OBVIOUS
<1>1. /\ clean = <<BookNow>> /\ thread = "baseline" /\ recording \in Recordings
      /\ queue = [key \in Book!Sides \X Prices |-> << >>] /\ trades = << >>
      /\ expected = FirstSequence
      /\ statistics.application_rejections = 0 /\ statistics.events_applied = 0
  BY DEF Init, Book!Init
<1>2. statistics \in SP!Statistics
  BY DEF Init, SP!Statistics
<1>3. BookNow = EmptyBook
  BY <1>1 DEF BookNow, EmptyBook
<1>4. clean \in Seq({EmptyBook}) /\ Len(clean) = 1 /\ clean[1] = EmptyBook
  <2>1. clean = <<EmptyBook>>
    BY <1>1, <1>3
  <2>. HIDE DEF EmptyBook
  <2>2. <<EmptyBook>> \in Seq({EmptyBook}) /\ Len(<<EmptyBook>>) = 1 /\ <<EmptyBook>>[1] = EmptyBook
    OBVIOUS
  <2>. QED  BY <2>1, <2>2
<1>5. CleanRun
  <2>1. Len(clean) \in 1 .. Len(recording) + 1 /\ 1 .. Len(clean) - 1 = {}
    BY <1>1, <1>4, RecordingFacts
  <2>. QED  BY <1>4, <2>1, Zenon DEF CleanRun
<1>6. InStep
  BY <1>1, <1>2, RecordingFacts, SequencerAssumption DEF InStep
<1>. QED  BY <1>1, <1>3, <1>4, <1>5, <1>6 DEF CleanInv

\* Whatever was lost, doubled, late, refetched or damaged on the way, and
\* wherever inside a recovery: the book is the one the recording gives applied in
\* order as far as the feed has come, and none of its events is ever refused.
THEOREM SessionRecoversTheBook == Spec => []RecoveredBookIsClean
<1>. DEFINE All == SessionCallInv /\ CleanInv
<1>1. Init => All
  BY SessionStarts, StartsClean
<1>2. All /\ [Next]_vars => All'
  BY SessionSteps, CleanStays DEF SessionCallInv, SessionInv
<1>3. All => RecoveredBookIsClean
  BY DEF CleanInv, InStep, RecoveredBookIsClean
<1>. HIDE DEF All
<1>. QED  BY <1>1, <1>2, <1>3, PTL DEF Spec
=============================================================================
