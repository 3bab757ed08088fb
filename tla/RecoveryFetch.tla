--------------------------- MODULE RecoveryFetch ---------------------------
(***************************************************************************)
(* Fetching one missing event: TcpRecoverySource::fetch of                 *)
(* include/recovery.hpp, one socket call a step, and the server at the     *)
(* other end of the connection, which is not part of the repository.  The  *)
(* connection delivers bytes in order, in portions of any size, and either *)
(* end may fail at any time.  An event on its way is a record that is      *)
(* intact or not and of the known format or not.                           *)
(***************************************************************************)
EXTENDS Integers

CONSTANTS
  RequestSize,  \* bytes of a request (8)
  RecordSize,   \* bytes of a record (64)
  Valid(_)      \* validateMarketEvent

ASSUME FetchAssumption ==
  /\ RequestSize \in Nat /\ RequestSize >= 1
  /\ RecordSize \in Nat /\ RecordSize >= 1

VARIABLES
  stage,    \* the call of fetch that is next; "returned" once there is an answer
  asked,    \* sequenceNumber
  left,     \* bytes the loop of sendAll or receiveAll has still to transfer
  fetched,  \* the std::optional it returns: a set of at most one event
  sockets,  \* how many sockets the source has open
  trouble,  \* history variable: whether anything failed in this fetch
  peer      \* the server's end of the connection

fetchVars == <<stage, asked, left, fetched, sockets, trouble, peer>>

NoReply == [found |-> FALSE, record |-> {}]
NotFound == [found |-> FALSE, record |-> {"none"}]
Found(record) == [found |-> TRUE, record |-> {record}]

\* A server that has read no request, sent nothing and closed nothing.
NewPeer == [read |-> 0, reply |-> NoReply, due |-> 0, arrived |-> 0, closed |-> FALSE]

----------------------------------------------------------------------------
(* decodeEventRecord *)

\* Mutant: the checksum is not looked at.
DecodableUnchecked(record) == record.formed /\ Valid(record.event)

Decodable(record) == record.intact /\ record.formed /\ Valid(record.event)

----------------------------------------------------------------------------
(* fetch *)

Returns(optional) ==
  /\ stage' = "returned"
  /\ fetched' = optional
  /\ left' = 0

\* closesocket; what the server still has to say is lost.
AfterClose == sockets - 1

Closes == sockets' = AfterClose /\ peer' = NewPeer

\* Nothing comes of the fetch.
GivesUp ==
  /\ Returns({})
  /\ Closes
  /\ trouble' = TRUE
  /\ UNCHANGED asked

BeginFetch(sequence) ==
  /\ stage = "idle"
  /\ asked' = sequence
  /\ UNCHANGED peer
  /\ \/ stage' = "connect" /\ sockets' = sockets + 1 /\ trouble' = FALSE
        /\ UNCHANGED <<left, fetched>>
     \/ Returns({}) /\ trouble' = TRUE /\ UNCHANGED sockets

Connect ==
  /\ stage = "connect"
  /\ stage' = "send"
  /\ left' = RequestSize
  /\ UNCHANGED <<asked, fetched, sockets, trouble, peer>>

\* The address is invalid, or the server refuses.
ConnectFails == stage = "connect" /\ GivesUp

\* Mutant: one call is taken to transfer everything.
OneCall(remaining) == TRUE

\* The loops of sendAll and receiveAll go on until nothing remains.
Transferred(remaining) == remaining = 0

\* One call of send.
SendSome ==
  /\ stage = "send"
  /\ \E n \in 1 .. left :
       /\ peer' = [peer EXCEPT !.read = @ + n]
       /\ stage' = IF Transferred(left - n) THEN "status" ELSE "send"
       /\ left' = left - n
  /\ UNCHANGED <<asked, fetched, sockets, trouble>>

SendFails == stage = "send" /\ GivesUp

ReceiveStatus ==
  /\ stage = "status"
  /\ peer.arrived > 0
  /\ peer.reply.found
  /\ stage' = "record"
  /\ left' = RecordSize
  /\ peer' = [peer EXCEPT !.arrived = @ - 1]
  /\ UNCHANGED <<asked, fetched, sockets, trouble>>

ReceiveNotFound ==
  /\ stage = "status"
  /\ peer.arrived > 0
  /\ ~peer.reply.found
  /\ GivesUp

\* Mutant: whatever the server sends is taken for the answer.
AnyEvent(event) == TRUE

RightSequence(event) == event.sequence_number = asked

\* What a whole record gives; a record cut short fails its checksum.
EventIn(record) == IF Decodable(record) /\ RightSequence(record.event) THEN {record.event} ELSE {}

\* One call of recv.
ReceiveSome ==
  /\ stage = "record"
  /\ \E n \in 1 .. left :
       /\ n <= peer.arrived
       /\ IF Transferred(left - n)
            THEN /\ \E record \in peer.reply.record :
                      /\ Returns(IF n = left THEN EventIn(record) ELSE {})
                      /\ trouble' = (EventIn(record) = {})
                 /\ Closes
            ELSE /\ left' = left - n
                 /\ peer' = [peer EXCEPT !.arrived = @ - n]
                 /\ UNCHANGED <<stage, fetched, sockets, trouble>>
  /\ UNCHANGED asked

\* Mutant: the end of the connection is taken for bytes that are still to come.
NeverEnded == FALSE

\* recv returns 0: the server has closed and nothing is left to read.
Ended == peer.closed /\ peer.arrived = 0

ReceiveEnds == stage \in {"status", "record"} /\ Ended /\ GivesUp

\* recv returns SOCKET_ERROR: the connection was lost.
ReceiveFails == stage \in {"status", "record"} /\ GivesUp

\* Calls that return of themselves: recv, which has no timeout, does so when
\* there are bytes to read or the server has closed.
Call ==
  \/ Connect \/ ConnectFails
  \/ SendSome \/ SendFails
  \/ ReceiveStatus \/ ReceiveNotFound \/ ReceiveSome
  \/ ReceiveEnds

----------------------------------------------------------------------------
(* The server *)

Connected == stage \in {"send", "status", "record"}

\* The request is complete; the answer is that there is no such event, or one of
\* the records the server may send.
ServerAnswers(records) ==
  /\ Connected /\ ~peer.closed
  /\ peer.read = RequestSize /\ peer.reply = NoReply
  /\ \/ peer' = [peer EXCEPT !.reply = NotFound, !.due = 1]
     \/ \E record \in records :
          peer' = [peer EXCEPT !.reply = Found(record), !.due = 1 + RecordSize]
  /\ UNCHANGED <<stage, asked, left, fetched, sockets, trouble>>

\* Some of what is due arrives.
ServerSends ==
  /\ Connected /\ ~peer.closed
  /\ \E n \in 1 .. peer.due : peer' = [peer EXCEPT !.due = @ - n, !.arrived = @ + n]
  /\ UNCHANGED <<stage, asked, left, fetched, sockets, trouble>>

\* The server closes the connection, done or not, or dies.
ServerCloses ==
  /\ Connected /\ ~peer.closed
  /\ peer' = [peer EXCEPT !.closed = TRUE]
  /\ UNCHANGED <<stage, asked, left, fetched, sockets, trouble>>

\* It is the server's turn: it has the whole request and not answered in full.
ServerOwes ==
  /\ stage \in {"status", "record"} /\ ~peer.closed
  /\ peer.read = RequestSize
  /\ peer.reply = NoReply \/ peer.due > 0

FetchInit ==
  /\ stage = "idle"
  /\ asked = 0
  /\ left = 0
  /\ fetched = {}
  /\ sockets = 0
  /\ trouble = FALSE
  /\ peer = NewPeer

----------------------------------------------------------------------------
(* Properties *)

\* On every way out of fetch the socket is closed: repeated
\* retries cannot use the process's descriptors up.
SocketsClosed == sockets = IF stage \in {"idle", "returned"} THEN 0 ELSE 1

\* A fetch comes back with nothing only if a call failed, or the server did not
\* have the event or sent something else; an answer that comes in pieces is no
\* reason.
MissesHaveACause == stage = "returned" /\ fetched = {} => trouble

\* However a fetch ends, it leaves no socket and is not silent about an event it
\* was given.
FetchEndsInOrder == SocketsClosed /\ MissesHaveACause
=============================================================================
