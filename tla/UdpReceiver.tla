---------------------------- MODULE UdpReceiver ----------------------------
(***************************************************************************)
(* UdpReceiver of include/udp_feed.hpp: the thread that takes datagrams    *)
(* from the socket and pushes them into the ring (SpscRingBuffer, whose    *)
(* consumer is the processing thread), and the owner, which starts, stops, *)
(* starts again and destroys the receiver.                                 *)
(***************************************************************************)
EXTENDS SpscRingBuffer, FiniteSets

CONSTANTS
  Threads,     \* names of threads, for each thread started while an older one is there
  MaxPackets,  \* bound of the model on datagrams the socket gives
  MaxErrors    \* bound of the model on errors of the socket

ASSUME ReceiverAssumption == MaxPackets \in Nat /\ MaxErrors \in Nat

VARIABLES
  running,  \* running_
  handle,   \* receiver_thread_: the thread it can join, if any
  loop,     \* where each thread is in receiveLoop; "none" if there is none
  owner,    \* what the owner is doing
  socket,   \* whether socket_ is open
  packet,   \* what is in receiveBuffer: << >> or a datagram, WrongSize if not of 64 bytes
  counts,   \* the five counters
  popped    \* history variable: how many datagrams tryPop has taken out

ownerVars == <<running, handle, owner, socket>>
loopVars == <<loop, packet, counts>>
receiverVars == <<vars, ownerVars, loopVars, popped>>

WrongSize == <<"wrong size">>

----------------------------------------------------------------------------
(* The owner                                                               *)

\* The flag goes from false to true in one step (compare_exchange_strong).
Start ==
  /\ owner = "idle"
  /\ ~running
  /\ running' = TRUE
  /\ owner' = "creating"
  /\ UNCHANGED <<vars, handle, socket, loopVars, popped>>

StartIgnored ==
  /\ owner = "idle"
  /\ running
  /\ UNCHANGED receiverVars

CreateThread ==
  /\ owner = "creating"
  /\ owner' = "idle"
  /\ \E t \in Threads :
       /\ loop[t] = "none"
       /\ loop' = [loop EXCEPT ![t] = "top"]
       /\ handle' = {t}
  /\ UNCHANGED <<vars, running, socket, packet, counts, popped>>

\* The constructor of std::thread throws: running_ stays set.
CreateFails ==
  /\ owner = "creating"
  /\ owner' = "idle"
  /\ UNCHANGED <<vars, running, handle, socket, loopVars, popped>>

\* Mutant: stop only tells the thread to stop.
NotJoined == "idle"

\* joinable, and join if so.
AfterFlag == IF handle = {} THEN "idle" ELSE "joining"

Stop ==
  /\ owner = "idle"
  /\ running' = FALSE
  /\ owner' = AfterFlag
  /\ UNCHANGED <<vars, handle, socket, loopVars, popped>>

JoinReturns ==
  /\ owner \in {"joining", "destroying"}
  /\ \E t \in handle :
       /\ loop[t] = "done"
       /\ loop' = [loop EXCEPT ![t] = "none"]
  /\ handle' = {}
  /\ owner' = IF owner = "joining" THEN "idle" ELSE owner
  /\ UNCHANGED <<vars, running, socket, packet, counts, popped>>

\* The destructor: stop, then closesocket.
Destroy ==
  /\ owner = "idle"
  /\ running' = FALSE
  /\ owner' = "destroying"
  /\ UNCHANGED <<vars, handle, socket, loopVars, popped>>

CloseSocket ==
  /\ owner = "destroying" /\ handle = {}
  /\ socket' = "closed"
  /\ owner' = "gone"
  /\ UNCHANGED <<vars, running, handle, loopVars, popped>>

OwnerStep ==
  \/ Start \/ StartIgnored \/ CreateThread \/ CreateFails
  \/ Stop \/ JoinReturns \/ Destroy \/ CloseSocket

----------------------------------------------------------------------------
(* receiveLoop                                                             *)

At(t, place) == loop[t] = place
Goes(t, place) == loop' = [loop EXCEPT ![t] = place]
Counts(counter) == counts' = [counts EXCEPT ![counter] = @ + 1]

LoopCondition(t) ==
  /\ At(t, "top")
  /\ Goes(t, IF running THEN "selecting" ELSE "done")
  /\ UNCHANGED <<vars, ownerVars, packet, counts, popped>>

\* Mutant: select waits for as long as it takes.
NoTimeout == FALSE

TimesOut == TRUE

SelectTimeout(t) ==
  /\ At(t, "selecting")
  /\ TimesOut
  /\ Goes(t, "top")
  /\ UNCHANGED <<vars, ownerVars, packet, counts, popped>>

\* select or recvfrom fails.
SocketError(t) ==
  /\ loop[t] \in {"selecting", "receiving"}
  /\ counts.socket_errors < MaxErrors
  /\ Counts("socket_errors")
  /\ Goes(t, "top")
  /\ UNCHANGED <<vars, ownerVars, packet, popped>>

SelectReady(t) ==
  /\ At(t, "selecting")
  /\ counts.packets_received < MaxPackets
  /\ Goes(t, "receiving")
  /\ UNCHANGED <<vars, ownerVars, packet, counts, popped>>

ReceiveFrom(t) ==
  /\ At(t, "receiving")
  /\ packet' \in {WrongSize} \cup {<<v>> : v \in Values}
  /\ Counts("packets_received")
  /\ Goes(t, "received")
  /\ UNCHANGED <<vars, ownerVars, popped>>

\* Back to the top of the loop, the datagram dealt with.
NextPacket(t, counter) ==
  /\ Counts(counter)
  /\ packet' = << >>
  /\ Goes(t, "top")

RejectSize(t) ==
  /\ At(t, "received") /\ packet = WrongSize
  /\ NextPacket(t, "invalid_size_packets")
  /\ UNCHANGED <<vars, ownerVars, popped>>

TryPush(t) ==
  /\ At(t, "received") /\ packet # WrongSize
  /\ PushAdmitted(packet[1])
  /\ Goes(t, "pushing")
  /\ UNCHANGED <<ownerVars, packet, counts, popped>>

\* Mutant: a refused push is counted as if it had been made.
CountedAnyway == "packets_queued"

DropCounter == "queue_full_drops"

TryPushFails(t) ==
  /\ At(t, "received") /\ packet # WrongSize
  /\ PushRefused
  /\ NextPacket(t, DropCounter)
  /\ UNCHANGED <<ownerVars, popped>>

FillSlot(t) ==
  /\ At(t, "pushing")
  /\ PushStore
  /\ UNCHANGED <<ownerVars, loopVars, popped>>

PublishSlot(t) ==
  /\ At(t, "pushing")
  /\ PushPublish
  /\ Goes(t, "pushed")
  /\ UNCHANGED <<ownerVars, packet, counts, popped>>

CountQueued(t) ==
  /\ At(t, "pushed")
  /\ NextPacket(t, "packets_queued")
  /\ UNCHANGED <<vars, ownerVars, popped>>

\* The bounds of the model aside, each is a step the thread will take.
ReceiverStep(t) ==
  \/ LoopCondition(t) \/ SelectTimeout(t) \/ SocketError(t) \/ SelectReady(t)
  \/ ReceiveFrom(t) \/ RejectSize(t)
  \/ TryPush(t) \/ TryPushFails(t) \/ FillSlot(t) \/ PublishSlot(t) \/ CountQueued(t)

----------------------------------------------------------------------------
(* The processing thread, and the whole                                    *)

Consume ==
  /\ PopRefused \/ PopAdmitted \/ PopCopy \/ ApproximateSize
  /\ UNCHANGED <<ownerVars, loopVars, popped>>

ConsumeRelease ==
  /\ PopRelease
  /\ popped' = popped + 1
  /\ UNCHANGED <<ownerVars, loopVars>>

ReceiverInit ==
  /\ Init
  /\ running = FALSE
  /\ handle = {}
  /\ loop = [t \in Threads |-> "none"]
  /\ owner = "idle"
  /\ socket = "open"
  /\ packet = << >>
  /\ counts = [packets_received |-> 0, packets_queued |-> 0, invalid_size_packets |-> 0,
               queue_full_drops |-> 0, socket_errors |-> 0]
  /\ popped = 0

ReceiverNext ==
  \/ OwnerStep
  \/ \E t \in Threads : ReceiverStep(t)
  \/ Consume
  \/ ConsumeRelease

\* The receiver's thread runs on, with a select that times out, and what the
\* owner has begun goes on when it can.  When the owner calls, and how often the
\* queue is read, is left open.
ReceiverSpec ==
  /\ ReceiverInit /\ [][ReceiverNext]_receiverVars
  /\ \A t \in Threads : WF_receiverVars(ReceiverStep(t))
  /\ WF_receiverVars(JoinReturns \/ CloseSocket)

----------------------------------------------------------------------------
(* Properties *)

InHand == Cardinality({t \in Threads : loop[t] \in {"received", "pushing", "pushed"}})

JustPushed == Cardinality({t \in Threads : loop[t] = "pushed"})

\* Every datagram the socket gave is counted once: as queued, as of the wrong size
\* or as dropped; what is counted as queued is in the ring or has been taken out,
\* over any number of stops and starts.
PacketsAccounted ==
  /\ counts.packets_received =
       counts.packets_queued + counts.invalid_size_packets + counts.queue_full_drops + InHand
  /\ counts.packets_queued + JustPushed = popped + Length

\* The ring has one producer: there is never a second receiver thread, a new
\* thread is never assigned over one that could still be joined, and no
\* thread uses the socket once it is closed.
OneReceiver ==
  /\ Cardinality({t \in Threads : loop[t] # "none"}) <= 1
  /\ owner = "creating" => handle = {}
  /\ socket = "closed" => \A t \in Threads : loop[t] = "none"

\* stop and the destructor return, also when no datagram ever comes.
StopReturns == owner \in {"joining", "destroying"} ~> owner \in {"idle", "gone"}
=============================================================================
