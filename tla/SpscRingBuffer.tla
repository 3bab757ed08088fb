--------------------------- MODULE SpscRingBuffer ---------------------------
(***************************************************************************)
(* The queue between the UDP receiver thread (the producer) and the thread *)
(* that calls processAvailable (the consumer), include/spsc_ring_buffer.hpp*)
(*                                                                         *)
(* Every access to shared memory is a step of its own.  An acquire load of *)
(* the other thread's index may return any value that index has had since  *)
(* this thread last loaded it: staleReads and staleWrites count the stores *)
(* a load may still miss.  values_ is plain memory, so a slot written and  *)
(* read at the same time would be a data race; NoSlotShared excludes it.   *)
(***************************************************************************)
EXTENDS Integers, Sequences

CONSTANTS
  Values,    \* what is queued (UdpDatagram)
  Initial,   \* a value-initialised slot
  Capacity   \* slots in the array, of which one always stays empty

ASSUME CapacityAssumption == Capacity \in Nat /\ Capacity >= 2

VARIABLES
  values,       \* values_
  writeIndex,   \* write_index_
  readIndex,    \* read_index_
  staleReads,   \* stores to readIndex the producer's next load may miss
  staleWrites,  \* stores to writeIndex the consumer's next load may miss
  producer,     \* how far tryPush has got
  offered,      \* << >> or its argument
  consumer,     \* how far tryPop has got
  delivered,    \* << >> or the value tryPop last copied out
  size          \* what the consumer's last approximateSize returned

vars == <<values, writeIndex, readIndex, staleReads, staleWrites,
          producer, offered, consumer, delivered, size>>

producerVars == <<producer, offered>>
consumerVars == <<consumer, delivered>>

Slots == 0 .. Capacity - 1

----------------------------------------------------------------------------
(* Indices: & (Capacity - 1) is reduction modulo Capacity, a power of two. *)

NextSlot(i) == IF i + 1 = Capacity THEN 0 ELSE i + 1

\* The value an index had n stores ago.
SlotBefore(i, n) == IF i >= n THEN i - n ELSE i - n + Capacity

\* Mutant: the difference of the indices, whichever is ahead.
UnwrappedDistance(read, write) == IF write >= read THEN write - read ELSE read - write

\* Entries between two indices, as approximateSize computes them.
Distance(read, write) ==
  IF write >= read THEN write - read ELSE Capacity - read + write

Length == Distance(readIndex, writeIndex)

----------------------------------------------------------------------------
(* tryPush *)

\* Mutant: the slot kept free to tell full from empty is given away.
FullWhenNoSlot(write, read) == FALSE

IsFull(write, read) == NextSlot(write) = read

PushRefused ==
  /\ producer = "idle"
  /\ \E n \in 0 .. staleReads :
       /\ IsFull(writeIndex, SlotBefore(readIndex, n))
       /\ staleReads' = n
  /\ UNCHANGED <<values, writeIndex, readIndex, staleWrites, producerVars, consumerVars, size>>

PushAdmitted(v) ==
  /\ producer = "idle"
  /\ \E n \in 0 .. staleReads :
       /\ ~IsFull(writeIndex, SlotBefore(readIndex, n))
       /\ staleReads' = n
  /\ producer' = "admitted"
  /\ offered' = <<v>>
  /\ UNCHANGED <<values, writeIndex, readIndex, staleWrites, consumerVars, size>>

PushStore ==
  /\ producer = "admitted"
  /\ values' = [values EXCEPT ![writeIndex] = offered[1]]
  /\ producer' = "stored"
  /\ UNCHANGED <<writeIndex, readIndex, staleReads, staleWrites, offered, consumerVars, size>>

PushPublish ==
  /\ producer = "stored"
  /\ writeIndex' = NextSlot(writeIndex)
  /\ staleWrites' = staleWrites + 1
  /\ producer' = "idle"
  /\ offered' = << >>
  /\ UNCHANGED <<values, readIndex, staleReads, consumerVars, size>>

----------------------------------------------------------------------------
(* tryPop *)

\* Mutant: no check for an empty queue.
NeverEmpty(read, write) == FALSE

IsEmpty(read, write) == read = write

PopRefused ==
  /\ consumer = "idle"
  /\ \E n \in 0 .. staleWrites :
       /\ IsEmpty(readIndex, SlotBefore(writeIndex, n))
       /\ staleWrites' = n
  /\ UNCHANGED <<values, writeIndex, readIndex, staleReads, producerVars, consumerVars, size>>

PopAdmitted ==
  /\ consumer = "idle"
  /\ \E n \in 0 .. staleWrites :
       /\ ~IsEmpty(readIndex, SlotBefore(writeIndex, n))
       /\ staleWrites' = n
  /\ consumer' = "admitted"
  /\ UNCHANGED <<values, writeIndex, readIndex, staleReads, producerVars, delivered, size>>

PopCopy ==
  /\ consumer = "admitted"
  /\ delivered' = <<values[readIndex]>>
  /\ consumer' = "copied"
  /\ UNCHANGED <<values, writeIndex, readIndex, staleReads, staleWrites, producerVars, size>>

PopRelease ==
  /\ consumer = "copied"
  /\ readIndex' = NextSlot(readIndex)
  /\ staleReads' = staleReads + 1
  /\ consumer' = "idle"
  /\ UNCHANGED <<values, writeIndex, staleWrites, producerVars, delivered, size>>

\* The telemetry samples the size on the consumer's thread between two pops,
\* where the second load, of its own index, is exact.
ApproximateSize ==
  /\ consumer = "idle"
  /\ \E n \in 0 .. staleWrites :
       /\ size' = Distance(readIndex, SlotBefore(writeIndex, n))
       /\ staleWrites' = n
  /\ UNCHANGED <<values, writeIndex, readIndex, staleReads, producerVars, consumerVars>>

----------------------------------------------------------------------------

Init ==
  /\ values = [i \in Slots |-> Initial]
  /\ writeIndex = 0
  /\ readIndex = 0
  /\ staleReads = 0
  /\ staleWrites = 0
  /\ producer = "idle"
  /\ offered = << >>
  /\ consumer = "idle"
  /\ delivered = << >>
  /\ size = 0

Next ==
  \/ PushRefused
  \/ \E v \in Values : PushAdmitted(v)
  \/ PushStore
  \/ PushPublish
  \/ PopRefused
  \/ PopAdmitted
  \/ PopCopy
  \/ PopRelease
  \/ ApproximateSize

Spec == Init /\ [][Next]_vars

----------------------------------------------------------------------------
(* Properties *)

TypeOK ==
  /\ values \in [Slots -> Values \cup {Initial}]
  /\ writeIndex \in Slots
  /\ readIndex \in Slots
  /\ staleReads \in Slots
  /\ staleWrites \in Slots
  /\ producer \in {"idle", "admitted", "stored"}
  /\ offered \in {<< >>} \cup {<<v>> : v \in Values}
  /\ consumer \in {"idle", "admitted", "copied"}
  /\ delivered \in {<< >>} \cup {<<v>> : v \in Values}
  /\ size \in Slots

\* Between its two loads and its store, each thread has a slot to itself: the
\* datagram tryPop copies is not one tryPush is writing, however stale the
\* indices the two have loaded are.
NoSlotShared ==
  ~ /\ producer # "idle"
    /\ consumer # "idle"
    /\ writeIndex = readIndex

\* A size the consumer samples never counts an entry that is not there to pop.
SizeNeverPhantom == [][ApproximateSize => size' <= Length]_vars

\* The slot i places after another.
SlotAt(first, i) == IF first + i >= Capacity THEN first + i - Capacity ELSE first + i

\* What the slots of a ring hold between two indices.
Window(slots, first, last) ==
  [i \in 1 .. Distance(first, last) |-> slots[SlotAt(first, i - 1)]]

\* The entries of the abstract queue: a value is accepted when its index is
\* published and delivered when it has been copied out.
First == IF consumer = "copied" THEN NextSlot(readIndex) ELSE readIndex

Contents == Window(values, First, writeIndex)

Fifo == INSTANCE FifoQueue WITH queue <- Contents, Bound <- Capacity - 1

\* Values come out once each, in the order they went in, unchanged, and no
\* more than Capacity - 1 are ever accepted at once.
DeliversInOrder == Fifo!Spec
=============================================================================
