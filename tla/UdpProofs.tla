----------------------------- MODULE UdpProofs -----------------------------
(***************************************************************************)
(* Proofs about the two threads of the UDP feed.  SpscRingBuffer, for any  *)
(* capacity and any values; UdpReceiver, whose thread fills such a buffer, *)
(* for any number of threads, packets and errors; and UdpFeed, for every   *)
(* window, queue and timestamps: the strategy's quotes, the ownership of   *)
(* its kill switch and the recovery records.  Of the sequencer they use no *)
(* more than the states it takes.                                          *)
(***************************************************************************)
EXTENDS UdpFeed, UdpReceiver, SequenceTheorems, FiniteSetTheorems, TLAPS

----------------------------------------------------------------------------
(* The ring buffer                                                         *)

\* The slot i places after the one being read.
SlotAfter(i) == SlotAt(readIndex, i)

\* The ranges of the variables that count.
Counters ==
  /\ writeIndex \in Slots
  /\ readIndex \in Slots
  /\ staleReads \in Nat
  /\ staleWrites \in Nat
  /\ size \in Slots
  /\ producer \in {"idle", "admitted", "stored"}
  /\ consumer \in {"idle", "admitted", "copied"}

\* What the producer may believe free is free, however stale its view of
\* readIndex, and what the consumer may believe published is.
Views ==
  /\ staleReads + Length <= Capacity - 1
  /\ producer # "idle" => staleReads + Length <= Capacity - 2
  /\ staleWrites <= Length
  /\ consumer # "idle" => staleWrites < Length

\* The values in flight.
Payload ==
  /\ values \in [Slots -> Values \cup {Initial}]
  /\ producer = "idle" => offered = << >>
  /\ producer # "idle" => \E v \in Values : offered = <<v>>
  /\ producer = "stored" => offered = <<values[writeIndex]>>
  /\ \A i \in 0 .. Capacity - 1 : i < Length => values[SlotAfter(i)] \in Values
  /\ delivered \in {<< >>} \cup {<<v>> : v \in Values}
  /\ consumer = "copied" => delivered = <<values[readIndex]>>

IInv == Counters /\ Views /\ Payload

\* A step that leaves alone everything Payload speaks of.
PayloadKept ==
  UNCHANGED <<values, writeIndex, readIndex, producer, offered, consumer, delivered>>

----------------------------------------------------------------------------
(* Arithmetic on the ring                                                  *)

LEMMA DistanceFacts ==
  ASSUME NEW r \in Slots, NEW w \in Slots
  PROVE  /\ Distance(r, w) \in Slots
         /\ NextSlot(r) \in Slots
         /\ NextSlot(w) = r <=> Distance(r, w) = Capacity - 1
         /\ r = w <=> Distance(r, w) = 0
         /\ NextSlot(w) # r => Distance(r, NextSlot(w)) = Distance(r, w) + 1
         /\ r # w => Distance(NextSlot(r), w) = Distance(r, w) - 1
  BY CapacityAssumption DEF Distance, NextSlot, Slots

\* A stale view of the read index makes the queue look longer, a stale view of
\* the write index makes it look shorter.
LEMMA StaleFacts ==
  ASSUME NEW r \in Slots, NEW w \in Slots, NEW n \in Nat
  PROVE  /\ n + Distance(r, w) <= Capacity - 1 =>
              /\ SlotBefore(r, n) \in Slots
              /\ Distance(SlotBefore(r, n), w) = Distance(r, w) + n
         /\ n <= Distance(r, w) =>
              /\ SlotBefore(w, n) \in Slots
              /\ Distance(r, SlotBefore(w, n)) = Distance(r, w) - n
  BY CapacityAssumption DEF Distance, SlotBefore, Slots

----------------------------------------------------------------------------

LEMMA InitHolds == Init => IInv
<1> SUFFICES ASSUME Init PROVE IInv
  OBVIOUS
<1>1. Length = 0
  BY DEF Init, Length, Distance
<1>2. Counters /\ Views
  BY <1>1, CapacityAssumption DEF Init, Counters, Views, Slots
<1>3. Payload
  BY <1>1 DEF Init, Payload
<1>. QED  BY <1>2, <1>3 DEF IInv

LEMMA LengthFacts ==
  ASSUME IInv
  PROVE  /\ readIndex \in Slots /\ writeIndex \in Slots
         /\ staleReads \in Nat /\ staleWrites \in Nat
         /\ Length \in Nat /\ Length <= Capacity - 1
         /\ staleReads + Length <= Capacity - 1
         /\ staleWrites <= Length
<1>1. /\ readIndex \in Slots /\ writeIndex \in Slots
      /\ staleReads \in Nat /\ staleWrites \in Nat
  BY DEF IInv, Counters
<1>2. Length \in Slots
  BY <1>1, DistanceFacts DEF Length
<1>3. staleReads + Length <= Capacity - 1 /\ staleWrites <= Length
  BY DEF IInv, Views
<1>. QED  BY <1>1, <1>2, <1>3, CapacityAssumption DEF Slots

LEMMA ProducerLoads ==
  ASSUME IInv, NEW n \in 0 .. staleReads
  PROVE  /\ n \in Nat
         /\ n + Length <= Capacity - 1
         /\ IsFull(writeIndex, SlotBefore(readIndex, n)) <=> Length + n = Capacity - 1
<1>. DEFINE r == SlotBefore(readIndex, n)
<1>1. /\ readIndex \in Slots /\ writeIndex \in Slots
      /\ n \in Nat /\ n + Length <= Capacity - 1
  BY LengthFacts, CapacityAssumption
<1>2. r \in Slots /\ Distance(r, writeIndex) = Length + n
  BY <1>1, StaleFacts DEF Length
<1>. HIDE DEF r
<1>3. NextSlot(writeIndex) = r <=> Distance(r, writeIndex) = Capacity - 1
  BY <1>1, <1>2, DistanceFacts
<1>4. IsFull(writeIndex, r) <=> Length + n = Capacity - 1
  BY <1>2, <1>3 DEF IsFull
<1>. QED  BY <1>1, <1>4 DEF r

LEMMA ConsumerLoads ==
  ASSUME IInv, NEW n \in 0 .. staleWrites
  PROVE  /\ n \in Nat
         /\ n <= Length
         /\ Distance(readIndex, SlotBefore(writeIndex, n)) = Length - n
         /\ Length - n \in Slots
         /\ IsEmpty(readIndex, SlotBefore(writeIndex, n)) <=> Length = n
<1>. DEFINE w == SlotBefore(writeIndex, n)
            l == Length
<1>1. /\ readIndex \in Slots /\ writeIndex \in Slots
      /\ l \in Nat /\ l <= Capacity - 1
      /\ n \in Nat /\ n <= l
  BY LengthFacts, CapacityAssumption
<1>2. w \in Slots /\ Distance(readIndex, w) = l - n
  BY <1>1, StaleFacts DEF Length
<1>. HIDE DEF w, l
<1>3. readIndex = w <=> Distance(readIndex, w) = 0
  BY <1>1, <1>2, DistanceFacts
<1>4. IsEmpty(readIndex, w) <=> l = n
  BY <1>1, <1>2, <1>3 DEF IsEmpty
<1>5. l - n \in Slots
  BY <1>1, CapacityAssumption DEF Slots
<1>. QED  BY <1>1, <1>2, <1>4, <1>5 DEF w, l

----------------------------------------------------------------------------
(* The steps: first those that only load an index                          *)

LEMMA LoadsPreserve ==
  ASSUME IInv, Counters', Views', PayloadKept
  PROVE  IInv'
<1>1. Length' = Length /\ \A i : SlotAfter(i)' = SlotAfter(i)
  BY DEF PayloadKept, Length, SlotAfter
<1>2. Payload'
  BY <1>1 DEF IInv, Payload, PayloadKept
<1>. QED  BY <1>2 DEF IInv

LEMMA PushRefusedPreserves == IInv /\ PushRefused => IInv'
<1>. SUFFICES ASSUME IInv, PushRefused PROVE IInv'
  OBVIOUS
<1>1. PICK n \in 0 .. staleReads : staleReads' = n
  BY DEF PushRefused
<1>2. PayloadKept /\ Length' = Length
  BY DEF PushRefused, producerVars, consumerVars, PayloadKept, Length
<1>3. n \in Nat /\ n + Length <= Capacity - 1
  BY ProducerLoads
<1>4. Counters'
  BY <1>1, <1>3 DEF PushRefused, IInv, Counters, Slots, producerVars, consumerVars
<1>5. Views'
  BY <1>1, <1>2, <1>3 DEF PushRefused, IInv, Views, producerVars, consumerVars
<1>. QED  BY <1>2, <1>4, <1>5, LoadsPreserve

LEMMA PopRefusedPreserves == IInv /\ PopRefused => IInv'
<1>. SUFFICES ASSUME IInv, PopRefused PROVE IInv'
  OBVIOUS
<1>1. PICK n \in 0 .. staleWrites : staleWrites' = n
  BY DEF PopRefused
<1>2. PayloadKept /\ Length' = Length
  BY DEF PopRefused, producerVars, consumerVars, PayloadKept, Length
<1>3. n \in Nat /\ n <= Length
  BY ConsumerLoads
<1>4. Counters'
  BY <1>1, <1>3 DEF PopRefused, IInv, Counters, Slots, producerVars, consumerVars
<1>5. Views'
  BY <1>1, <1>2, <1>3 DEF PopRefused, IInv, Views, producerVars, consumerVars
<1>. QED  BY <1>2, <1>4, <1>5, LoadsPreserve

LEMMA PushAdmittedPreserves ==
  ASSUME NEW v \in Values, IInv, PushAdmitted(v)
  PROVE  IInv'
<1>1. PICK n \in 0 .. staleReads :
        ~IsFull(writeIndex, SlotBefore(readIndex, n)) /\ staleReads' = n
  BY DEF PushAdmitted
<1>2. Length' = Length /\ \A i : SlotAfter(i)' = SlotAfter(i)
  BY DEF PushAdmitted, consumerVars, Length, SlotAfter
<1>3. n \in Nat /\ n + Length <= Capacity - 1 /\ Length + n # Capacity - 1
  BY <1>1, ProducerLoads
<1>4. Counters'
  BY <1>1, <1>3 DEF PushAdmitted, IInv, Counters, Slots, consumerVars
<1>5. n + Length <= Capacity - 2
  BY <1>3, LengthFacts, CapacityAssumption
<1>6. Views'
  BY <1>1, <1>2, <1>3, <1>5 DEF PushAdmitted, IInv, Views, consumerVars
<1>7. Payload'
  BY <1>2 DEF PushAdmitted, IInv, Payload, consumerVars
<1>. QED  BY <1>4, <1>6, <1>7 DEF IInv

LEMMA PopAdmittedPreserves == IInv /\ PopAdmitted => IInv'
<1>. SUFFICES ASSUME IInv, PopAdmitted PROVE IInv'
  OBVIOUS
<1>1. PICK n \in 0 .. staleWrites :
        ~IsEmpty(readIndex, SlotBefore(writeIndex, n)) /\ staleWrites' = n
  BY DEF PopAdmitted
<1>2. Length' = Length /\ \A i : SlotAfter(i)' = SlotAfter(i)
  BY DEF PopAdmitted, producerVars, Length, SlotAfter
<1>3. n \in Nat /\ n <= Length /\ n # Length
  BY <1>1, ConsumerLoads
<1>4. Counters'
  BY <1>1, <1>3 DEF PopAdmitted, IInv, Counters, Slots, producerVars
<1>5. n < Length
  BY <1>3, LengthFacts
<1>6. Views'
  BY <1>1, <1>2, <1>5, <1>3 DEF PopAdmitted, IInv, Views, producerVars
<1>7. Payload'
  BY <1>2 DEF PopAdmitted, IInv, Payload, producerVars
<1>. QED  BY <1>4, <1>6, <1>7 DEF IInv

LEMMA ApproximateSizePreserves ==
  ASSUME IInv, ApproximateSize
  PROVE  IInv' /\ size' <= Length
<1>1. PICK n \in 0 .. staleWrites :
        /\ size' = Distance(readIndex, SlotBefore(writeIndex, n))
        /\ staleWrites' = n
  BY DEF ApproximateSize
<1>2. PayloadKept /\ Length' = Length
  BY DEF ApproximateSize, producerVars, consumerVars, PayloadKept, Length
<1>3. n \in Nat /\ n <= Length /\ size' = Length - n /\ size' \in Slots
  BY <1>1, ConsumerLoads
<1>4. Counters'
  BY <1>1, <1>3 DEF ApproximateSize, IInv, Counters, producerVars, consumerVars
<1>5. Views'
  BY <1>1, <1>2, <1>3 DEF ApproximateSize, IInv, Views, producerVars, consumerVars
<1>6. size' <= Length
  BY <1>3, LengthFacts
<1>. QED  BY <1>2, <1>4, <1>5, <1>6, LoadsPreserve

----------------------------------------------------------------------------
(* The steps that touch a slot or move an index                            *)

\* No entry of the queue lies in the slot being written.
LEMMA FreeSlot ==
  ASSUME IInv, Length < Capacity, NEW i \in Nat, i < Length
  PROVE  SlotAfter(i) \in Slots /\ SlotAfter(i) # writeIndex
<1>1. readIndex \in Slots /\ writeIndex \in Slots
  BY LengthFacts
<1>. QED  BY <1>1, CapacityAssumption DEF SlotAfter, SlotAt, Length, Distance, Slots

LEMMA PushStorePreserves == IInv /\ PushStore => IInv'
<1>. SUFFICES ASSUME IInv, PushStore PROVE IInv'
  OBVIOUS
<1>1. Length' = Length /\ \A i : SlotAfter(i)' = SlotAfter(i)
  BY DEF PushStore, consumerVars, Length, SlotAfter
<1>2. Counters'
  BY DEF PushStore, IInv, Counters, consumerVars
<1>3. Views'
  BY <1>1 DEF PushStore, IInv, Views, consumerVars
<1>4. PICK v \in Values : offered = <<v>>
  BY DEF PushStore, IInv, Payload
<1>5. /\ values' = [values EXCEPT ![writeIndex] = v]
      /\ offered' = offered
      /\ UNCHANGED <<delivered, consumer, readIndex, writeIndex>>
      /\ producer' = "stored"
  BY <1>4 DEF PushStore, consumerVars
<1>6. /\ writeIndex \in Slots /\ readIndex \in Slots
      /\ values \in [Slots -> Values \cup {Initial}]
  BY LengthFacts DEF IInv, Payload
<1>7. /\ values' \in [Slots -> Values \cup {Initial}]
      /\ values'[writeIndex] = v
      /\ \A s \in Slots : s # writeIndex => values'[s] = values[s]
  BY <1>5, <1>6
<1>8. \A i \in 0 .. Capacity - 1 : i < Length => values'[SlotAfter(i)] \in Values
  <2>. TAKE i \in 0 .. Capacity - 1
  <2>. HAVE i < Length
  <2>1. SlotAfter(i) \in Slots /\ SlotAfter(i) # writeIndex
    BY FreeSlot, LengthFacts, CapacityAssumption
  <2>2. values[SlotAfter(i)] \in Values
    BY DEF IInv, Payload
  <2>. QED  BY <2>1, <2>2, <1>7
<1>9. consumer = "copied" => delivered = <<values'[readIndex]>>
  <2>. HAVE consumer = "copied"
  <2>1. Length # 0
    BY LengthFacts DEF IInv, Views
  <2>2. readIndex # writeIndex
    BY <1>6, <2>1, DistanceFacts DEF Length
  <2>. QED  BY <1>6, <1>7, <2>2 DEF IInv, Payload
<1>10. Payload'
  BY <1>1, <1>4, <1>5, <1>7, <1>8, <1>9 DEF IInv, Payload
<1>. QED  BY <1>2, <1>3, <1>10 DEF IInv

LEMMA PopCopyPreserves == IInv /\ PopCopy => IInv'
<1>. SUFFICES ASSUME IInv, PopCopy PROVE IInv'
  OBVIOUS
<1>1. Length' = Length /\ \A i : SlotAfter(i)' = SlotAfter(i)
  BY DEF PopCopy, producerVars, Length, SlotAfter
<1>2. Counters'
  BY DEF PopCopy, IInv, Counters, producerVars
<1>3. Views'
  BY <1>1 DEF PopCopy, IInv, Views, producerVars
<1>4. values[readIndex] \in Values
  <2>1. readIndex \in Slots /\ Length \in Nat /\ 0 < Length
    BY LengthFacts DEF PopCopy, IInv, Views
  <2>2. SlotAfter(0) = readIndex
    BY <2>1, CapacityAssumption DEF SlotAfter, SlotAt, Slots
  <2>3. 0 \in 0 .. Capacity - 1
    BY CapacityAssumption
  <2>. QED  BY <2>1, <2>2, <2>3 DEF IInv, Payload
<1>5. Payload'
  BY <1>1, <1>4 DEF PopCopy, IInv, Payload, producerVars
<1>. QED  BY <1>2, <1>3, <1>5 DEF IInv

LEMMA PushPublishPreserves == IInv /\ PushPublish => IInv'
<1>. SUFFICES ASSUME IInv, PushPublish PROVE IInv'
  OBVIOUS
<1>. DEFINE l == Length
<1>1. /\ writeIndex' = NextSlot(writeIndex) /\ producer = "stored"
      /\ UNCHANGED <<values, readIndex, consumer, delivered, staleReads, size>>
      /\ staleWrites' = staleWrites + 1 /\ producer' = "idle" /\ offered' = << >>
  BY DEF PushPublish, consumerVars
<1>2. staleReads + l <= Capacity - 2
  BY <1>1 DEF IInv, Views
<1>3. /\ readIndex \in Slots /\ writeIndex \in Slots /\ l \in Nat
      /\ staleReads \in Nat /\ staleWrites \in Nat /\ staleWrites <= l
  BY LengthFacts
<1>4. NextSlot(writeIndex) # readIndex
  BY <1>2, <1>3, CapacityAssumption, DistanceFacts DEF Length
<1>5. Length' = l + 1
  BY <1>1, <1>3, <1>4, DistanceFacts DEF Length
<1>6. Counters'
  BY <1>1, <1>3, DistanceFacts DEF IInv, Counters
<1>7. consumer # "idle" => staleWrites < l
  BY DEF IInv, Views
<1>. HIDE DEF l
<1>8. Views'
  BY <1>1, <1>2, <1>3, <1>5, <1>7, CapacityAssumption DEF Views
<1>9. \A i \in 0 .. Capacity - 1 : i < l + 1 => values[SlotAfter(i)] \in Values
  <2>. TAKE i \in 0 .. Capacity - 1
  <2>. HAVE i < l + 1
  <2>1. CASE i < l
    BY <2>1 DEF IInv, Payload, l
  <2>2. CASE i = l
    <3>1. SlotAfter(i) = writeIndex
      BY <2>2, <1>3, CapacityAssumption DEF SlotAfter, SlotAt, l, Length, Distance, Slots
    <3>2. (\E v \in Values : offered = <<v>>) /\ offered = <<values[writeIndex]>>
      BY <1>1 DEF IInv, Payload
    <3>. QED  BY <3>1, <3>2
  <2>. QED  BY <2>1, <2>2, <1>3
<1>10. \A i : SlotAfter(i)' = SlotAfter(i)
  BY <1>1 DEF SlotAfter
<1>11. Payload'
  BY <1>1, <1>5, <1>9, <1>10 DEF IInv, Payload
<1>. QED  BY <1>6, <1>8, <1>11 DEF IInv

LEMMA PopReleasePreserves == IInv /\ PopRelease => IInv'
<1>. SUFFICES ASSUME IInv, PopRelease PROVE IInv'
  OBVIOUS
<1>. DEFINE l == Length
<1>1. /\ readIndex' = NextSlot(readIndex) /\ consumer = "copied"
      /\ UNCHANGED <<values, writeIndex, producer, offered, delivered, staleWrites, size>>
      /\ staleReads' = staleReads + 1 /\ consumer' = "idle"
  BY DEF PopRelease, producerVars
<1>2. /\ staleWrites < l /\ staleReads + l <= Capacity - 1
      /\ producer # "idle" => staleReads + l <= Capacity - 2
  BY <1>1 DEF IInv, Views
<1>3. /\ readIndex \in Slots /\ writeIndex \in Slots /\ l \in Nat
      /\ staleReads \in Nat /\ staleWrites \in Nat
  BY LengthFacts
<1>4. readIndex # writeIndex
  BY <1>2, <1>3, DistanceFacts DEF Length
<1>5. Length' = l - 1
  BY <1>1, <1>3, <1>4, DistanceFacts DEF Length
<1>6. Counters'
  BY <1>1, <1>3, DistanceFacts DEF IInv, Counters
<1>. HIDE DEF l
<1>7. Views'
  BY <1>1, <1>2, <1>3, <1>5, CapacityAssumption DEF Views
<1>8. \A i \in 0 .. Capacity - 1 : i < l - 1 => values[SlotAfter(i)'] \in Values
  <2>. TAKE i \in 0 .. Capacity - 1
  <2>. HAVE i < l - 1
  <2>1. l <= Capacity - 1
    BY <1>2, <1>3, CapacityAssumption
  <2>2. SlotAfter(i)' = SlotAfter(i + 1)
    BY <1>1, <1>3, <2>1, CapacityAssumption DEF SlotAfter, SlotAt, NextSlot, Slots
  <2>3. i + 1 \in 0 .. Capacity - 1 /\ i + 1 < l
    BY <1>3, <2>1, CapacityAssumption
  <2>. QED  BY <2>2, <2>3 DEF IInv, Payload, l
<1>9. Payload'
  BY <1>1, <1>5, <1>8 DEF IInv, Payload
<1>. QED  BY <1>6, <1>7, <1>9 DEF IInv

----------------------------------------------------------------------------
(* Theorems                                                                *)

LEMMA StepHolds == IInv /\ [Next]_vars => IInv'
<1>. SUFFICES ASSUME IInv, [Next]_vars PROVE IInv'
  OBVIOUS
<1>1. CASE PushRefused
  BY <1>1, PushRefusedPreserves
<1>2. ASSUME NEW v \in Values, PushAdmitted(v) PROVE IInv'
  BY <1>2, PushAdmittedPreserves
<1>3. CASE PushStore
  BY <1>3, PushStorePreserves
<1>4. CASE PushPublish
  BY <1>4, PushPublishPreserves
<1>5. CASE PopRefused
  BY <1>5, PopRefusedPreserves
<1>6. CASE PopAdmitted
  BY <1>6, PopAdmittedPreserves
<1>7. CASE PopCopy
  BY <1>7, PopCopyPreserves
<1>8. CASE PopRelease
  BY <1>8, PopReleasePreserves
<1>9. CASE ApproximateSize
  BY <1>9, ApproximateSizePreserves
<1>10. CASE UNCHANGED vars
  <2>1. Length' = Length /\ \A i : SlotAfter(i)' = SlotAfter(i)
    BY <1>10 DEF vars, producerVars, consumerVars, Length, SlotAfter
  <2>2. Counters' /\ Views'
    BY <1>10, <2>1 DEF vars, producerVars, consumerVars, IInv, Counters, Views
  <2>3. Payload'
    BY <1>10, <2>1 DEF vars, producerVars, consumerVars, IInv, Payload
  <2>. QED  BY <2>2, <2>3 DEF IInv
<1>. QED  BY <1>1, <1>2, <1>3, <1>4, <1>5, <1>6, <1>7, <1>8, <1>9, <1>10 DEF Next

\* The inductive invariant holds in every reachable state, for every capacity.
THEOREM RingInvariant == Spec => []IInv
  BY InitHolds, StepHolds, PTL DEF Spec

\* Every index stays inside the array and every stale view inside the ring.
THEOREM RingTyped == Spec => []TypeOK
<1>1. IInv => TypeOK
  <2>. SUFFICES ASSUME IInv PROVE TypeOK
    OBVIOUS
  <2>1. staleReads \in Slots /\ staleWrites \in Slots
    BY LengthFacts, CapacityAssumption DEF Slots
  <2>2. offered \in {<< >>} \cup {<<v>> : v \in Values}
    BY DEF IInv, Payload
  <2>3. /\ writeIndex \in Slots /\ readIndex \in Slots /\ size \in Slots
        /\ producer \in {"idle", "admitted", "stored"}
        /\ consumer \in {"idle", "admitted", "copied"}
    BY DEF IInv, Counters
  <2>4. /\ values \in [Slots -> Values \cup {Initial}]
        /\ delivered \in {<< >>} \cup {<<v>> : v \in Values}
    BY DEF IInv, Payload
  <2>. QED  BY <2>1, <2>2, <2>3, <2>4 DEF TypeOK
<1>. QED  BY <1>1, RingInvariant, PTL

\* The two threads never hold the same slot: values_ has no data race.
THEOREM NoDataRace == Spec => []NoSlotShared
<1>1. IInv => NoSlotShared
  <2>. SUFFICES ASSUME IInv, consumer # "idle", writeIndex = readIndex PROVE FALSE
    BY DEF NoSlotShared
  <2>1. Length # 0
    BY LengthFacts DEF IInv, Views
  <2>. QED  BY <2>1, LengthFacts, DistanceFacts DEF Length
<1>. QED  BY <1>1, RingInvariant, PTL

\* A sampled size never exceeds what is queued.
THEOREM SamplesAreSafe == Spec => SizeNeverPhantom
<1>1. IInv /\ [Next]_vars => [ApproximateSize => size' <= Length]_vars
  BY ApproximateSizePreserves
<1>. QED  BY <1>1, RingInvariant, PTL DEF Spec, SizeNeverPhantom

----------------------------------------------------------------------------
(* The ring implements the bounded queue                                   *)

Contained == Values \cup {Initial}

LEMMA WindowFacts ==
  ASSUME NEW slots \in [Slots -> Contained], NEW f \in Slots, NEW w \in Slots
  PROVE  /\ Distance(f, w) \in Nat
         /\ Window(slots, f, w) \in Seq(Contained)
         /\ Len(Window(slots, f, w)) = Distance(f, w)
         /\ \A i \in 1 .. Distance(f, w) :
              /\ SlotAt(f, i - 1) \in Slots
              /\ Window(slots, f, w)[i] = slots[SlotAt(f, i - 1)]
<1>. DEFINE n == Distance(f, w)
<1>1. n \in Nat /\ n <= Capacity - 1
  BY DistanceFacts, CapacityAssumption, SMTT(30) DEF Slots
<1>. HIDE DEF n
<1>2. ASSUME NEW i \in 1 .. n PROVE SlotAt(f, i - 1) \in Slots
  BY <1>1, CapacityAssumption DEF SlotAt, Slots
<1>3. Window(slots, f, w) = [i \in 1 .. n |-> slots[SlotAt(f, i - 1)]]
  BY DEF Window, n
<1>4. \A i \in 1 .. n : slots[SlotAt(f, i - 1)] \in Contained
  BY <1>2
<1>5. /\ Window(slots, f, w) \in Seq(Contained)
      /\ Len(Window(slots, f, w)) = n
  BY <1>1, <1>3, <1>4
<1>. QED  BY <1>1, <1>2, <1>3, <1>5 DEF n

\* Writing a slot outside the window leaves the window as it was.
LEMMA WindowKept ==
  ASSUME NEW slots \in [Slots -> Contained], NEW changed \in [Slots -> Contained],
         NEW f \in Slots, NEW w \in Slots,
         \A s \in Slots : s # w => changed[s] = slots[s]
  PROVE  Window(changed, f, w) = Window(slots, f, w)
<1>1. \A i \in 1 .. Distance(f, w) : SlotAt(f, i - 1) \in Slots /\ SlotAt(f, i - 1) # w
  <2>. TAKE i \in 1 .. Distance(f, w)
  <2>1. SlotAt(f, i - 1) \in Slots
    BY WindowFacts
  <2>2. SlotAt(f, i - 1) # w
    BY CapacityAssumption DEF SlotAt, Distance, Slots
  <2>. QED  BY <2>1, <2>2
<1>. QED  BY <1>1 DEF Window

\* Moving the last index on by one appends the slot it passes.
LEMMA WindowGrows ==
  ASSUME NEW slots \in [Slots -> Contained], NEW f \in Slots, NEW w \in Slots,
         NextSlot(w) # f
  PROVE  Window(slots, f, NextSlot(w)) = Window(slots, f, w) \o <<slots[w]>>
<1>. DEFINE n == Distance(f, w)
            old == Window(slots, f, w)
            new == Window(slots, f, NextSlot(w))
            one == <<slots[w]>>
<1>1. NextSlot(w) \in Slots /\ Distance(f, NextSlot(w)) = n + 1
  BY DistanceFacts
<1>2. /\ n \in Nat /\ old \in Seq(Contained) /\ Len(old) = n
      /\ \A i \in 1 .. n : old[i] = slots[SlotAt(f, i - 1)]
  BY WindowFacts
<1>3. /\ new \in Seq(Contained) /\ Len(new) = n + 1
      /\ \A i \in 1 .. n + 1 : new[i] = slots[SlotAt(f, i - 1)]
  <2>. DEFINE v == NextSlot(w)
              m == n + 1
  <2>1. v \in Slots /\ Distance(f, v) = m
    BY <1>1
  <2>. HIDE DEF v, m
  <2>2. /\ Window(slots, f, v) \in Seq(Contained) /\ Len(Window(slots, f, v)) = m
        /\ \A i \in 1 .. m : Window(slots, f, v)[i] = slots[SlotAt(f, i - 1)]
    BY <2>1, WindowFacts
  <2>. QED  BY <2>2 DEF v, m
<1>4. SlotAt(f, n) = w
  BY CapacityAssumption DEF SlotAt, Distance, Slots
<1>5. one \in Seq(Contained) /\ Len(one) = 1 /\ one[1] = slots[w]
  OBVIOUS
<1>. HIDE DEF n, old, new, one
<1>6. /\ old \o one \in Seq(Contained)
      /\ Len(old \o one) = n + 1
      /\ \A i \in 1 .. n + 1 : (old \o one)[i] = IF i <= n THEN old[i] ELSE one[i - n]
  <2>1. /\ old \o one \in Seq(Contained)
        /\ Len(old \o one) = Len(old) + Len(one)
        /\ \A i \in 1 .. Len(old) + Len(one) :
             (old \o one)[i] = IF i <= Len(old) THEN old[i] ELSE one[i - Len(old)]
    BY <1>2, <1>5, ConcatProperties, Zenon
  <2>2. Len(old) = n /\ Len(one) = 1
    BY <1>2, <1>5
  <2>. QED  BY <2>1, <2>2
<1>7. \A i \in 1 .. n + 1 : new[i] = (old \o one)[i]
  <2>. TAKE i \in 1 .. n + 1
  <2>1. CASE i <= n
    <3>1. i \in 1 .. n /\ i \in 1 .. n + 1
      BY <2>1, <1>2
    <3>. QED  BY <2>1, <3>1, <1>2, <1>3, <1>6
  <2>2. CASE i = n + 1
    <3>1. i - 1 = n /\ i - n = 1 /\ ~(i <= n)
      BY <2>2, <1>2
    <3>. QED  BY <3>1, <1>3, <1>4, <1>5, <1>6
  <2>3. i <= n \/ i = n + 1
    BY <1>2
  <2>. QED  BY <2>1, <2>2, <2>3
<1>8. new = old \o one
  BY <1>3, <1>6, <1>7, SeqEqual
<1>. QED  BY <1>8 DEF old, new, one

\* Moving the first index on by one removes the slot it passes.
LEMMA WindowShrinks ==
  ASSUME NEW slots \in [Slots -> Contained], NEW f \in Slots, NEW w \in Slots,
         f # w
  PROVE  /\ Window(slots, f, w) # << >>
         /\ Head(Window(slots, f, w)) = slots[f]
         /\ Window(slots, NextSlot(f), w) = Tail(Window(slots, f, w))
<1>. DEFINE n == Distance(f, w)
            old == Window(slots, f, w)
            new == Window(slots, NextSlot(f), w)
<1>1. /\ NextSlot(f) \in Slots /\ Distance(NextSlot(f), w) = n - 1 /\ n # 0
      /\ n \in Slots
  BY DistanceFacts
<1>2. /\ n \in Nat /\ old \in Seq(Contained) /\ Len(old) = n
      /\ \A i \in 1 .. n : old[i] = slots[SlotAt(f, i - 1)]
  BY WindowFacts
<1>3. /\ new \in Seq(Contained) /\ Len(new) = n - 1
      /\ \A i \in 1 .. n - 1 : new[i] = slots[SlotAt(NextSlot(f), i - 1)]
  <2>. DEFINE g == NextSlot(f)
              m == n - 1
  <2>1. g \in Slots /\ Distance(g, w) = m
    BY <1>1
  <2>. HIDE DEF g, m
  <2>2. /\ Window(slots, g, w) \in Seq(Contained) /\ Len(Window(slots, g, w)) = m
        /\ \A i \in 1 .. m : Window(slots, g, w)[i] = slots[SlotAt(g, i - 1)]
    BY <2>1, WindowFacts
  <2>. QED  BY <2>2 DEF g, m
<1>. HIDE DEF n, old, new
<1>4. \A i \in 1 .. n - 1 : SlotAt(NextSlot(f), i - 1) = SlotAt(f, i)
  BY <1>1, CapacityAssumption DEF SlotAt, NextSlot, Slots
<1>5. SlotAt(f, 0) = f
  BY CapacityAssumption DEF SlotAt, Slots
<1>6. old # << >>
  BY <1>1, <1>2, EmptySeq
<1>7. /\ Tail(old) \in Seq(Contained) /\ Len(Tail(old)) = n - 1
      /\ \A i \in 1 .. n - 1 : Tail(old)[i] = old[i + 1]
  BY <1>2, <1>6, HeadTailProperties
<1>8. \A i \in 1 .. n - 1 : new[i] = Tail(old)[i]
  <2>. TAKE i \in 1 .. n - 1
  <2>1. i + 1 \in 1 .. n /\ (i + 1) - 1 = i
    BY <1>2
  <2>. QED  BY <2>1, <1>2, <1>3, <1>4, <1>7
<1>9. new = Tail(old)
  BY <1>3, <1>7, <1>8, SeqEqual
<1>10. Head(old) = slots[f]
  <2>1. Head(old) = old[1]
    BY <1>2, <1>6
  <2>2. 1 \in 1 .. n /\ 1 - 1 = 0
    BY <1>1, <1>2
  <2>. QED  BY <2>1, <2>2, <1>2, <1>5
<1>. QED  BY <1>6, <1>9, <1>10 DEF old, new

\* A step the abstract queue does not see.
Unseen == UNCHANGED <<values, writeIndex, readIndex, consumer, offered, delivered>>

LEMMA UnseenStutters == Unseen => UNCHANGED Fifo!fifoVars
  BY DEF Unseen, Fifo!fifoVars, Contents, First

LEMMA FirstFacts ==
  ASSUME IInv
  PROVE  /\ values \in [Slots -> Contained]
         /\ First \in Slots /\ writeIndex \in Slots /\ readIndex \in Slots
         /\ Len(Contents) = Distance(First, writeIndex)
         /\ Distance(First, writeIndex) = IF consumer = "copied" THEN Length - 1 ELSE Length
<1>1. values \in [Slots -> Contained] /\ readIndex \in Slots /\ writeIndex \in Slots
  BY LengthFacts DEF IInv, Payload, Contained
<1>2. consumer = "copied" => readIndex # writeIndex
  <2>. HAVE consumer = "copied"
  <2>1. Length # 0
    BY LengthFacts DEF IInv, Views
  <2>. QED  BY <1>1, <2>1, DistanceFacts DEF Length
<1>3. First \in Slots
  BY <1>1, DistanceFacts DEF First
<1>4. Len(Contents) = Distance(First, writeIndex)
  BY <1>1, <1>3, WindowFacts DEF Contents
<1>5. Distance(First, writeIndex) = IF consumer = "copied" THEN Length - 1 ELSE Length
  BY <1>1, <1>2, DistanceFacts DEF First, Length
<1>. QED  BY <1>1, <1>3, <1>4, <1>5

LEMMA OfferedIsOffered ==
  ASSUME NEW v \in Values, IInv, PushAdmitted(v)
  PROVE  Fifo!Offer(v)
<1>1. PICK n \in 0 .. staleReads : ~IsFull(writeIndex, SlotBefore(readIndex, n))
  BY DEF PushAdmitted
<1>2. n \in Nat /\ n + Length <= Capacity - 1 /\ Length + n # Capacity - 1
  BY <1>1, ProducerLoads
<1>3. Length < Capacity - 1 /\ Length \in Nat
  BY <1>2, LengthFacts, CapacityAssumption
<1>4. Len(Contents) < Capacity - 1
  BY <1>3, FirstFacts, CapacityAssumption
<1>5. offered = << >> /\ offered' = <<v>> /\ UNCHANGED <<Contents, delivered>>
  BY DEF PushAdmitted, IInv, Payload, consumerVars, Contents, First
<1>. QED  BY <1>4, <1>5 DEF Fifo!Offer

LEMMA StoreStutters == IInv /\ PushStore => UNCHANGED Fifo!fifoVars
<1>. SUFFICES ASSUME IInv, PushStore PROVE UNCHANGED Fifo!fifoVars
  OBVIOUS
<1>1. values \in [Slots -> Contained] /\ First \in Slots /\ writeIndex \in Slots
  BY FirstFacts
<1>2. values' \in [Slots -> Contained]
  BY PushStorePreserves DEF IInv, Payload, Contained
<1>3. \A s \in Slots : s # writeIndex => values'[s] = values[s]
  BY <1>1 DEF PushStore
<1>4. Window(values', First, writeIndex) = Window(values, First, writeIndex)
  BY <1>1, <1>2, <1>3, WindowKept
<1>5. UNCHANGED <<First, writeIndex, offered, delivered>>
  BY DEF PushStore, consumerVars, First
<1>. QED  BY <1>4, <1>5 DEF Fifo!fifoVars, Contents

LEMMA PublishedIsAccepted == IInv /\ PushPublish => Fifo!Accept
<1>. SUFFICES ASSUME IInv, PushPublish PROVE Fifo!Accept
  OBVIOUS
<1>1. /\ values \in [Slots -> Contained] /\ First \in Slots /\ writeIndex \in Slots
  BY FirstFacts
<1>2. Length <= Capacity - 2 /\ Length \in Nat
  <2>1. staleReads + Length <= Capacity - 2
    BY DEF PushPublish, IInv, Views
  <2>. QED  BY <2>1, LengthFacts, CapacityAssumption
<1>3. Len(Contents) < Capacity - 1 /\ Distance(First, writeIndex) # Capacity - 1
  BY <1>2, FirstFacts, CapacityAssumption
<1>4. NextSlot(writeIndex) # First
  BY <1>1, <1>3, DistanceFacts
<1>5. Window(values, First, NextSlot(writeIndex)) = Contents \o <<values[writeIndex]>>
  BY <1>1, <1>4, WindowGrows DEF Contents
<1>6. /\ writeIndex' = NextSlot(writeIndex) /\ offered' = << >>
      /\ UNCHANGED <<values, First, delivered>>
  BY DEF PushPublish, consumerVars, First
<1>7. offered = <<values[writeIndex]>> /\ offered # << >>
  <2>1. offered = <<values[writeIndex]>>
    BY DEF PushPublish, IInv, Payload
  <2>2. Len(offered) = 1
    BY <2>1
  <2>. QED  BY <2>1, <2>2, EmptySeq
<1>. QED  BY <1>3, <1>5, <1>6, <1>7 DEF Fifo!Accept, Contents

LEMMA CopiedIsDelivered == IInv /\ PopCopy => Fifo!Deliver
<1>. SUFFICES ASSUME IInv, PopCopy PROVE Fifo!Deliver
  OBVIOUS
<1>1. /\ values \in [Slots -> Contained] /\ readIndex \in Slots /\ writeIndex \in Slots
  BY FirstFacts
<1>2. Length # 0
  BY LengthFacts DEF PopCopy, IInv, Views
<1>3. readIndex # writeIndex
  BY <1>1, <1>2, DistanceFacts DEF Length
<1>4. First = readIndex /\ First' = NextSlot(readIndex)
  BY DEF PopCopy, First
<1>5. /\ UNCHANGED <<values, writeIndex, offered>>
      /\ delivered' = <<values[readIndex]>>
  BY DEF PopCopy, producerVars
<1>6. /\ Contents # << >> /\ Head(Contents) = values[readIndex]
      /\ Window(values, NextSlot(readIndex), writeIndex) = Tail(Contents)
  BY <1>1, <1>3, <1>4, WindowShrinks DEF Contents
<1>. QED  BY <1>4, <1>5, <1>6 DEF Fifo!Deliver, Contents

LEMMA ReleaseStutters == PopRelease => UNCHANGED Fifo!fifoVars
  BY DEF PopRelease, producerVars, Fifo!fifoVars, Contents, First

LEMMA StepMaps == IInv /\ [Next]_vars => [Fifo!Next]_(Fifo!fifoVars)
<1>. SUFFICES ASSUME IInv, [Next]_vars PROVE Fifo!Next \/ UNCHANGED Fifo!fifoVars
  OBVIOUS
<1>1. ASSUME NEW v \in Values, PushAdmitted(v) PROVE Fifo!Next
  BY <1>1, OfferedIsOffered DEF Fifo!Next
<1>2. CASE PushStore
  BY <1>2, StoreStutters
<1>3. CASE PushPublish
  BY <1>3, PublishedIsAccepted DEF Fifo!Next
<1>4. CASE PopCopy
  BY <1>4, CopiedIsDelivered DEF Fifo!Next
<1>5. CASE PopRelease
  BY <1>5, ReleaseStutters
<1>6. CASE PushRefused \/ PopRefused \/ PopAdmitted \/ ApproximateSize \/ UNCHANGED vars
  <2>1. Unseen \/ (consumer = "idle" /\ consumer' = "admitted"
                   /\ UNCHANGED <<values, writeIndex, readIndex, offered, delivered>>)
    BY <1>6 DEF PushRefused, PopRefused, PopAdmitted, ApproximateSize, vars,
                producerVars, consumerVars, Unseen
  <2>2. UNCHANGED Fifo!fifoVars
    BY <2>1, UnseenStutters DEF Fifo!fifoVars, Contents, First
  <2>. QED  BY <2>2
<1>. QED  BY <1>1, <1>2, <1>3, <1>4, <1>5, <1>6 DEF Next

LEMMA InitMaps == Init => Fifo!Init
<1>. SUFFICES ASSUME Init PROVE Fifo!Init
  OBVIOUS
<1>1. values \in [Slots -> Contained] /\ First = 0 /\ writeIndex = 0 /\ 0 \in Slots
  BY CapacityAssumption DEF Init, First, Contained, Slots
<1>2. Distance(0, 0) = 0
  BY DEF Distance
<1>3. Contents \in Seq(Contained) /\ Len(Contents) = 0
  BY <1>1, <1>2, WindowFacts DEF Contents
<1>4. Contents = << >>
  BY <1>3, EmptySeq
<1>. QED  BY <1>4 DEF Fifo!Init, Init

\* Whatever the capacity, the values and the staleness of the loads, the two
\* threads see a bounded first-in first-out queue: nothing is lost, repeated,
\* reordered or altered between tryPush and tryPop.
THEOREM RingIsFifo == Spec => DeliversInOrder
  BY InitMaps, StepMaps, RingInvariant, PTL DEF Spec, DeliversInOrder, Fifo!Spec

----------------------------------------------------------------------------
(* The receiver                                                            *)

Places == {"none", "top", "selecting", "receiving", "received", "pushing", "pushed", "done"}

\* There is at most one thread, the one that can be joined, and none once nobody
\* has asked for one: so start never makes a second one.
ThreadsOwned ==
  /\ loop \in [Threads -> Places]
  /\ handle \subseteq Threads
  /\ \A s, t \in handle : s = t
  /\ \A t \in Threads : loop[t] # "none" => t \in handle
  /\ owner = "idle" /\ handle # {} => running
  /\ owner = "creating" => running /\ handle = {}
  /\ socket = "closed" => owner = "gone"
  /\ owner = "gone" => handle = {}

\* What the buffer of the loop holds.
PacketTyped ==
  /\ packet \in {<< >>, WrongSize} \cup {<<v>> : v \in Values}
  /\ \A t \in Threads : loop[t] = "received" => packet # << >>

ReceiverInv == ThreadsOwned /\ PacketTyped

----------------------------------------------------------------------------
(* At most one thread                                                      *)

LEMMA OthersAbsent ==
  ASSUME ThreadsOwned, NEW t \in Threads, loop[t] # "none"
  PROVE  handle = {t} /\ \A s \in Threads \ {t} : loop[s] = "none"
  BY DEF ThreadsOwned

\* A step of the one thread from which it does not vanish.
LEMMA LoopStepKeepsOwned ==
  ASSUME ThreadsOwned, NEW t \in Threads, loop[t] # "none",
         NEW place \in Places, loop' = [loop EXCEPT ![t] = place],
         UNCHANGED ownerVars
  PROVE  ThreadsOwned'
  BY DEF ThreadsOwned, ownerVars

LEMMA InitOwned == ReceiverInit => ReceiverInv
  BY DEF ReceiverInit, ReceiverInv, ThreadsOwned, PacketTyped, Places

LEMMA OwnerStepPreserves == ReceiverInv /\ OwnerStep => ReceiverInv'
<1> SUFFICES ASSUME ReceiverInv, OwnerStep PROVE ReceiverInv'
  OBVIOUS
<1>. USE DEF ReceiverInv, ThreadsOwned, PacketTyped, ownerVars, loopVars
<1>1. CASE Start
  BY <1>1 DEF Start
<1>2. CASE StartIgnored
  BY <1>2 DEF StartIgnored, receiverVars
<1>3. CASE CreateThread
  <2>1. PICK t \in Threads :
          loop[t] = "none" /\ loop' = [loop EXCEPT ![t] = "top"] /\ handle' = {t}
    BY <1>3 DEF CreateThread
  <2>2. /\ owner = "creating" /\ owner' = "idle"
        /\ UNCHANGED <<running, socket, packet>>
    BY <1>3 DEF CreateThread
  <2>3. \A s \in Threads : loop[s] = "none"
    BY <2>2
  <2>. QED  BY <2>1, <2>2, <2>3 DEF Places
<1>4. CASE CreateFails
  BY <1>4 DEF CreateFails
<1>5. CASE Stop
  BY <1>5 DEF Stop, AfterFlag
<1>6. CASE JoinReturns
  <2>1. PICK t \in handle : loop[t] = "done" /\ loop' = [loop EXCEPT ![t] = "none"]
    BY <1>6 DEF JoinReturns
  <2>2. /\ owner \in {"joining", "destroying"} /\ handle' = {}
        /\ owner' \in {"idle", "destroying"}
        /\ UNCHANGED <<running, socket, packet>>
    BY <1>6 DEF JoinReturns
  <2>3. \A s \in Threads : loop'[s] = "none"
    BY <2>1, <2>2, OthersAbsent
  <2>. QED  BY <2>1, <2>2, <2>3 DEF Places
<1>7. CASE Destroy
  BY <1>7 DEF Destroy
<1>8. CASE CloseSocket
  BY <1>8 DEF CloseSocket
<1>. QED  BY <1>1, <1>2, <1>3, <1>4, <1>5, <1>6, <1>7, <1>8 DEF OwnerStep

LEMMA ReceiverStepPreserves ==
  ASSUME ReceiverInv, NEW t \in Threads, ReceiverStep(t)
  PROVE  ReceiverInv'
<1>1. /\ loop[t] # "none"
      /\ UNCHANGED ownerVars
      /\ \E place \in Places : loop' = [loop EXCEPT ![t] = place]
  <2>1. loop = [loop EXCEPT ![t] = loop[t]] /\ loop[t] \in Places
    BY DEF ReceiverInv, ThreadsOwned
  <2>. QED
    BY <2>1 DEF ReceiverStep, LoopCondition, SelectTimeout, SocketError, SelectReady,
         ReceiveFrom, RejectSize, TryPush, TryPushFails, FillSlot, PublishSlot, CountQueued,
         At, Goes, NextPacket, Places, loopVars
<1>2. ThreadsOwned'
  BY <1>1, LoopStepKeepsOwned DEF ReceiverInv
<1>3. /\ packet' \in {<< >>, WrongSize} \cup {<<v>> : v \in Values}
      /\ loop'[t] = "received" => packet' # << >>
  <2>1. loop'[t] = "received" => ReceiveFrom(t)
    BY DEF ReceiverStep, LoopCondition, SelectTimeout, SocketError, SelectReady,
         ReceiveFrom, RejectSize, TryPush, TryPushFails, FillSlot, PublishSlot, CountQueued,
         At, Goes, NextPacket, loopVars, ReceiverInv, ThreadsOwned
  <2>2. ReceiveFrom(t) => packet' \in {WrongSize} \cup {<<v>> : v \in Values}
    BY DEF ReceiveFrom
  <2>3. ~ReceiveFrom(t) => packet' \in {packet, << >>}
    BY DEF ReceiverStep, LoopCondition, SelectTimeout, SocketError, SelectReady,
         RejectSize, TryPush, TryPushFails, FillSlot, PublishSlot, CountQueued,
         NextPacket, loopVars
  <2>4. packet \in {<< >>, WrongSize} \cup {<<v>> : v \in Values}
    BY DEF ReceiverInv, PacketTyped
  <2>5. packet' \in {<< >>, WrongSize} \cup {<<v>> : v \in Values}
    BY <2>2, <2>3, <2>4
  <2>6. \A p \in {WrongSize} \cup {<<v>> : v \in Values} : p # << >>
    <3>1. \A v : <<v>> # << >>
      OBVIOUS
    <3>2. ASSUME NEW p \in {WrongSize} \cup {<<v>> : v \in Values} PROVE p # << >>
      <4>1. PICK v : p = <<v>>
        BY DEF WrongSize
      <4>. QED  BY <3>1, <4>1
    <3>. QED  BY <3>2
  <2>. QED  BY <2>1, <2>2, <2>5, <2>6
<1>4. \A s \in Threads \ {t} : loop'[s] # "received"
  BY <1>1, OthersAbsent DEF ReceiverInv, ThreadsOwned
<1>. QED  BY <1>2, <1>3, <1>4 DEF ReceiverInv, PacketTyped

LEMMA ReceiverStepsPreserve == ReceiverInv /\ [ReceiverNext]_receiverVars => ReceiverInv'
<1> SUFFICES ASSUME ReceiverInv, [ReceiverNext]_receiverVars PROVE ReceiverInv'
  OBVIOUS
<1>1. CASE OwnerStep
  BY <1>1, OwnerStepPreserves
<1>2. ASSUME NEW t \in Threads, ReceiverStep(t) PROVE ReceiverInv'
  BY <1>2, ReceiverStepPreserves
<1>3. CASE UNCHANGED <<ownerVars, loopVars>>
  BY <1>3 DEF ReceiverInv, ThreadsOwned, PacketTyped, ownerVars, loopVars
<1>4. Consume \/ ConsumeRelease \/ UNCHANGED receiverVars => UNCHANGED <<ownerVars, loopVars>>
  BY DEF Consume, ConsumeRelease, receiverVars
<1>. QED  BY <1>1, <1>2, <1>3, <1>4 DEF ReceiverNext

\* start, stop, the destructor and the steps of the loop keep the one thread and
\* its buffer as ThreadsOwned and PacketTyped say.
THEOREM ReceiverInvariant == ReceiverSpec => []ReceiverInv
  BY InitOwned, ReceiverStepsPreserve, PTL DEF ReceiverSpec

\* Start, stop and the destructor, in any order of calls and however late the
\* thread looks at its flag, never make two producers of the ring, lose a
\* thread that could be joined, or take the socket from a running one.
THEOREM NeverTwoReceivers == ReceiverSpec => []OneReceiver
<1>1. ReceiverInv => OneReceiver
  <2>. SUFFICES ASSUME ThreadsOwned PROVE OneReceiver
    BY DEF ReceiverInv
  <2>. DEFINE Present == {t \in Threads : loop[t] # "none"}
  <2>1. Present = {} \/ \E t \in Threads : Present = {t}
    BY DEF ThreadsOwned
  <2>. HIDE DEF Present
  <2>2. Cardinality(Present) <= 1
    <3>1. CASE Present = {}
      BY <3>1, FS_EmptySet
    <3>2. ASSUME NEW t \in Threads, Present = {t} PROVE Cardinality(Present) <= 1
      <4>1. Cardinality({t}) = 1
        BY FS_Singleton
      <4>. QED  BY <3>2, <4>1
    <3>. QED  BY <2>1, <3>1, <3>2
  <2>3. socket = "closed" => \A t \in Threads : loop[t] = "none"
    BY DEF ThreadsOwned
  <2>. QED  BY <2>2, <2>3 DEF OneReceiver, ThreadsOwned, Present
<1>. QED  BY <1>1, ReceiverInvariant, PTL

----------------------------------------------------------------------------
(* The ring under its threads is the ring                                  *)

LEMMA StepIsRingStep == ReceiverInv /\ [ReceiverNext]_receiverVars => [Next]_vars
<1> SUFFICES ASSUME ReceiverInv, [ReceiverNext]_receiverVars PROVE [Next]_vars
  OBVIOUS
<1>1. OwnerStep => UNCHANGED vars
  BY DEF OwnerStep, Start, StartIgnored, CreateThread, CreateFails, Stop, JoinReturns, Destroy,
       CloseSocket, receiverVars
<1>2. ASSUME NEW t \in Threads, ReceiverStep(t) PROVE Next \/ UNCHANGED vars
  <2>1. TryPush(t) => Next
    <3>. SUFFICES ASSUME TryPush(t) PROVE Next
      OBVIOUS
    <3>1. PICK v \in Values : packet = <<v>>
      BY DEF TryPush, At, ReceiverInv, PacketTyped
    <3>2. PushAdmitted(v)
      BY <3>1 DEF TryPush
    <3>. QED  BY <3>2 DEF Next
  <2>2. TryPushFails(t) \/ FillSlot(t) \/ PublishSlot(t) => Next
    BY DEF TryPushFails, FillSlot, PublishSlot, Next
  <2>3. CASE \/ LoopCondition(t) \/ SelectTimeout(t) \/ SocketError(t) \/ SelectReady(t)
             \/ ReceiveFrom(t) \/ RejectSize(t) \/ CountQueued(t)
    BY <2>3 DEF LoopCondition, SelectTimeout, SocketError, SelectReady, ReceiveFrom,
         RejectSize, CountQueued
  <2>. QED  BY <1>2, <2>1, <2>2, <2>3 DEF ReceiverStep
<1>3. Consume \/ ConsumeRelease => Next
  BY DEF Consume, ConsumeRelease, Next
<1>4. UNCHANGED receiverVars => UNCHANGED vars
  BY DEF receiverVars
<1>. QED  BY <1>1, <1>2, <1>3, <1>4 DEF ReceiverNext

\* Whatever the owner does, the ring is used as SpscRingBuffer assumes, by one
\* producer and one consumer: what is proved of the ring holds here.
THEOREM ReceiverUsesRing == ReceiverSpec => Spec
<1>1. ReceiverInit => Init
  BY DEF ReceiverInit
<1>. QED  BY <1>1, StepIsRingStep, ReceiverInvariant, PTL DEF ReceiverSpec, Spec

\* Over any number of starts and stops no slot is written and read at once.
THEOREM ReceiverWithoutRace == ReceiverSpec => []NoSlotShared
  BY ReceiverUsesRing, NoDataRace, PTL

\* What the receiver queues comes out in order, none twice and none left out.
THEOREM ReceiverIsFifo == ReceiverSpec => DeliversInOrder
  BY ReceiverUsesRing, RingIsFifo, PTL

----------------------------------------------------------------------------
(* Every datagram is counted                                               *)

CounterNames ==
  {"packets_received", "packets_queued", "invalid_size_packets", "queue_full_drops",
   "socket_errors"}

HandPlaces == {"received", "pushing", "pushed"}

OneIf(b) == IF b THEN 1 ELSE 0

Sums(hand, pushed) ==
  /\ counts.packets_received =
       counts.packets_queued + counts.invalid_size_packets + counts.queue_full_drops
         + OneIf(hand)
  /\ counts.packets_queued + OneIf(pushed) = popped + Length

\* PacketsAccounted, without the cardinalities.
Counted ==
  /\ counts \in [CounterNames -> Nat]
  /\ popped \in Nat
  /\ Sums(\E t \in Threads : loop[t] \in HandPlaces, \E t \in Threads : loop[t] = "pushed")

AccountInv == ReceiverInv /\ IInv /\ Counted

LEMMA AtMostOneAt ==
  ASSUME ThreadsOwned, NEW S, "none" \notin S
  PROVE  Cardinality({t \in Threads : loop[t] \in S}) = OneIf(\E t \in Threads : loop[t] \in S)
<1>. DEFINE There == {t \in Threads : loop[t] \in S}
<1>1. CASE \E t \in Threads : loop[t] \in S
  <2>1. PICK t \in Threads : loop[t] \in S
    BY <1>1
  <2>2. There = {t}
    BY <2>1, OthersAbsent
  <2>3. Cardinality({t}) = 1
    BY FS_Singleton
  <2>. QED  BY <1>1, <2>2, <2>3 DEF OneIf
<1>2. CASE ~\E t \in Threads : loop[t] \in S
  <2>1. There = {}
    BY <1>2
  <2>. QED  BY <1>2, <2>1, FS_EmptySet DEF OneIf
<1>. QED  BY <1>1, <1>2

LEMMA CountedIsAccounted == ThreadsOwned /\ Counted => PacketsAccounted
<1> SUFFICES ASSUME ThreadsOwned, Counted PROVE PacketsAccounted
  OBVIOUS
<1>1. InHand = OneIf(\E t \in Threads : loop[t] \in HandPlaces)
  BY AtMostOneAt DEF InHand, HandPlaces
<1>2. JustPushed = OneIf(\E t \in Threads : loop[t] = "pushed")
  <2>1. {t \in Threads : loop[t] \in {"pushed"}} = {t \in Threads : loop[t] = "pushed"}
    OBVIOUS
  <2>2. (\E t \in Threads : loop[t] \in {"pushed"}) <=> \E t \in Threads : loop[t] = "pushed"
    OBVIOUS
  <2>3. Cardinality({t \in Threads : loop[t] \in {"pushed"}}) =
          OneIf(\E t \in Threads : loop[t] \in {"pushed"})
    BY AtMostOneAt
  <2>. QED  BY <2>1, <2>2, <2>3 DEF JustPushed, OneIf
<1>. QED  BY <1>1, <1>2 DEF Counted, Sums, PacketsAccounted

\* What is counted is about the one thread there is.
LEMMA CountedByThread ==
  ASSUME ThreadsOwned, NEW t \in Threads, loop[t] # "none"
  PROVE  /\ (\E s \in Threads : loop[s] \in HandPlaces) <=> loop[t] \in HandPlaces
         /\ (\E s \in Threads : loop[s] = "pushed") <=> loop[t] = "pushed"
  BY OthersAbsent DEF HandPlaces

LEMMA LengthAfterPublish == IInv /\ PushPublish => Length' = Length + 1 /\ Length \in Nat
<1> SUFFICES ASSUME IInv, PushPublish PROVE Length' = Length + 1 /\ Length \in Nat
  OBVIOUS
<1>1. writeIndex' = NextSlot(writeIndex) /\ producer = "stored" /\ readIndex' = readIndex
  BY DEF PushPublish
<1>2. /\ readIndex \in Slots /\ writeIndex \in Slots /\ Length \in Nat
      /\ staleReads \in Nat /\ staleReads + Length <= Capacity - 2
  BY <1>1, LengthFacts DEF IInv, Views
<1>3. NextSlot(writeIndex) # readIndex
  BY <1>2, CapacityAssumption, DistanceFacts DEF Length
<1>. QED  BY <1>1, <1>2, <1>3, DistanceFacts DEF Length

LEMMA LengthAfterRelease == IInv /\ PopRelease => Length' = Length - 1 /\ Length \in Nat
<1> SUFFICES ASSUME IInv, PopRelease PROVE Length' = Length - 1 /\ Length \in Nat
  OBVIOUS
<1>1. readIndex' = NextSlot(readIndex) /\ consumer = "copied" /\ writeIndex' = writeIndex
  BY DEF PopRelease
<1>2. /\ readIndex \in Slots /\ writeIndex \in Slots /\ Length \in Nat
      /\ staleWrites \in Nat /\ staleWrites < Length
  BY <1>1, LengthFacts DEF IInv, Views
<1>3. readIndex # writeIndex
  BY <1>2, DistanceFacts DEF Length
<1>. QED  BY <1>1, <1>2, <1>3, DistanceFacts DEF Length

LEMMA InitCounted == ReceiverInit => Counted
<1> SUFFICES ASSUME ReceiverInit PROVE Counted
  OBVIOUS
<1>1. Length = 0
  BY DEF ReceiverInit, Init, Length, Distance
<1>2. \A t \in Threads : loop[t] = "none"
  BY DEF ReceiverInit
<1>. QED  BY <1>1, <1>2 DEF ReceiverInit, Counted, Sums, OneIf, CounterNames, HandPlaces

LEMMA OwnerStepCounted == AccountInv /\ OwnerStep => Counted'
<1> SUFFICES ASSUME AccountInv, OwnerStep PROVE Counted'
  OBVIOUS
<1>1. UNCHANGED <<counts, popped, writeIndex, readIndex>>
  BY DEF OwnerStep, Start, StartIgnored, CreateThread, CreateFails, Stop, JoinReturns, Destroy,
       CloseSocket, receiverVars, vars, loopVars
<1>2. Length' = Length
  BY <1>1 DEF Length
<1>3. \A t \in Threads : loop'[t] = loop[t] \/ {loop[t], loop'[t]} \subseteq {"none", "top", "done"}
  BY DEF OwnerStep, Start, StartIgnored, CreateThread, CreateFails, Stop, JoinReturns, Destroy,
       CloseSocket, receiverVars, loopVars, AccountInv, ReceiverInv, ThreadsOwned
<1>4. /\ (\E t \in Threads : loop[t] \in HandPlaces) <=> \E t \in Threads : loop'[t] \in HandPlaces
      /\ (\E t \in Threads : loop[t] = "pushed") <=> \E t \in Threads : loop'[t] = "pushed"
  BY <1>3 DEF HandPlaces
<1>. QED  BY <1>1, <1>2, <1>4 DEF AccountInv, Counted, Sums, OneIf

LEMMA ReceiverStepCounted ==
  ASSUME AccountInv, NEW t \in Threads, ReceiverStep(t)
  PROVE  Counted'
<1>1. loop[t] # "none" /\ loop'[t] # "none" /\ loop \in [Threads -> Places]
  BY DEF ReceiverStep, LoopCondition, SelectTimeout, SocketError, SelectReady,
       ReceiveFrom, RejectSize, TryPush, TryPushFails, FillSlot, PublishSlot, CountQueued,
       At, Goes, NextPacket, loopVars, AccountInv, ReceiverInv, ThreadsOwned
<1>2. Sums(loop[t] \in HandPlaces, loop[t] = "pushed") /\ counts \in [CounterNames -> Nat]
  BY <1>1, CountedByThread DEF AccountInv, ReceiverInv, Counted, Sums, OneIf
<1>3. popped' = popped /\ popped \in Nat /\ Length \in Nat
  BY LengthFacts
     DEF ReceiverStep, LoopCondition, SelectTimeout, SocketError, SelectReady,
       ReceiveFrom, RejectSize, TryPush, TryPushFails, FillSlot, PublishSlot, CountQueued,
       AccountInv, Counted
<1>4. PublishSlot(t) \/ Length' = Length
  BY DEF ReceiverStep, LoopCondition, SelectTimeout, SocketError, SelectReady,
       ReceiveFrom, RejectSize, TryPush, TryPushFails, FillSlot, CountQueued,
       PushAdmitted, PushRefused, PushStore, Length, vars, producerVars, consumerVars
<1>5. /\ counts' \in [CounterNames -> Nat]
      /\ Sums(loop[t] \in HandPlaces, loop[t] = "pushed")'
  <2>. USE DEF HandPlaces, OneIf, Sums, At, Goes, CounterNames, loopVars
  <2>1. CASE LoopCondition(t) \/ SelectTimeout(t) \/ SelectReady(t)
    BY <1>1, <1>2, <1>3, <1>4, <2>1 DEF LoopCondition, SelectTimeout, SelectReady, PublishSlot
  <2>2. CASE SocketError(t)
    <3>1. Length' = Length
      BY <1>4, <2>2 DEF SocketError, PublishSlot
    <3>2. /\ loop[t] \in {"selecting", "receiving"} /\ loop'[t] = "top"
          /\ counts' = [counts EXCEPT !["socket_errors"] = @ + 1]
      BY <1>1, <2>2 DEF SocketError, Counts
    <3>. HIDE DEF Length
    <3>. QED  BY <1>2, <1>3, <3>1, <3>2
  <2>3. CASE ReceiveFrom(t)
    <3>1. Length' = Length
      BY <1>4, <2>3 DEF ReceiveFrom, PublishSlot
    <3>2. /\ loop[t] = "receiving" /\ loop'[t] = "received"
          /\ counts' = [counts EXCEPT !["packets_received"] = @ + 1]
      BY <1>1, <2>3 DEF ReceiveFrom, Counts
    <3>. HIDE DEF Length
    <3>. QED  BY <1>2, <1>3, <3>1, <3>2
  <2>4. CASE RejectSize(t)
    <3>1. Length' = Length
      BY <1>4, <2>4 DEF RejectSize, PublishSlot
    <3>2. /\ loop[t] = "received" /\ loop'[t] = "top"
          /\ counts' = [counts EXCEPT !["invalid_size_packets"] = @ + 1]
      BY <1>1, <2>4 DEF RejectSize, NextPacket, Counts
    <3>. HIDE DEF Length
    <3>. QED  BY <1>2, <1>3, <3>1, <3>2
  <2>5. CASE TryPush(t) \/ FillSlot(t)
    BY <1>1, <1>2, <1>3, <1>4, <2>5 DEF TryPush, FillSlot, PublishSlot, PushStore, PushPublish
  <2>6. CASE TryPushFails(t)
    <3>1. Length' = Length
      BY <1>4, <2>6 DEF TryPushFails, PublishSlot
    <3>2. /\ loop[t] = "received" /\ loop'[t] = "top"
          /\ counts' = [counts EXCEPT !["queue_full_drops"] = @ + 1]
      BY <1>1, <2>6 DEF TryPushFails, DropCounter, NextPacket, Counts
    <3>. HIDE DEF Length
    <3>. QED  BY <1>2, <1>3, <3>1, <3>2
  <2>7. CASE PublishSlot(t)
    <3>1. Length' = Length + 1
      BY <2>7, LengthAfterPublish DEF PublishSlot, AccountInv
    <3>. HIDE DEF Length
    <3>. QED  BY <1>1, <1>2, <1>3, <2>7, <3>1 DEF PublishSlot
  <2>8. CASE CountQueued(t)
    <3>1. Length' = Length
      BY <1>4, <2>8 DEF CountQueued, PublishSlot
    <3>2. /\ loop[t] = "pushed" /\ loop'[t] = "top"
          /\ counts' = [counts EXCEPT !["packets_queued"] = @ + 1]
      BY <1>1, <2>8 DEF CountQueued, NextPacket, Counts
    <3>. HIDE DEF Length
    <3>. QED  BY <1>2, <1>3, <3>1, <3>2
  <2>. QED
    BY <2>1, <2>2, <2>3, <2>4, <2>5, <2>6, <2>7, <2>8 DEF ReceiverStep
<1>6. ThreadsOwned'
  BY ReceiverStepPreserves DEF AccountInv, ReceiverInv
<1>7. /\ (\E s \in Threads : loop'[s] \in HandPlaces) <=> loop'[t] \in HandPlaces
      /\ (\E s \in Threads : loop'[s] = "pushed") <=> loop'[t] = "pushed"
  <2>1. \A s \in Threads \ {t} : loop'[s] = "none"
    BY <1>1, <1>6 DEF ThreadsOwned
  <2>. QED  BY <2>1 DEF HandPlaces
<1>. QED  BY <1>3, <1>5, <1>7 DEF Counted, Sums, OneIf

LEMMA ConsumerStepCounted ==
  AccountInv /\ (Consume \/ ConsumeRelease \/ UNCHANGED receiverVars) => Counted'
<1> SUFFICES ASSUME AccountInv, Consume \/ ConsumeRelease \/ UNCHANGED receiverVars
             PROVE  Counted'
  OBVIOUS
<1>1. loop' = loop /\ counts' = counts
  BY DEF Consume, ConsumeRelease, receiverVars, loopVars
<1>2. /\ popped' \in Nat /\ Length \in Nat /\ popped \in Nat
      /\ popped' + Length' = popped + Length
  <2>1. CASE Consume \/ UNCHANGED receiverVars
    BY <2>1, LengthFacts DEF Consume, PopRefused, PopAdmitted, PopCopy, ApproximateSize,
         receiverVars, vars, Length, AccountInv, Counted
  <2>2. CASE ConsumeRelease
    BY <2>2, LengthAfterRelease DEF ConsumeRelease, AccountInv, Counted
  <2>. QED  BY <2>1, <2>2
<1>. QED  BY <1>1, <1>2 DEF AccountInv, Counted, Sums, OneIf

LEMMA StepsAccount == AccountInv /\ [ReceiverNext]_receiverVars => AccountInv'
<1> SUFFICES ASSUME AccountInv, [ReceiverNext]_receiverVars PROVE AccountInv'
  OBVIOUS
<1>1. ReceiverInv' /\ IInv'
  BY ReceiverStepsPreserve, StepIsRingStep, StepHolds DEF AccountInv
<1>2. Counted'
  BY OwnerStepCounted, ReceiverStepCounted, ConsumerStepCounted DEF ReceiverNext
<1>. QED  BY <1>1, <1>2 DEF AccountInv

\* No datagram the socket gave is lost without being counted, and none is
\* counted as queued that the ring did not take.
THEOREM NothingLeaksUncounted == ReceiverSpec => []PacketsAccounted
<1>1. ReceiverInit => AccountInv
  BY InitOwned, InitHolds, InitCounted DEF AccountInv, ReceiverInit
<1>2. AccountInv => PacketsAccounted
  BY CountedIsAccounted DEF AccountInv, ReceiverInv
<1>. QED  BY <1>1, <1>2, StepsAccount, PTL DEF ReceiverSpec

----------------------------------------------------------------------------
(* The processing thread                                                   *)

FeedState == {"Healthy", "Recovering", "Failed"}

\* A stopped or paused strategy has no quotes; while the processor retries, it
\* is stopped; it publishes only a complete book.
QuotesInv ==
  /\ killSwitch # "" => ~quoting
  /\ pauseActive => ~quoting
  /\ pc \in {"retrying", "retried"} => ~quoting
  /\ pc = "publishing" => state = "Healthy"
  /\ NoQuotesOnIncompleteBook

\* A retry is always part of a recovery that has been recorded, and only a
\* complete book is published.
RecordsInv ==
  /\ state \in FeedState
  /\ pc \in {"retrying", "retried"} => telemetryActive
  /\ pc = "publishing" => state = "Healthy"
  /\ telemetryActive \in BOOLEAN
  /\ RecoveryRecordsPaired

LEMMA QuotesInit == FeedInit => QuotesInv
  BY DEF FeedInit, QuotesInv, NoQuotesOnIncompleteBook

LEMMA PauseSilences ==
  ASSUME NEW reason \in {"feed"}, Paused(reason),
         killSwitch # "" => ~quoting, pauseActive => ~quoting
  PROVE  /\ ~quoting'
         /\ pauseActive' \/ killSwitch' = killSwitch
  BY DEF Paused, Killed

\* QuotesInv is inductive.
LEMMA StepKeepsQuotes == QuotesInv /\ [FeedNext]_feedVars => QuotesInv'
<1> SUFFICES ASSUME QuotesInv, [FeedNext]_feedVars PROVE QuotesInv'
  OBVIOUS
<1> USE DEF QuotesInv, NoQuotesOnIncompleteBook
<1>1. CASE \E datagram \in {Undecodable} \cup 1 .. LastSequence : Receive(datagram)
  <2>1. UNCHANGED <<state, pc, pauseActive, killSwitch, quoting>>
    BY <1>1 DEF Receive, sequencerVars, strategyVars
  <2>. QED  BY <2>1
<1>2. CASE StopStrategy
  BY <1>2 DEF StopStrategy, Killed, sequencerVars
<1>3. CASE AllowStrategy
  BY <1>3 DEF AllowStrategy, sequencerVars
<1>4. CASE CallProcess
  BY <1>4 DEF CallProcess, sequencerVars, strategyVars
<1>5. CASE PopUndecodable
  BY <1>5 DEF PopUndecodable, sequencerVars, strategyVars
<1>6. CASE PopEvent
  <2>1. quoting' => quoting
    BY <1>6 DEF PopEvent, MayFill
  <2>2. UNCHANGED <<pauseActive, killSwitch>> /\ pc' = "dispatching"
    BY <1>6 DEF PopEvent
  <2>. QED  BY <2>1, <2>2
<1>7. CASE FeedFailed
  <2>1. ~quoting'
    BY <1>7, PauseSilences DEF FeedFailed
  <2>2. pc' = "popping"
    BY <1>7 DEF FeedFailed
  <2>. QED  BY <2>1, <2>2
<1>8. CASE FeedRecovering
  <2>1. ~quoting'
    BY <1>8, PauseSilences DEF FeedRecovering
  <2>2. pc' = "retrying"
    BY <1>8 DEF FeedRecovering
  <2>. QED  BY <2>1, <2>2
<1>9. CASE FeedHealthy
  BY <1>9 DEF FeedHealthy, sequencerVars, strategyVars
<1>10. CASE Retry
  <2>1. ~quoting' /\ pc' = "retried"
    BY <1>10 DEF Retry, MayFill
  <2>. QED  BY <2>1
<1>11. CASE Retried
  BY <1>11 DEF Retried, NextIteration, sequencerVars, strategyVars
<1>12. CASE Publish
  <2>1. state' = "Healthy" /\ pc' \in {"popping", "away"}
    BY <1>12 DEF Publish, NextIteration, sequencerVars
  <2>2. ~pauseActive'
    BY <1>12 DEF Publish, StillPaused
  <2>3. killSwitch' # "" => killSwitch' = killSwitch
    BY <1>12 DEF Publish, SwitchAfterResume
  <2>4. killSwitch' # "" => ~quoting'
    BY <1>12, <2>3 DEF Publish, Refreshes
  <2>. QED  BY <2>1, <2>2, <2>4
<1>13. CASE QueueEmpty
  <2>1. CASE IdleRetryDue
    <3>1. ~quoting'
      BY <1>13, <2>1, PauseSilences DEF QueueEmpty
    <3>2. pc' = "retrying"
      BY <1>13, <2>1 DEF QueueEmpty
    <3>. QED  BY <3>1, <3>2
  <2>2. CASE ~IdleRetryDue
    BY <1>13, <2>2 DEF QueueEmpty, sequencerVars
  <2>. QED  BY <2>1, <2>2
<1>14. CASE UNCHANGED feedVars
  BY <1>14 DEF feedVars, sequencerVars, strategyVars
<1>. QED
  BY <1>1, <1>2, <1>3, <1>4, <1>5, <1>6, <1>7, <1>8, <1>9, <1>10, <1>11, <1>12, <1>13, <1>14
     DEF FeedNext, Process

\* No quote of the strategy rests in the book from the moment before the first
\* fetch of a recovery until the book is complete, nor after a failure.
THEOREM FeedNeverQuotesBlind == FeedSpec => []NoQuotesOnIncompleteBook
<1>1. QuotesInv => NoQuotesOnIncompleteBook
  BY DEF QuotesInv
<1>. QED  BY QuotesInit, StepKeepsQuotes, <1>1, PTL DEF FeedSpec

----------------------------------------------------------------------------

LEMMA StepKeepsOperatorStop ==
  [FeedNext]_feedVars /\ killSwitch = "operator" /\ ~pauseActive
    => AllowStrategy \/ (killSwitch' = "operator" /\ ~pauseActive')
<1> SUFFICES ASSUME [FeedNext]_feedVars, killSwitch = "operator", ~pauseActive, ~AllowStrategy
             PROVE  killSwitch' = "operator" /\ ~pauseActive'
  OBVIOUS
<1>1. CASE \E datagram \in {Undecodable} \cup 1 .. LastSequence : Receive(datagram)
  BY <1>1 DEF Receive, strategyVars
<1>2. CASE StopStrategy
  BY <1>2 DEF StopStrategy, Killed
<1>3. CASE CallProcess \/ PopUndecodable \/ FeedHealthy \/ Retried
  BY <1>3 DEF CallProcess, PopUndecodable, FeedHealthy, Retried, strategyVars
<1>4. CASE PopEvent \/ Retry
  BY <1>4 DEF PopEvent, Retry
<1>5. CASE FeedFailed \/ FeedRecovering
  BY <1>5 DEF FeedFailed, FeedRecovering, Paused
<1>6. CASE Publish
  BY <1>6 DEF Publish, StillPaused, SwitchAfterResume
<1>7. CASE QueueEmpty
  BY <1>7 DEF QueueEmpty, Paused
<1>8. CASE UNCHANGED feedVars
  BY <1>8 DEF feedVars, strategyVars
<1>. QED
  BY <1>1, <1>2, <1>3, <1>4, <1>5, <1>6, <1>7, <1>8 DEF FeedNext, Process

\* The processor never lifts, nor takes for its own, a kill switch that was on
\* for another reason when the feed noticed a gap.
THEOREM FeedKeepsOperatorStop == FeedSpec => OperatorStopKept
  BY StepKeepsOperatorStop, PTL DEF FeedSpec, OperatorStopKept

----------------------------------------------------------------------------

LEMMA DrainGivesState ==
  ASSUME NEW held, NEW counted, Sequencer!Drain(held, counted)
  PROVE  state' \in FeedState
  BY DEF Sequencer!Drain, Sequencer!FeedStateFor, FeedState

LEMMA SequencerGivesState ==
  ASSUME state \in FeedState, NEW sequence,
         Sequencer!OnEvent(sequence) \/ Sequencer!RetryRecovery
  PROVE  state' \in FeedState
<1>1. CASE Sequencer!ExpectedEvent(sequence)
  BY <1>1, DrainGivesState DEF Sequencer!ExpectedEvent
<1>2. CASE Sequencer!RetryRecovery
  BY <1>2, DrainGivesState DEF Sequencer!RetryRecovery
<1>3. CASE \/ Sequencer!OldEvent(sequence) \/ Sequencer!TooFarAhead(sequence)
           \/ Sequencer!HeldEvent(sequence) \/ Sequencer!EarlyEvent(sequence)
  BY <1>3 DEF Sequencer!OldEvent, Sequencer!TooFarAhead, Sequencer!HeldEvent,
              Sequencer!EarlyEvent, FeedState
<1>. QED  BY <1>1, <1>2, <1>3 DEF Sequencer!OnEvent

LEMMA RecordsInit == FeedInit => RecordsInv
  BY DEF FeedInit, Sequencer!Init, RecordsInv, RecoveryRecordsPaired, FeedState

\* RecordsInv is inductive.
LEMMA StepKeepsRecords == RecordsInv /\ [FeedNext]_feedVars => RecordsInv'
<1> SUFFICES ASSUME RecordsInv, [FeedNext]_feedVars PROVE RecordsInv'
  OBVIOUS
<1> USE DEF RecordsInv, RecoveryRecordsPaired
<1>1. CASE \E datagram \in {Undecodable} \cup 1 .. LastSequence : Receive(datagram)
  BY <1>1 DEF Receive, sequencerVars
<1>2. CASE StopStrategy \/ AllowStrategy
  <2>1. UNCHANGED <<state, pc, telemetryActive>>
    BY <1>2 DEF StopStrategy, AllowStrategy, sequencerVars
  <2>. QED  BY <2>1
<1>3. CASE CallProcess \/ PopUndecodable \/ FeedHealthy
  BY <1>3 DEF CallProcess, PopUndecodable, FeedHealthy, sequencerVars
<1>4. CASE PopEvent
  <2>1. state' \in FeedState
    BY <1>4, SequencerGivesState DEF PopEvent, sequencerVars
  <2>2. telemetryActive' = telemetryActive /\ pc' = "dispatching"
    BY <1>4 DEF PopEvent
  <2>. QED  BY <2>1, <2>2
<1>5. CASE FeedFailed \/ FeedRecovering
  BY <1>5 DEF FeedFailed, FeedRecovering, sequencerVars
<1>6. CASE Retry
  <2>1. state' \in FeedState
    BY <1>6, SequencerGivesState DEF Retry
  <2>2. telemetryActive' = telemetryActive /\ pc' = "retried" /\ pc = "retrying"
    BY <1>6 DEF Retry
  <2>. QED  BY <2>1, <2>2
<1>7. CASE Retried
  BY <1>7 DEF Retried, ClosedByFailure, NextIteration, sequencerVars, FeedState
<1>8. CASE Publish
  <2>1. pc = "publishing" /\ state' = state /\ telemetryActive' = FALSE
    BY <1>8 DEF Publish, sequencerVars
  <2>2. pc' \in {"popping", "away"}
    BY <1>8 DEF Publish, NextIteration
  <2>. QED  BY <2>1, <2>2
<1>9. CASE QueueEmpty
  BY <1>9 DEF QueueEmpty, IdleRetryDue, sequencerVars
<1>10. CASE UNCHANGED feedVars
  BY <1>10 DEF feedVars, sequencerVars
<1>. QED
  BY <1>1, <1>2, <1>3, <1>4, <1>5, <1>6, <1>7, <1>8, <1>9, <1>10 DEF FeedNext, Process

\* Every gap_start is followed by its gap_end or gap_failed before the next
\* datagram is taken or the call returns.
THEOREM FeedRecordsPaired == FeedSpec => []RecoveryRecordsPaired
<1>1. RecordsInv => RecoveryRecordsPaired
  BY DEF RecordsInv
<1>. QED  BY RecordsInit, StepKeepsRecords, <1>1, PTL DEF FeedSpec

----------------------------------------------------------------------------
(* The record of a gap starts at a gap                                     *)

\* A healthy feed holds nothing, so it starts to recover only by an event ahead
\* of the one expected.
GapInv ==
  /\ RecordsInv
  /\ expected \in Int
  /\ state = "Healthy" => buffer = {}
  /\ pc = "dispatching" /\ state = "Recovering" /\ ~telemetryActive
       => current > expected

LEMMA DrainIsTrue ==
  ASSUME expected \in Int, NEW held, NEW counted, Sequencer!Drain(held, counted)
  PROVE  /\ expected' \in Int
         /\ state' = "Healthy" => buffer' = {}
         /\ held = {expected} => state' # "Recovering"
<1>. USE SequencerAssumption
<1>1. PICK stop \in expected .. LastSequence + 1 :
        /\ expected' = IF stop > LastSequence THEN LastSequence ELSE stop
        /\ buffer' = Sequencer!HeldAfter(held, stop)
        /\ state' = IF stop \in held \/ stop > LastSequence
                      THEN "Failed"
                      ELSE Sequencer!FeedStateFor(Sequencer!HeldAfter(held, stop))
  BY DEF Sequencer!Drain
<1>2. expected' \in Int
  BY <1>1
<1>3. state' = "Healthy" => buffer' = {}
  BY <1>1 DEF Sequencer!FeedStateFor
<1>4. held = {expected} => Sequencer!HeldAfter(held, stop) = {}
  BY DEF Sequencer!HeldAfter
<1>5. held = {expected} => state' # "Recovering"
  BY <1>1, <1>4 DEF Sequencer!FeedStateFor
<1>. QED  BY <1>2, <1>3, <1>5

LEMMA SequencerKeepsGap ==
  ASSUME expected \in Int, state \in FeedState, state = "Healthy" => buffer = {},
         NEW sequence,
         Sequencer!OnEvent(sequence) \/ Sequencer!RetryRecovery
  PROVE  /\ expected' \in Int
         /\ state' = "Healthy" => buffer' = {}
         /\ Sequencer!OnEvent(sequence) /\ state # "Recovering" /\ state' = "Recovering"
              => sequence > expected'
<1>1. CASE Sequencer!ExpectedEvent(sequence)
  <2>1. Sequencer!Drain(buffer \cup {sequence}, Sequencer!Received)
        /\ sequence = expected /\ state # "Failed"
    BY <1>1 DEF Sequencer!ExpectedEvent, Sequencer!Listening
  <2>2. state # "Recovering" => buffer \cup {sequence} = {expected}
    BY <2>1 DEF FeedState
  <2>. QED  BY <2>1, <2>2, DrainIsTrue
<1>2. CASE Sequencer!RetryRecovery /\ ~Sequencer!OnEvent(sequence)
  BY <1>2, DrainIsTrue DEF Sequencer!RetryRecovery
<1>3. CASE Sequencer!OldEvent(sequence) \/ Sequencer!HeldEvent(sequence)
  BY <1>3 DEF Sequencer!OldEvent, Sequencer!HeldEvent
<1>4. CASE Sequencer!TooFarAhead(sequence) \/ Sequencer!EarlyEvent(sequence)
  BY <1>4 DEF Sequencer!TooFarAhead, Sequencer!EarlyEvent
<1>. QED  BY <1>1, <1>2, <1>3, <1>4 DEF Sequencer!OnEvent

LEMMA GapInit == FeedInit => GapInv
<1>1. FeedInit => expected = FirstSequence /\ buffer = {} /\ pc = "away"
  BY DEF FeedInit, Sequencer!Init
<1>2. FirstSequence \in Int
  BY SequencerAssumption
<1>. QED  BY RecordsInit, <1>1, <1>2 DEF GapInv

\* GapInv is inductive.
LEMMA StepKeepsGap == GapInv /\ [FeedNext]_feedVars => GapInv'
<1> SUFFICES ASSUME GapInv, [FeedNext]_feedVars PROVE GapInv'
  OBVIOUS
<1>0. RecordsInv'
  BY StepKeepsRecords DEF GapInv
<1>1. CASE \E datagram \in {Undecodable} \cup 1 .. LastSequence : Receive(datagram)
  BY <1>0, <1>1 DEF GapInv, Receive, sequencerVars
<1>2. CASE StopStrategy \/ AllowStrategy
  BY <1>0, <1>2 DEF GapInv, StopStrategy, AllowStrategy, sequencerVars
<1>3. CASE CallProcess \/ PopUndecodable \/ FeedHealthy
  BY <1>0, <1>3 DEF GapInv, CallProcess, PopUndecodable, FeedHealthy, sequencerVars
<1>4. CASE PopEvent
  <2>1. /\ pc = "popping" /\ current' = Head(queue) /\ telemetryActive' = telemetryActive
        /\ IF state = "Failed" THEN UNCHANGED sequencerVars
                               ELSE Sequencer!OnEvent(Head(queue))
    BY <1>4 DEF PopEvent, sequencerVars
  <2>2. state = "Recovering" <=> telemetryActive
    BY <2>1 DEF GapInv, RecordsInv, RecoveryRecordsPaired
  <2>3. CASE state = "Failed"
    BY <1>0, <2>1, <2>3 DEF GapInv, sequencerVars
  <2>4. CASE state # "Failed"
    <3>1. Sequencer!OnEvent(Head(queue))
      BY <2>1, <2>4
    <3>. QED  BY <1>0, <2>1, <2>2, <3>1, SequencerKeepsGap DEF GapInv, RecordsInv
  <2>. QED  BY <2>3, <2>4
<1>5. CASE FeedFailed \/ FeedRecovering
  BY <1>0, <1>5 DEF GapInv, FeedFailed, FeedRecovering, sequencerVars
<1>6. CASE Retry
  <2>1. Sequencer!RetryRecovery /\ pc' = "retried"
    BY <1>6 DEF Retry
  <2>. QED  BY <1>0, <2>1, SequencerKeepsGap DEF GapInv, RecordsInv
<1>7. CASE Retried
  BY <1>0, <1>7 DEF GapInv, Retried, NextIteration, sequencerVars
<1>8. CASE Publish
  BY <1>0, <1>8 DEF GapInv, Publish, NextIteration, sequencerVars
<1>9. CASE QueueEmpty
  BY <1>0, <1>9 DEF GapInv, QueueEmpty, sequencerVars
<1>10. CASE UNCHANGED feedVars
  BY <1>0, <1>10 DEF GapInv, feedVars, sequencerVars
<1>. QED
  BY <1>1, <1>2, <1>3, <1>4, <1>5, <1>6, <1>7, <1>8, <1>9, <1>10 DEF FeedNext, Process

LEMMA GapOpensAhead ==
  GapInv /\ [FeedNext]_feedVars
    => [~telemetryActive /\ telemetryActive' => current > expected]_feedVars
<1> SUFFICES ASSUME GapInv, FeedNext, ~telemetryActive, telemetryActive'
             PROVE  current > expected
  OBVIOUS
<1>1. FeedRecovering
  <2>1. CASE \E datagram \in {Undecodable} \cup 1 .. LastSequence : Receive(datagram)
    BY <2>1 DEF Receive
  <2>2. CASE StopStrategy \/ AllowStrategy \/ CallProcess \/ PopUndecodable \/ PopEvent
    BY <2>2 DEF StopStrategy, AllowStrategy, CallProcess, PopUndecodable, PopEvent
  <2>3. CASE FeedFailed \/ FeedHealthy \/ Retry \/ Retried \/ Publish \/ QueueEmpty
    BY <2>3 DEF FeedFailed, FeedHealthy, Retry, Retried, ClosedByFailure, Publish, QueueEmpty
  <2>. QED  BY <2>1, <2>2, <2>3 DEF FeedNext, Process
<1>. QED  BY <1>1 DEF FeedRecovering, GapInv

\* The event a gap_start is recorded with is ahead of the one expected: the size
\* of the gap that is reported is never the fallback.
THEOREM FeedGapIsAGap == FeedSpec => GapStartsAtAGap
  BY GapInit, StepKeepsGap, GapOpensAhead, PTL DEF FeedSpec, GapStartsAtAGap

----------------------------------------------------------------------------
(* Between the calls of processAvailable the sequencer is the sequencer    *)

Datagrams == {Undecodable} \cup 1 .. LastSequence

QueueInv == queue \in Seq(Datagrams)

LEMMA QueueInit == FeedInit => QueueInv
<1>1. << >> \in Seq(Datagrams)
  OBVIOUS
<1>. QED  BY <1>1 DEF FeedInit, QueueInv

LEMMA StepKeepsQueue == QueueInv /\ [FeedNext]_feedVars => QueueInv'
<1> SUFFICES ASSUME QueueInv, [FeedNext]_feedVars PROVE QueueInv'
  OBVIOUS
<1>. USE DEF QueueInv
<1>1. ASSUME NEW datagram \in Datagrams, Receive(datagram) PROVE QueueInv'
  BY <1>1 DEF Receive
<1>2. CASE PopUndecodable \/ PopEvent
  BY <1>2 DEF PopUndecodable, PopEvent
<1>3. CASE StopStrategy \/ AllowStrategy \/ CallProcess \/ FeedFailed \/ FeedRecovering
           \/ FeedHealthy
  BY <1>3 DEF StopStrategy, AllowStrategy, CallProcess, FeedFailed, FeedRecovering, FeedHealthy
<1>4. CASE Retry \/ Retried \/ Publish \/ QueueEmpty \/ UNCHANGED feedVars
  BY <1>4 DEF Retry, Retried, Publish, QueueEmpty, feedVars
<1>. QED  BY <1>1, <1>2, <1>3, <1>4 DEF FeedNext, Process, Datagrams

\* The times of the events and of what the strategy has been told.
TimesInv == QueueInv /\ lastTimestamp \in Nat /\ lastMarketUpdate \in Nat

\* Nothing has been seen and nothing told.
LEMMA TimesInit == FeedInit => TimesInv
<1> SUFFICES ASSUME FeedInit PROVE TimesInv
  OBVIOUS
<1>1. lastTimestamp = 0 /\ lastMarketUpdate = 0
  BY DEF FeedInit
<1>. QED  BY QueueInit, <1>1 DEF TimesInv

\* A new time is that of an event.
LEMMA StepKeepsTimes == TimesInv /\ [FeedNext]_feedVars => TimesInv'
<1> SUFFICES ASSUME TimesInv, [FeedNext]_feedVars PROVE TimesInv'
  OBVIOUS
<1>1. QueueInv /\ QueueInv' /\ lastTimestamp \in Nat /\ lastMarketUpdate \in Nat
  BY StepKeepsQueue DEF TimesInv
<1>2. CASE \E datagram \in {Undecodable} \cup 1 .. LastSequence : Receive(datagram)
  BY <1>1, <1>2 DEF TimesInv, Receive, strategyVars
<1>3. CASE PopEvent
  <2>1. Head(queue) \in 1 .. LastSequence
    BY <1>1, <1>3 DEF PopEvent, QueueInv, Datagrams
  <2>2. lastTimestamp' \in Nat /\ UNCHANGED lastMarketUpdate
    BY <1>3, <2>1, UdpFeedAssumption DEF PopEvent
  <2>. QED  BY <1>1, <2>2 DEF TimesInv
<1>4. CASE StopStrategy \/ AllowStrategy \/ CallProcess \/ PopUndecodable
  BY <1>1, <1>4 DEF TimesInv, StopStrategy, AllowStrategy, CallProcess, PopUndecodable,
                    strategyVars
<1>5. CASE FeedFailed \/ FeedRecovering \/ FeedHealthy \/ Retry \/ Retried \/ QueueEmpty
  BY <1>1, <1>5 DEF TimesInv, FeedFailed, FeedRecovering, FeedHealthy, Retry, Retried,
                    QueueEmpty, strategyVars
<1>6. CASE Publish
  BY <1>1, <1>6 DEF TimesInv, Publish, Later
<1>7. CASE UNCHANGED feedVars
  BY <1>1, <1>7 DEF TimesInv, feedVars, strategyVars
<1>. QED
  BY <1>2, <1>3, <1>4, <1>5, <1>6, <1>7 DEF FeedNext, Process

\* Quotes made at a publication are not older than what was told before it.
LEMMA PublishedQuotesAreCurrent ==
  TimesInv /\ [FeedNext]_feedVars
    => [UpdateStrategy /\ pc = "publishing" /\ pc' # pc /\ quoting'
          => lastTimestamp >= lastMarketUpdate]_feedVars
<1> SUFFICES ASSUME TimesInv, FeedNext, UpdateStrategy, pc = "publishing", pc' # pc, quoting'
             PROVE  lastTimestamp >= lastMarketUpdate
  OBVIOUS
<1>1. Publish
  <2>1. CASE \E datagram \in {Undecodable} \cup 1 .. LastSequence : Receive(datagram)
    BY <2>1 DEF Receive
  <2>2. CASE StopStrategy \/ AllowStrategy \/ Process
    BY <2>2 DEF StopStrategy, AllowStrategy, Process, CallProcess, PopUndecodable, PopEvent,
                FeedFailed, FeedRecovering, FeedHealthy, Retry, Retried, QueueEmpty
  <2>. QED  BY <2>1, <2>2 DEF FeedNext
<1>2. /\ lastMarketUpdate' = Later(lastTimestamp, lastMarketUpdate)
      /\ Refreshes(killSwitch', lastMarketUpdate', lastTimestamp)
  BY <1>1 DEF Publish
<1>3. lastTimestamp >= Later(lastTimestamp, lastMarketUpdate)
  BY <1>2 DEF Refreshes
<1>. QED  BY <1>3 DEF TimesInv, Later

\* A late event, a duplicate or the one that completes a recovery, leaves the
\* strategy without quotes.
THEOREM FeedQuotesAreCurrent == FeedSpec => QuotesAreCurrent
  BY TimesInit, StepKeepsTimes, PublishedQuotesAreCurrent, PTL DEF FeedSpec, QuotesAreCurrent

LEMMA StepIsSequencerStep == QueueInv /\ [FeedNext]_feedVars => [Sequencer!Next]_sequencerVars
<1> SUFFICES ASSUME QueueInv, [FeedNext]_feedVars PROVE [Sequencer!Next]_sequencerVars
  OBVIOUS
<1>1. CASE \E datagram \in {Undecodable} \cup 1 .. LastSequence : Receive(datagram)
  BY <1>1 DEF Receive
<1>2. CASE PopEvent
  <2>1. Head(queue) \in Sequencer!Sequences
    BY <1>2 DEF PopEvent, QueueInv, Datagrams, Sequencer!Sequences
  <2>2. UNCHANGED sequencerVars \/ Sequencer!OnEvent(Head(queue))
    BY <1>2 DEF PopEvent
  <2>. QED  BY <2>1, <2>2 DEF Sequencer!Next
<1>3. CASE Retry
  BY <1>3 DEF Retry, Sequencer!Next
<1>4. CASE StopStrategy \/ AllowStrategy \/ CallProcess \/ PopUndecodable
           \/ FeedFailed \/ FeedRecovering \/ FeedHealthy
  BY <1>4 DEF StopStrategy, AllowStrategy, CallProcess, PopUndecodable, FeedFailed,
              FeedRecovering, FeedHealthy
<1>5. CASE Retried \/ Publish \/ QueueEmpty \/ UNCHANGED feedVars
  BY <1>5 DEF Retried, Publish, QueueEmpty, feedVars
<1>. QED  BY <1>1, <1>2, <1>3, <1>4, <1>5 DEF FeedNext, Process

\* Whatever the strategy, the receiver and the other users do, the processing
\* thread drives the sequencer only as the sequencer's own specification
\* allows: all that is proved of RecoverySequencer holds inside the feed.
THEOREM FeedDrivesTheSequencer == FeedSpec => Sequencer!Spec
<1>1. FeedInit => Sequencer!Init
  BY DEF FeedInit
<1>2. QueueInv /\ [FeedNext]_feedVars => [Sequencer!Next]_(Sequencer!vars)
  BY StepIsSequencerStep DEF Sequencer!vars, sequencerVars
<1>. QED
  BY <1>1, <1>2, QueueInit, StepKeepsQueue, PTL
     DEF FeedSpec, Sequencer!Spec
=============================================================================
