----------------------------- MODULE FifoQueue -----------------------------
(***************************************************************************)
(* What the ring buffer promises its one producer and its one consumer: a  *)
(* bounded queue.  A value is first offered; while there is room it may be *)
(* accepted, once; accepted values are delivered once each, oldest first.  *)
(* An offer that finds no room is not made.                                *)
(***************************************************************************)
EXTENDS Naturals, Sequences

CONSTANTS Values, Bound

VARIABLES
  queue,     \* accepted and not yet delivered, oldest first
  offered,   \* << >> or the value the producer is pushing
  delivered  \* << >> or the last value the consumer popped

fifoVars == <<queue, offered, delivered>>

Offer(v) ==
  /\ offered = << >>
  /\ Len(queue) < Bound
  /\ offered' = <<v>>
  /\ UNCHANGED <<queue, delivered>>

Accept ==
  /\ offered # << >>
  /\ Len(queue) < Bound
  /\ queue' = queue \o offered
  /\ offered' = << >>
  /\ UNCHANGED delivered

Deliver ==
  /\ queue # << >>
  /\ delivered' = <<Head(queue)>>
  /\ queue' = Tail(queue)
  /\ UNCHANGED offered

Init == queue = << >> /\ offered = << >> /\ delivered = << >>

Next == (\E v \in Values : Offer(v)) \/ Accept \/ Deliver

Spec == Init /\ [][Next]_fifoVars
=============================================================================
