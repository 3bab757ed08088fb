----------------------------- MODULE MCUdpFeed -----------------------------
(***************************************************************************)
(* Any three of five events and one datagram that cannot be decoded, with a*)
(* window of two: gaps, duplicates, overflows, misses and a second gap     *)
(* after a recovery all happen.  Only the head of the queue is looked at   *)
(* and the receiver can fill it between any two steps, so one place in it  *)
(* is enough.  Neighbours share a timestamp; a late event has an older one.*)
(***************************************************************************)
EXTENDS UdpFeed

Increasing == [s \in 1 .. LastSequence |-> (s + 2) \div 2]

\* A source that stamps its events with 0: decodeEventRecord accepts them.
Unstamped == [s \in 1 .. LastSequence |-> 0]
=============================================================================
