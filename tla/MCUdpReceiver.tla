--------------------------- MODULE MCUdpReceiver ---------------------------
(* A ring of three slots, which wraps around more than once.               *)
EXTENDS UdpReceiver
=============================================================================
