------------------------ MODULE MCRecoverySequencer ------------------------
(***************************************************************************)
(* A feed of six sequence numbers starting at 2, so that an event older    *)
(* than the first expected exists, with a window of three.                 *)
(***************************************************************************)
EXTENDS RecoverySequencer
=============================================================================
