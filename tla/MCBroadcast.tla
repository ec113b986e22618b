---------------------------- MODULE MCBroadcast ----------------------------
(* The instance of Broadcast for TLC: two websockets. *)
EXTENDS Broadcast
=============================================================================
