-------------------------- MODULE MCClientCommands --------------------------
(* A window of two commands and three commands to send, so that the ring is *)
(* reused; two messages in flight each way; a gamestate that collides with  *)
(* a fragmented snapshot.                                                   *)
EXTENDS ClientCommands
=============================================================================
