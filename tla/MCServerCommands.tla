-------------------------- MODULE MCServerCommands --------------------------
(* Small instances of ServerCommands: one command more than the window      *)
(* holds, so that both rings are reused and the window overflows; one       *)
(* message in flight each way besides the one whose fragments are going     *)
(* out; a gamestate that collides with a fragmented snapshot, and one that  *)
(* is sent to a client that is already in the game.                         *)
EXTENDS ServerCommands
=============================================================================
