---------------------------- MODULE MCGameState ----------------------------
(* One map change, a map_restart besides that at the start, and one          *)
(* configstring change, in any order; one message in flight each way.        *)
EXTENDS GameState
=============================================================================
