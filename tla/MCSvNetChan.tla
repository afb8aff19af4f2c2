---------------------------- MODULE MCSvNetChan -----------------------------
(* A small instance of SvNetChan: fragments of two bytes, snapshots that   *)
(* take one datagram or four (the last one empty), gamestates that take    *)
(* two or three.                                                           *)
EXTENDS SvNetChan

MCBytes(kind, n) == [i \in 1 .. n |-> <<kind, i>>]

MCByte == {"snapshot", "gamestate"} \X (1 .. 6)
MCSnapshot == {MCBytes("snapshot", n) : n \in {1, 6}}
MCGameState == {MCBytes("gamestate", n) : n \in {3, 5}}
MCMessage == MCSnapshot \cup MCGameState
=============================================================================
