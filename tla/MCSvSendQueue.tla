--------------------------- MODULE MCSvSendQueue ----------------------------
(* Snapshots that fit one datagram or take two or three, and gamestates of  *)
(* two or three.                                                            *)
EXTENDS SvSendQueue
=============================================================================
