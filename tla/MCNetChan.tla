----------------------------- MODULE MCNetChan ------------------------------
(* A small instance of NetChan: fragments of two bytes, and messages of no  *)
(* byte, of one, of exactly one and two fragments and of two and a half.    *)
(* Every byte names its message and its place, so a splice is visible.      *)
EXTENDS NetChan

CONSTANTS m1, m2

MCByte == {m1, m2} \X (1 .. 5)
MCMessage ==
    {[i \in 1 .. n |-> <<m, i>>] : m \in {m1, m2}, n \in {0, 1, 2, 4, 5}}
=============================================================================
