--------------------------- MODULE CommandStream ----------------------------
(***************************************************************************)
(* What the reliable commands of a connection promise, whatever datagrams  *)
(* are lost: the receiver executes the commands the sender added, in the   *)
(* order they were added, each once and with its own text, up to the       *)
(* moment the receiver closes the connection.                              *)
(***************************************************************************)
EXTENDS Naturals, Sequences

VARIABLES
    added,     \* how many commands were added
    executed,  \* the commands the receiver executed
    closed     \* the receiver has given the connection up

vars == <<added, executed, closed>>

Init ==
    /\ added = 0
    /\ executed = <<>>
    /\ closed = FALSE

Add ==
    /\ added' = added + 1
    /\ UNCHANGED <<executed, closed>>

(* The receiver executes the next n commands, and may close after them. *)
Execute(n) ==
    /\ ~closed
    /\ Len(executed) + n <= added
    /\ executed' = executed \o [i \in 1 .. n |-> Len(executed) + i]
    /\ closed' \in BOOLEAN
    /\ UNCHANGED added

Next ==
    \/ Add
    \/ \E n \in 0 .. added : Execute(n)

Spec == Init /\ [][Next]_vars
=============================================================================
