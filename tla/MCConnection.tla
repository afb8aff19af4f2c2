---------------------------- MODULE MCConnection ----------------------------
(* One connect by the user, of a new client or after a crash, one duplicate *)
(* and one client dropped.  The limits of the first three are those of the  *)
(* code, in seconds; the timeouts stand for 200 seconds.                    *)
EXTENDS Connection
=============================================================================
