------------------------------ MODULE SendPath ------------------------------
(***************************************************************************)
(* The server's send path to one client with what its messages say: the    *)
(* message whose fragments are going out, the queue of messages that wait  *)
(* (not encoded yet) and the messages in flight, which the client receives *)
(* in this order if at all.  NetChan and SvNetChan show that the channel   *)
(* behaves so.  Engine/server/sv_net_chan.c, as operators on a value, for  *)
(* ClientCommands and ServerCommands.                                      *)
(*                                                                         *)
(* A message is a record with the field datagrams, how many it takes, and  *)
(* the field key, what SV_Netchan_Encode mixes into its body.              *)
(***************************************************************************)
EXTENDS Naturals, Sequences

CONSTANT MaxInFlight  \* bound of the model: messages in flight each way

ASSUME SendPathAssumption == MaxInFlight \in Nat \ {0}

(* One message more in flight; at the bound the oldest one is lost. *)
Flying(flight, m) ==
    IF Len(flight) < MaxInFlight THEN Append(flight, m)
    ELSE Append(Tail(flight), m)

(* SV_Netchan_Encode and Netchan_Transmit: current is the message whose    *)
(* fragments are going out, left how many of them still have to.           *)
Transmitted(s, m, key) ==
    LET encoded == [m EXCEPT !.key = key]
    IN  IF m.datagrams = 1
        THEN [s EXCEPT !.flight = Flying(@, encoded)]
        ELSE [s EXCEPT !.left = m.datagrams - 1, !.current = <<encoded>>]

(* Seeded fault: the message that went out is still the current one. *)
FragmentSentKept(s) ==
    IF s.left > 1
    THEN [s EXCEPT !.left = @ - 1]
    ELSE [s EXCEPT !.left = 0, !.flight = Flying(@, s.current[1])]

(* Netchan_TransmitNextFragment: a message is whole with its last fragment. *)
FragmentSent(s) ==
    IF s.left > 1
    THEN [s EXCEPT !.left = @ - 1]
    ELSE [s EXCEPT !.left = 0,
                   !.current = <<>>,
                   !.flight = Flying(@, s.current[1])]

(* SV_Netchan_TransmitNextFragment. *)
SvTransmitNextFragment(s, key) ==
    LET next == FragmentSent(s)
    IN  IF next.left = 0 /\ next.queue # <<>>
        THEN [Transmitted(next, Head(next.queue), key) EXCEPT !.queue = Tail(@)]
        ELSE next

(* SV_Netchan_Transmit: a message that has to wait "is encoded and sent     *)
(* later".                                                                  *)
SvTransmit(s, m, key) ==
    IF s.left > 0
    THEN [FragmentSent(s) EXCEPT !.queue = Append(@, m)]
    ELSE Transmitted(s, m, key)

IdlePath == [left |-> 0, current |-> <<>>, queue |-> <<>>, flight |-> <<>>]

(* A queue is stranded once no fragment is left to pull it along: the next *)
(* messages overtake it.                                                   *)
Strands(s) == s.left = 0 /\ s.queue # <<>>

(* Message i arrives; the older ones count as lost from then on. *)
AfterArrival(flight, i) == SubSeq(flight, i + 1, Len(flight))

AfterLoss(flight, i) == SubSeq(flight, 1, i - 1) \o AfterArrival(flight, i)
=============================================================================
