--------------------------- MODULE MessageChannel ---------------------------
(***************************************************************************)
(* What Shared/net_chan.c promises the two ends of a connection, without   *)
(* sequence numbers, fragments or buffers: an unreliable, ordered channel  *)
(* of whole messages.  A message may be lost, but what arrives is a        *)
(* subsequence of what was sent, every message complete and at most once.  *)
(***************************************************************************)
EXTENDS Naturals, Sequences

CONSTANT Message

VARIABLES
    sent,      \* every message handed to the channel, in order
    lastRead,  \* the position in sent of the last message that arrived, or 0
    arrived    \* the messages that arrived, in order of arrival

vars == <<sent, lastRead, arrived>>

TypeOK ==
    /\ sent \in Seq(Message)
    /\ lastRead \in 0 .. Len(sent)
    /\ arrived \in Seq(Message)

Init ==
    /\ sent = <<>>
    /\ lastRead = 0
    /\ arrived = <<>>

(* The sender hands the channel one more message. *)
Send(m) ==
    /\ sent' = Append(sent, m)
    /\ UNCHANGED <<lastRead, arrived>>

(* Message number i arrives; the ones it overtakes are lost for good. *)
Receive(i) ==
    /\ i > lastRead
    /\ lastRead' = i
    /\ arrived' = Append(arrived, sent[i])
    /\ UNCHANGED sent

Next ==
    \/ \E m \in Message : Send(m)
    \/ \E i \in DOMAIN sent : Receive(i)

Spec == Init /\ [][Next]_vars
=============================================================================
