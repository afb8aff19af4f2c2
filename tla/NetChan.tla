------------------------------ MODULE NetChan -------------------------------
(***************************************************************************)
(* One direction of a network channel: the outgoing half of the sender's   *)
(* netchan_t, the datagrams in flight, and the incoming half of the        *)
(* receiver's netchan_t (Shared/net_chan.c).                               *)
(*                                                                         *)
(* A message shorter than FRAGMENT_SIZE travels in one datagram.  A longer *)
(* one is cut into fragments that share one sequence number; the last      *)
(* fragment is the one shorter than FRAGMENT_SIZE, so a message whose      *)
(* length is an exact multiple ends with an empty fragment.                *)
(*                                                                         *)
(* The network is a set of datagrams that only grows: the receiver may     *)
(* process any of them at any time, once, again, or never, which is loss,  *)
(* duplication and reordering of UDP in one variable.                      *)
(***************************************************************************)
EXTENDS Integers, Sequences

CONSTANTS
    Byte,          \* what a message is made of
    Message,       \* the messages the two ends exchange
    FragmentSize,  \* FRAGMENT_SIZE, MAX_PACKETLEN - 100 in the code
    MaxMsgLen,     \* MAX_MSGLEN, the size of unsentBuffer and fragmentBuffer
    MaxMessages    \* bound of the model: messages sent on the channel

(* Every caller of Netchan_Transmit builds its message in a buffer of      *)
(* MAX_MSGLEN bytes, so its length error is never raised.                  *)
ASSUME NetChanAssumption ==
    /\ FragmentSize \in Nat \ {0}
    /\ MaxMsgLen \in Nat
    /\ MaxMessages \in Nat
    /\ Message \subseteq Seq(Byte)
    /\ \A m \in Message : Len(m) <= MaxMsgLen

VARIABLES
    out,       \* the sender's half: outgoingSequence, unsent*
    network,   \* every datagram that was sent
    in,        \* the receiver's half: incomingSequence, fragment*
    sent,      \* history: the message that carries sequence number i is sent[i]
    delivered  \* history: what Netchan_Process handed to its caller

vars == <<out, network, in, sent, delivered>>

(* unsentLength is Len(unsentBuffer); fragmentLength is Len(fragmentBuffer). *)
OutHalf == [outgoingSequence    : Nat \ {0},
            unsentFragments     : BOOLEAN,
            unsentFragmentStart : Nat,
            unsentBuffer        : Message \cup {<<>>}]

InHalf == [incomingSequence : Nat,
           fragmentSequence : Nat,
           fragmentBuffer   : Seq(Byte)]

Packet == [sequence   : Nat \ {0},
           fragmented : BOOLEAN,
           start      : Nat,
           data       : Seq(Byte)]

Delivery == [sequence : Nat \ {0}, data : Seq(Byte)]

TypeOK ==
    /\ out \in OutHalf
    /\ network \subseteq Packet
    /\ in \in InHalf
    /\ sent \in Seq(Message)
    /\ delivered \in Seq(Delivery)

-----------------------------------------------------------------------------
(* Netchan_Setup. *)

(* Seeded fault: the first message would carry sequence 0, never accepted. *)
SetupOutAtZero == [outgoingSequence    |-> 0,
                   unsentFragments     |-> FALSE,
                   unsentFragmentStart |-> 0,
                   unsentBuffer        |-> <<>>]

SetupOut == [outgoingSequence    |-> 1,
             unsentFragments     |-> FALSE,
             unsentFragmentStart |-> 0,
             unsentBuffer        |-> <<>>]

SetupIn == [incomingSequence |-> 0,
            fragmentSequence |-> 0,
            fragmentBuffer   |-> <<>>]

Init ==
    /\ out = SetupOut
    /\ network = {}
    /\ in = SetupIn
    /\ sent = <<>>
    /\ delivered = <<>>

-----------------------------------------------------------------------------
(* Sending.  The operators map a sender's half to the datagram a call puts *)
(* on the wire and to the half it leaves behind, so that the server's send *)
(* queue can make two calls in one step.                                   *)

(* The length Netchan_TransmitNextFragment gives the next fragment. *)
FragmentLength(c) ==
    IF c.unsentFragmentStart + FragmentSize > Len(c.unsentBuffer)
    THEN Len(c.unsentBuffer) - c.unsentFragmentStart
    ELSE FragmentSize

FragmentPacket(c) ==
    [sequence   |-> c.outgoingSequence,
     fragmented |-> TRUE,
     start      |-> c.unsentFragmentStart,
     data       |-> SubSeq(c.unsentBuffer, c.unsentFragmentStart + 1,
                           c.unsentFragmentStart + FragmentLength(c))]

(* Seeded fault: the end of the buffer ends the message. *)
EndsAtBufferEnd(c) ==
    c.unsentFragmentStart + FragmentLength(c) = Len(c.unsentBuffer)

(* The exit condition of Netchan_TransmitNextFragment: a full fragment is *)
(* never the last one, even when it ends the buffer.                      *)
IsLastFragment(c) ==
    /\ c.unsentFragmentStart + FragmentLength(c) = Len(c.unsentBuffer)
    /\ FragmentLength(c) # FragmentSize

AfterFragment(c) ==
    LET next == [c EXCEPT !.unsentFragmentStart = @ + FragmentLength(c)]
    IN  IF IsLastFragment(c)
        THEN [next EXCEPT !.outgoingSequence = @ + 1, !.unsentFragments = FALSE]
        ELSE next

(* Netchan_Transmit: a long message is copied to the buffer and only its *)
(* first fragment is sent now.                                           *)
NeedsFragments(m) == Len(m) >= FragmentSize

(* Seeded fault: the next message begins where the last one ended. *)
LoadedWithoutRewind(c, m) ==
    [c EXCEPT !.unsentFragments = TRUE, !.unsentBuffer = m]

Loaded(c, m) ==
    [outgoingSequence    |-> c.outgoingSequence,
     unsentFragments     |-> TRUE,
     unsentFragmentStart |-> 0,
     unsentBuffer        |-> m]

TransmitPacket(c, m) ==
    IF NeedsFragments(m)
    THEN FragmentPacket(Loaded(c, m))
    ELSE [sequence   |-> c.outgoingSequence,
          fragmented |-> FALSE,
          start      |-> 0,
          data       |-> m]

AfterTransmit(c, m) ==
    IF NeedsFragments(m)
    THEN AfterFragment(Loaded(c, m))
    ELSE [c EXCEPT !.unsentFragmentStart = 0,
                   !.outgoingSequence = @ + 1]

(* Netchan_Transmit.  The client has flushed every fragment of its last   *)
(* message when it sends another (CL_WritePacket), and the server queues  *)
(* the message instead (SV_Netchan_Transmit), so the channel is idle.     *)
Transmit(m) ==
    /\ ~out.unsentFragments
    /\ Len(sent) < MaxMessages
    /\ network' = network \cup {TransmitPacket(out, m)}
    /\ out' = AfterTransmit(out, m)
    /\ sent' = Append(sent, m)
    /\ UNCHANGED <<in, delivered>>

TransmitNextFragment ==
    /\ out.unsentFragments
    /\ network' = network \cup {FragmentPacket(out)}
    /\ out' = AfterFragment(out)
    /\ UNCHANGED <<in, sent, delivered>>

-----------------------------------------------------------------------------
(* Receiving: the paths through Netchan_Process.  The operators map a       *)
(* receiver's half c and a datagram p to what the call computes from them.  *)

(* "discard out of order or duplicated packets" *)
IsStale(c, p) == p.sequence <= c.incomingSequence

(* Seeded fault: the new sequence is noted, the old part is kept. *)
AssemblingOverOldPart(c, p) == [c EXCEPT !.fragmentSequence = p.sequence]

(* A fragment of another message than the one being assembled throws away *)
(* the part assembled so far.                                             *)
Assembling(c, p) ==
    IF p.sequence # c.fragmentSequence
    THEN [c EXCEPT !.fragmentSequence = p.sequence, !.fragmentBuffer = <<>>]
    ELSE c

(* The fragment continues what is assembled and still fits the buffer. *)
Continues(c, p) ==
    /\ p.start = Len(Assembling(c, p).fragmentBuffer)
    /\ Len(Assembling(c, p).fragmentBuffer) + Len(p.data) <= MaxMsgLen

Assembled(c, p) == Assembling(c, p).fragmentBuffer \o p.data

(* "if we missed a fragment, dump the message": the part so far is kept. *)
AfterMoreToFollow(c, p) ==
    [Assembling(c, p) EXCEPT
        !.fragmentBuffer = IF Continues(c, p) THEN Assembled(c, p) ELSE @]

Deliver(p, data) ==
    delivered' = Append(delivered, [sequence |-> p.sequence, data |-> data])

DiscardStale(p) ==
    /\ IsStale(in, p)
    /\ UNCHANGED vars

ProcessWhole(p) ==
    /\ ~IsStale(in, p)
    /\ ~p.fragmented
    /\ in' = [in EXCEPT !.incomingSequence = p.sequence]
    /\ Deliver(p, p.data)
    /\ UNCHANGED <<out, network, sent>>

(* A fragment that does not continue the message, or a full one: in both *)
(* cases nothing is handed over.                                         *)
ProcessFragment(p) ==
    /\ ~IsStale(in, p)
    /\ p.fragmented
    /\ Continues(in, p) => Len(p.data) = FragmentSize
    /\ in' = AfterMoreToFollow(in, p)
    /\ UNCHANGED <<out, network, sent, delivered>>

(* Seeded fault: a fragmented message is handed over but not acknowledged. *)
FinishUnacknowledged(p) ==
    /\ ~IsStale(in, p)
    /\ p.fragmented
    /\ Continues(in, p)
    /\ Len(p.data) # FragmentSize
    /\ in' = [Assembling(in, p) EXCEPT !.fragmentBuffer = <<>>]
    /\ Deliver(p, Assembled(in, p))
    /\ UNCHANGED <<out, network, sent>>

(* A short fragment ends the message.  It fits msg->data, whose maxsize is *)
(* MAX_MSGLEN too.                                                         *)
FinishMessage(p) ==
    /\ ~IsStale(in, p)
    /\ p.fragmented
    /\ Continues(in, p)
    /\ Len(p.data) # FragmentSize
    /\ in' = [Assembling(in, p) EXCEPT !.fragmentBuffer = <<>>,
                                       !.incomingSequence = p.sequence]
    /\ Deliver(p, Assembled(in, p))
    /\ UNCHANGED <<out, network, sent>>

Process(p) ==
    \/ DiscardStale(p)
    \/ ProcessWhole(p)
    \/ ProcessFragment(p)
    \/ FinishMessage(p)

-----------------------------------------------------------------------------
Next ==
    \/ \E m \in Message : Transmit(m)
    \/ TransmitNextFragment
    \/ \E p \in network : Process(p)

Spec == Init /\ [][Next]_vars

-----------------------------------------------------------------------------
(* Safety. *)

(* A message handed to the caller of Netchan_Process is, byte for byte, the *)
(* message the sender transmitted under that sequence number: fragments of  *)
(* different messages are never spliced, whatever the network reorders or   *)
(* repeats, and no message is cut short (net_chan.c:385-450).               *)
DeliveredIntact ==
    \A i \in DOMAIN delivered :
        /\ delivered[i].sequence \in DOMAIN sent
        /\ delivered[i].data = sent[delivered[i].sequence]

(* Messages are handed over in the order they were sent and none twice: a   *)
(* duplicated or late datagram never delivers again (net_chan.c:357-365).   *)
DeliveredInOrder ==
    \A i, j \in DOMAIN delivered :
        i < j => delivered[i].sequence < delivered[j].sequence

(* Every datagram carries the bytes of the message whose sequence it bears: *)
(* the whole message when it is short, else the slice its header names.     *)
IsSlice(log, p) ==
    /\ p.sequence \in DOMAIN log
    /\ LET m == log[p.sequence] IN
       IF p.fragmented
       THEN /\ NeedsFragments(m)
            /\ p.start + Len(p.data) <= Len(m)
            /\ p.data = SubSeq(m, p.start + 1, p.start + Len(p.data))
            /\ Len(p.data) <= FragmentSize
            /\ Len(p.data) # FragmentSize => p.start + Len(p.data) = Len(m)
       ELSE /\ ~NeedsFragments(m)
            /\ p.data = m

(* The sender's half agrees with the history: one sequence number for each  *)
(* message, and while fragments are left the buffer holds the last message. *)
SenderAgrees(log, c) ==
    /\ c.outgoingSequence = Len(log) + (IF c.unsentFragments THEN 0 ELSE 1)
    /\ c.unsentFragments =>
          /\ c.unsentBuffer = log[Len(log)]
          /\ NeedsFragments(c.unsentBuffer)
          /\ c.unsentFragmentStart <= Len(c.unsentBuffer)

(* The part assembled so far is a prefix of the message it belongs to.      *)
ReceiverAgrees(log, c) ==
    /\ c.incomingSequence <= Len(log)
    /\ c.fragmentBuffer # <<>> =>
          /\ c.fragmentSequence \in DOMAIN log
          /\ LET m == log[c.fragmentSequence] IN
             /\ Len(c.fragmentBuffer) <= Len(m)
             /\ c.fragmentBuffer = SubSeq(m, 1, Len(c.fragmentBuffer))

DeliveredInv ==
    /\ DeliveredIntact
    /\ DeliveredInOrder
    /\ \A i \in DOMAIN delivered :
          delivered[i].sequence <= in.incomingSequence

(* The inductive invariant: what travels, what is assembled and what was    *)
(* handed over all agree with what was sent.                                *)
NetChanInv ==
    /\ \A p \in network : IsSlice(sent, p)
    /\ SenderAgrees(sent, out)
    /\ ReceiverAgrees(sent, in)
    /\ DeliveredInv

-----------------------------------------------------------------------------
(* Completeness of reassembly. *)

(* Message m is cut into FragmentCount(m) fragments, the last one short. *)
FragmentCount(m) == Len(m) \div FragmentSize + 1

IsFragment(p, s, i) ==
    /\ p.sequence = s
    /\ p.fragmented
    /\ p.start = (i - 1) * FragmentSize

Fragment(s, i) == CHOOSE p \in network : IsFragment(p, s, i)

(* The receiver's half after the first n fragments of message s arrive in *)
(* order, beginning with its present state.                               *)
Replayed(s) ==
    LET half[n \in 0 .. FragmentCount(sent[s]) - 1] ==
            IF n = 0 THEN in ELSE AfterMoreToFollow(half[n - 1], Fragment(s, n))
    IN  half[FragmentCount(sent[s]) - 1]

Completes(s) ==
    LET last == Fragment(s, FragmentCount(sent[s]))
    IN  /\ Continues(Replayed(s), last)
        /\ Len(last.data) # FragmentSize
        /\ Assembled(Replayed(s), last) = sent[s]

(* "we can still keep the part that we have so far": whatever datagrams the *)
(* receiver saw, in whatever order, the fragments of a message it has not   *)
(* passed yet still complete it when they come once in order.  It covers    *)
(* the empty last fragment of a message of exactly k fragments, and a       *)
(* partial message interrupted by fragments of another one.                 *)
StillCompletable ==
    \A s \in DOMAIN sent :
        /\ in.incomingSequence < s
        /\ s < out.outgoingSequence
        /\ NeedsFragments(sent[s])
        =>  /\ \A i \in 1 .. FragmentCount(sent[s]) :
                  \E p \in network : IsFragment(p, s, i)
            /\ Completes(s)

-----------------------------------------------------------------------------
(* The channel implements the abstract one: sequence number i is position i *)
(* of the history, and the last message that arrived is incomingSequence.   *)
Channel ==
    INSTANCE MessageChannel WITH
        lastRead <- in.incomingSequence,
        arrived  <- [i \in DOMAIN delivered |-> delivered[i].data]

ImplementsChannel == Channel!Spec
=============================================================================
