-------------------------- MODULE SvNetChanProofs ---------------------------
(***************************************************************************)
(* Proofs about NetChan, and about SvNetChan, which puts the server's send *)
(* queue in front of it: for every set of messages, every fragment size    *)
(* and every behaviour of the network.                                     *)
(*                                                                         *)
(* The bare channel: every datagram in flight is a slice of the message    *)
(* whose sequence number it bears, and what the receiver has assembled is  *)
(* a prefix of one message.  A fragment is taken only where the prefix     *)
(* ends, so the prefix grows within its message, and a fragment shorter    *)
(* than FRAGMENT_SIZE is the end of its message: the prefix is then        *)
(* complete.  And the prefix always ends where a fragment of its message   *)
(* begins, so that the fragments from there on still complete it: this     *)
(* needs the recursion over them, which is taken as a set of its values    *)
(* (RecursionExists), in the last section.                                 *)
(*                                                                         *)
(* The queue keeps all of this, loses no message, sends none twice, and    *)
(* keeps their order until it is stranded.  A step of the send path makes  *)
(* one or two calls of the channel; each is an operator on the path as a   *)
(* value, and each keeps a path in agreement with its history.             *)
(***************************************************************************)
EXTENDS SvNetChan, SequenceTheorems, FiniteSetTheorems, WellFoundedInduction,
        TLAPS

(* Slicing.  A slice of a sequence over S has the length its bounds say and *)
(* is a sequence over S.                                                    *)
LEMMA SliceProperties ==
    ASSUME NEW S, NEW m \in Seq(S), NEW a \in 0 .. Len(m), NEW n \in Nat,
           a + n <= Len(m)
    PROVE  /\ SubSeq(m, a + 1, a + n) \in Seq(S)
           /\ Len(SubSeq(m, a + 1, a + n)) = n
<1>1. \A i \in a + 1 .. a + n : m[i] \in S
  BY ElementOfSeq, LenProperties
<1>2. a \in Int /\ a + 1 \in Int /\ a + n \in Int
  BY LenProperties
<1> QED
  BY <1>1, <1>2, SubSeqProperties

(* A prefix and the slice that follows it make a longer prefix. *)
LEMMA PrefixExtends ==
    ASSUME NEW S, NEW m \in Seq(S), NEW a \in 0 .. Len(m), NEW n \in Nat,
           a + n <= Len(m)
    PROVE  /\ SubSeq(m, 1, a) \o SubSeq(m, a + 1, a + n) = SubSeq(m, 1, a + n)
           /\ SubSeq(m, 1, a + n) \in Seq(S)
           /\ Len(SubSeq(m, 1, a + n)) = a + n
<1>1. Len(m) \in Nat
  BY LenProperties
<1>2. 1 \in 1 .. Len(m) + 1 /\ a \in 0 .. Len(m) /\ a + n \in a .. Len(m)
  BY <1>1
<1>3. SubSeq(m, 1, a) \o SubSeq(m, a + 1, a + n) = SubSeq(m, 1, a + n)
  BY <1>2, ConcatAdjacentSubSeq
<1>4. 0 \in 0 .. Len(m) /\ a + n \in Nat /\ 0 + (a + n) <= Len(m)
  BY <1>1
<1>5. /\ SubSeq(m, 0 + 1, 0 + (a + n)) \in Seq(S)
      /\ Len(SubSeq(m, 0 + 1, 0 + (a + n))) = a + n
  BY <1>4, SliceProperties
<1> QED
  BY <1>3, <1>5

(* A message that is sent leaves the history before it as it was. *)
LEMMA AppendKeeps ==
    ASSUME NEW S, NEW s \in Seq(S), NEW e \in S
    PROVE  /\ Append(s, e) \in Seq(S)
           /\ Len(Append(s, e)) = Len(s) + 1
           /\ DOMAIN s = 1 .. Len(s)
           /\ DOMAIN Append(s, e) = 1 .. Len(s) + 1
           /\ \A i \in DOMAIN s : Append(s, e)[i] = s[i]
           /\ Append(s, e)[Len(s) + 1] = e
  BY AppendProperties, LenProperties

(* A message is a sequence of bytes. *)
LEMMA MessageIsSeq ==
    ASSUME NEW m \in Message
    PROVE  /\ m \in Seq(Byte)
           /\ Len(m) \in Nat
  BY NetChanAssumption, LenProperties

(* What Netchan_TransmitNextFragment cuts from a message of which the first *)
(* part is sent: a slice that stays within the message, and that is full    *)
(* unless it ends the message.                                              *)
LEMMA FragmentIsCut ==
    ASSUME NEW c \in OutHalf,
           c.unsentBuffer \in Message,
           c.unsentFragmentStart <= Len(c.unsentBuffer)
    PROVE  LET n == FragmentLength(c)
               a == c.unsentFragmentStart
               d == SubSeq(c.unsentBuffer, a + 1, a + n)
           IN  /\ n \in 0 .. FragmentSize
               /\ a + n <= Len(c.unsentBuffer)
               /\ n = FragmentSize \/ a + n = Len(c.unsentBuffer)
               /\ d \in Seq(Byte)
               /\ Len(d) = n
<1> DEFINE n == FragmentLength(c)
           a == c.unsentFragmentStart
           d == SubSeq(c.unsentBuffer, a + 1, a + n)
<1>1. a \in Nat /\ Len(c.unsentBuffer) \in Nat /\ c.unsentBuffer \in Seq(Byte)
  BY MessageIsSeq DEF OutHalf
<1>2. /\ n \in 0 .. FragmentSize
      /\ a + n <= Len(c.unsentBuffer)
      /\ n = FragmentSize \/ a + n = Len(c.unsentBuffer)
  BY <1>1, NetChanAssumption DEF FragmentLength
<1>3. d \in Seq(Byte) /\ Len(d) = n
  <2>1. a \in 0 .. Len(c.unsentBuffer) /\ n \in Nat
    BY <1>1, <1>2, NetChanAssumption
  <2> HIDE DEF n, a
  <2> QED
    BY <1>1, <1>2, <2>1, SliceProperties
<1> QED
  BY <1>2, <1>3

(* The datagram Netchan_TransmitNextFragment sends is a slice of the message *)
(* that its sequence number stands for.                                      *)
LEMMA FragmentPacketIsSlice ==
    ASSUME NEW log \in Seq(Message), NEW c \in OutHalf,
           c.outgoingSequence \in DOMAIN log,
           c.unsentBuffer = log[c.outgoingSequence],
           NeedsFragments(c.unsentBuffer),
           c.unsentFragmentStart <= Len(c.unsentBuffer)
    PROVE  /\ FragmentPacket(c) \in Packet
           /\ IsSlice(log, FragmentPacket(c))
<1>1. c.unsentBuffer \in Message
  BY ElementOfSeq, LenProperties
<1>2. c.outgoingSequence \in Nat \ {0} /\ c.unsentFragmentStart \in Nat
  BY DEF OutHalf
<1> DEFINE n == FragmentLength(c)
           d == SubSeq(c.unsentBuffer, c.unsentFragmentStart + 1,
                       c.unsentFragmentStart + n)
<1>3. /\ n \in 0 .. FragmentSize
      /\ c.unsentFragmentStart + n <= Len(c.unsentBuffer)
      /\ n = FragmentSize \/ c.unsentFragmentStart + n = Len(c.unsentBuffer)
      /\ d \in Seq(Byte)
      /\ Len(d) = n
  BY <1>1, FragmentIsCut
<1>4. FragmentPacket(c) = [sequence   |-> c.outgoingSequence,
                           fragmented |-> TRUE,
                           start      |-> c.unsentFragmentStart,
                           data       |-> d]
  BY DEF FragmentPacket
<1> HIDE DEF n, d
<1>5. FragmentPacket(c) \in Packet
  BY <1>2, <1>3, <1>4 DEF Packet
<1>6. /\ FragmentPacket(c).sequence = c.outgoingSequence
      /\ FragmentPacket(c).fragmented = TRUE
      /\ FragmentPacket(c).start = c.unsentFragmentStart
      /\ FragmentPacket(c).data = d
  BY <1>4
<1>7. d = SubSeq(c.unsentBuffer, c.unsentFragmentStart + 1,
                 c.unsentFragmentStart + Len(d))
  BY <1>3 DEF d
<1>8. IsSlice(log, FragmentPacket(c))
  BY <1>3, <1>6, <1>7, NetChanAssumption DEF IsSlice
<1> QED
  BY <1>5, <1>8

(* Sending a fragment keeps the sender's half in step with the history: the  *)
(* sequence number moves on exactly when the message is complete.            *)
LEMMA AfterFragmentAgrees ==
    ASSUME NEW log \in Seq(Message), NEW c \in OutHalf,
           log # <<>>,
           c.unsentFragments,
           SenderAgrees(log, c)
    PROVE  /\ AfterFragment(c) \in OutHalf
           /\ SenderAgrees(log, AfterFragment(c))
<1>1. /\ Len(log) \in Nat \ {0}
      /\ c.outgoingSequence = Len(log)
      /\ c.unsentBuffer = log[Len(log)]
      /\ c.unsentBuffer \in Message
  BY EmptySeq, ElementOfSeq, LenProperties DEF SenderAgrees
<1>2. c.unsentFragmentStart \in Nat /\ c.outgoingSequence \in Nat \ {0}
  BY DEF OutHalf
<1>3. Len(c.unsentBuffer) \in Nat
  BY <1>1, MessageIsSeq
<1>4. /\ FragmentLength(c) \in 0 .. FragmentSize
      /\ c.unsentFragmentStart + FragmentLength(c) <= Len(c.unsentBuffer)
  BY <1>1, FragmentIsCut DEF SenderAgrees
<1> DEFINE d == AfterFragment(c)
           start == c.unsentFragmentStart + FragmentLength(c)
<1>5. CASE IsLastFragment(c)
  <2>1. d = [outgoingSequence    |-> c.outgoingSequence + 1,
             unsentFragments     |-> FALSE,
             unsentFragmentStart |-> start,
             unsentBuffer        |-> c.unsentBuffer]
    BY <1>5 DEF AfterFragment, OutHalf
  <2>2. start \in Nat /\ c.outgoingSequence + 1 \in Nat \ {0}
    <3>1. FragmentSize \in Nat
      BY NetChanAssumption
    <3>2. FragmentLength(c) \in Nat
      BY <1>4, <3>1
    <3> QED
      BY <1>2, <3>2
  <2> HIDE DEF d, start
  <2>3. d \in OutHalf
    BY <1>1, <2>1, <2>2 DEF OutHalf
  <2>4. SenderAgrees(log, d)
    BY <1>1, <2>1 DEF SenderAgrees
  <2> QED
    BY <2>3, <2>4 DEF d
<1>6. CASE ~IsLastFragment(c)
  <2>1. d = [outgoingSequence    |-> c.outgoingSequence,
             unsentFragments     |-> TRUE,
             unsentFragmentStart |-> start,
             unsentBuffer        |-> c.unsentBuffer]
    BY <1>6 DEF AfterFragment, OutHalf
  <2>2. start \in Nat /\ start <= Len(c.unsentBuffer)
    BY <1>2, <1>4, NetChanAssumption
  <2> HIDE DEF d, start
  <2>3. d \in OutHalf
    BY <1>1, <1>2, <2>1, <2>2 DEF OutHalf
  <2>4. SenderAgrees(log, d)
    BY <1>1, <2>1, <2>2 DEF SenderAgrees
  <2> QED
    BY <2>3, <2>4 DEF d
<1> QED
  BY <1>5, <1>6

(* What is true of a datagram or of the assembled part stays true when       *)
(* another message is sent.                                                  *)
LEMMA SendingKeepsThePast ==
    ASSUME NEW log \in Seq(Message), NEW m \in Message
    PROVE  /\ \A p : IsSlice(log, p) => IsSlice(Append(log, m), p)
           /\ \A c \in InHalf :
                 ReceiverAgrees(log, c) => ReceiverAgrees(Append(log, m), c)
<1> DEFINE log2 == Append(log, m)
<1>1. /\ log2 \in Seq(Message)
      /\ Len(log2) = Len(log) + 1
      /\ Len(log) \in Nat
      /\ DOMAIN log \subseteq DOMAIN log2
      /\ \A i \in DOMAIN log : log2[i] = log[i]
  BY AppendKeeps, LenProperties
<1> HIDE DEF log2
<1>2. \A p : IsSlice(log, p) => IsSlice(log2, p)
  BY <1>1 DEF IsSlice
<1>3. ASSUME NEW c \in InHalf, ReceiverAgrees(log, c)
      PROVE  ReceiverAgrees(log2, c)
  <2>1. c.incomingSequence \in Nat
    BY DEF InHalf
  <2> QED
    BY <1>1, <1>3, <2>1 DEF ReceiverAgrees
<1> QED
  BY <1>2, <1>3 DEF log2

(* Netchan_Transmit on an idle channel: the datagram it sends is a slice of  *)
(* the new message, and the sender's half agrees with the longer history.    *)
LEMMA TransmitAgrees ==
    ASSUME NEW log \in Seq(Message), NEW m \in Message, NEW c \in OutHalf,
           ~c.unsentFragments,
           SenderAgrees(log, c)
    PROVE  /\ TransmitPacket(c, m) \in Packet
           /\ IsSlice(Append(log, m), TransmitPacket(c, m))
           /\ AfterTransmit(c, m) \in OutHalf
           /\ SenderAgrees(Append(log, m), AfterTransmit(c, m))
<1> DEFINE log2 == Append(log, m)
<1>1. /\ log2 \in Seq(Message)
      /\ Len(log2) = Len(log) + 1
      /\ Len(log) \in Nat
      /\ DOMAIN log2 = 1 .. Len(log) + 1
      /\ log2[Len(log) + 1] = m
  BY AppendKeeps, LenProperties
<1>2. /\ c.outgoingSequence = Len(log) + 1
      /\ c.outgoingSequence \in DOMAIN log2
  BY <1>1 DEF SenderAgrees
<1>3. m \in Seq(Byte) /\ Len(m) \in Nat
  BY MessageIsSeq
<1> HIDE DEF log2
<1>4. CASE NeedsFragments(m)
  <2> DEFINE d == Loaded(c, m)
  <2>1. d = [outgoingSequence    |-> c.outgoingSequence,
             unsentFragments     |-> TRUE,
             unsentFragmentStart |-> 0,
             unsentBuffer        |-> m]
    BY DEF Loaded
  <2>2. d \in OutHalf
    BY <1>1, <1>2, <2>1 DEF OutHalf
  <2> HIDE DEF d
  <2>3. SenderAgrees(log2, d) /\ d.unsentFragments /\ log2 # <<>>
    BY <1>1, <1>2, <1>3, <1>4, <2>1, EmptySeq DEF SenderAgrees
  <2>4. /\ AfterFragment(d) \in OutHalf
        /\ SenderAgrees(log2, AfterFragment(d))
    BY <1>1, <2>2, <2>3, AfterFragmentAgrees
  <2>5. /\ FragmentPacket(d) \in Packet
        /\ IsSlice(log2, FragmentPacket(d))
    <3>1. /\ d.outgoingSequence \in DOMAIN log2
          /\ d.unsentBuffer = log2[d.outgoingSequence]
          /\ NeedsFragments(d.unsentBuffer)
          /\ d.unsentFragmentStart <= Len(d.unsentBuffer)
      BY <1>1, <1>2, <1>3, <1>4, <2>1
    <3> QED
      BY <1>1, <2>2, <3>1, FragmentPacketIsSlice
  <2> QED
    BY <1>4, <2>4, <2>5 DEF log2, d, TransmitPacket, AfterTransmit
<1>5. CASE ~NeedsFragments(m)
  <2> DEFINE p == TransmitPacket(c, m)
             d == AfterTransmit(c, m)
  <2>1. p = [sequence   |-> c.outgoingSequence,
             fragmented |-> FALSE,
             start      |-> 0,
             data       |-> m]
    BY <1>5 DEF TransmitPacket
  <2>2. d = [outgoingSequence    |-> c.outgoingSequence + 1,
             unsentFragments     |-> FALSE,
             unsentFragmentStart |-> 0,
             unsentBuffer        |-> c.unsentBuffer]
    BY <1>5 DEF AfterTransmit, OutHalf
  <2>3. c.unsentBuffer \in Message \cup {<<>>}
    BY DEF OutHalf
  <2> HIDE DEF p, d
  <2>4. p \in Packet
    BY <1>1, <1>2, <1>3, <2>1 DEF Packet
  <2>5. IsSlice(log2, p)
    BY <1>1, <1>2, <1>5, <2>1 DEF IsSlice
  <2>6. d \in OutHalf
    BY <1>1, <1>2, <2>2, <2>3 DEF OutHalf
  <2>7. SenderAgrees(log2, d)
    BY <1>1, <1>2, <2>2 DEF SenderAgrees
  <2> QED
    BY <2>4, <2>5, <2>6, <2>7 DEF log2, p, d
<1> QED
  BY <1>4, <1>5

(* Netchan_Process: giving up another message's part keeps the receiver's    *)
(* half in agreement, and what is left belongs to the datagram's message.    *)
LEMMA AssemblingAgrees ==
    ASSUME NEW log \in Seq(Message), NEW c \in InHalf, NEW p \in Packet,
           ReceiverAgrees(log, c)
    PROVE  /\ Assembling(c, p) \in InHalf
           /\ ReceiverAgrees(log, Assembling(c, p))
           /\ Assembling(c, p).fragmentSequence = p.sequence
           /\ Assembling(c, p).incomingSequence = c.incomingSequence
<1>1. p.sequence \in Nat \ {0} /\ <<>> \in Seq(Byte)
  BY EmptySeq DEF Packet
<1>2. CASE p.sequence = c.fragmentSequence
  BY <1>2 DEF Assembling
<1>3. CASE p.sequence # c.fragmentSequence
  <2>1. Assembling(c, p) = [incomingSequence |-> c.incomingSequence,
                            fragmentSequence |-> p.sequence,
                            fragmentBuffer   |-> <<>>]
    BY <1>3 DEF Assembling, InHalf
  <2>2. Assembling(c, p) \in InHalf
    BY <1>1, <2>1 DEF InHalf
  <2>3. ReceiverAgrees(log, Assembling(c, p))
    BY <2>1 DEF ReceiverAgrees
  <2> QED
    BY <2>1, <2>2, <2>3
<1> QED
  BY <1>2, <1>3

(* A fragment that continues the assembled part makes it a longer prefix of  *)
(* the same message.                                                         *)
LEMMA AssembledIsPrefix ==
    ASSUME NEW log \in Seq(Message), NEW c \in InHalf, NEW p \in Packet,
           ReceiverAgrees(log, c),
           IsSlice(log, p), p.fragmented, Continues(c, p)
    PROVE  /\ p.sequence \in DOMAIN log
           /\ Assembled(c, p) \in Seq(Byte)
           /\ Len(Assembled(c, p)) = p.start + Len(p.data)
           /\ p.start + Len(p.data) <= Len(log[p.sequence])
           /\ Assembled(c, p) = SubSeq(log[p.sequence], 1, p.start + Len(p.data))
<1> DEFINE m == log[p.sequence]
           part == Assembling(c, p).fragmentBuffer
           end == p.start + Len(p.data)
<1>1. /\ p.sequence \in DOMAIN log
      /\ m \in Message /\ m \in Seq(Byte) /\ Len(m) \in Nat
  BY ElementOfSeq, LenProperties, MessageIsSeq DEF IsSlice
<1>2. /\ p.start \in Nat /\ p.data \in Seq(Byte) /\ Len(p.data) \in Nat
      /\ end \in Nat /\ end <= Len(m)
      /\ p.data = SubSeq(m, p.start + 1, end)
  BY LenProperties DEF Packet, IsSlice
<1>3. part \in Seq(Byte) /\ Len(part) = p.start
  BY AssemblingAgrees DEF InHalf, Continues
<1>4. part = SubSeq(m, 1, p.start)
  <2>1. CASE part = <<>>
    BY <1>1, <1>3, <2>1, SubSeqEmpty, EmptySeq
  <2>2. CASE part # <<>>
    BY <1>3, <2>2, AssemblingAgrees DEF ReceiverAgrees
  <2> QED
    BY <2>1, <2>2
<1>5. Assembled(c, p) = part \o p.data
  BY DEF Assembled
<1>6. Assembled(c, p) = SubSeq(m, 1, p.start) \o SubSeq(m, p.start + 1, end)
  BY <1>2, <1>4, <1>5
<1>7. /\ m \in Seq(Byte)
      /\ p.start \in 0 .. Len(m)
      /\ Len(p.data) \in Nat
      /\ p.start + Len(p.data) <= Len(m)
  BY <1>1, <1>2
<1> HIDE DEF part, m
<1>8. /\ SubSeq(m, 1, p.start) \o SubSeq(m, p.start + 1, end) = SubSeq(m, 1, end)
      /\ SubSeq(m, 1, end) \in Seq(Byte)
      /\ Len(SubSeq(m, 1, end)) = end
  BY <1>7, PrefixExtends
<1> QED
  BY <1>1, <1>6, <1>7, <1>8 DEF m

-----------------------------------------------------------------------------
(* The inductive invariant.  TypeOK alone would be inductive; NetChanInv     *)
(* needs it, and the two are proved together.                                *)
Inv == TypeOK /\ NetChanInv

(* One more delivery, of a later sequence number and of the data sent under  *)
(* it, keeps the deliveries intact and in order.                             *)
LEMMA DeliveryAgrees ==
    ASSUME Inv, NEW s \in DOMAIN sent, s > in.incomingSequence,
           in'.incomingSequence = s, sent' = sent,
           delivered' = Append(delivered, [sequence |-> s, data |-> sent[s]])
    PROVE  /\ delivered' \in Seq(Delivery)
           /\ DeliveredInv'
<1> DEFINE e == [sequence |-> s, data |-> sent[s]]
<1>1. /\ s \in Nat \ {0}
      /\ sent[s] \in Message
      /\ in.incomingSequence \in Nat
  BY LenProperties, ElementOfSeq DEF Inv, TypeOK, InHalf
<1>2. e \in Delivery
  BY <1>1, MessageIsSeq DEF Delivery
<1>3. /\ delivered' \in Seq(Delivery)
      /\ Len(delivered) \in Nat
      /\ DOMAIN delivered = 1 .. Len(delivered)
      /\ DOMAIN delivered' = 1 .. Len(delivered) + 1
      /\ \A i \in DOMAIN delivered : delivered'[i] = delivered[i]
      /\ delivered'[Len(delivered) + 1] = e
  <2>1. delivered \in Seq(Delivery)
    BY DEF Inv, TypeOK
  <2> QED
    BY <1>2, <2>1, AppendKeeps, LenProperties
<1>4. /\ \A i \in DOMAIN delivered :
            /\ delivered[i].sequence \in DOMAIN sent
            /\ delivered[i].data = sent[delivered[i].sequence]
            /\ delivered[i].sequence <= in.incomingSequence
            /\ delivered[i].sequence < s
            /\ delivered[i].sequence \in Nat
  <2> SUFFICES ASSUME NEW i \in DOMAIN delivered
               PROVE  /\ delivered[i].sequence \in DOMAIN sent
                      /\ delivered[i].data = sent[delivered[i].sequence]
                      /\ delivered[i].sequence <= in.incomingSequence
                      /\ delivered[i].sequence < s
                      /\ delivered[i].sequence \in Nat
    OBVIOUS
  <2>1. /\ delivered[i].sequence \in DOMAIN sent
        /\ delivered[i].data = sent[delivered[i].sequence]
        /\ delivered[i].sequence <= in.incomingSequence
    BY DEF Inv, NetChanInv, DeliveredInv, DeliveredIntact
  <2>2. delivered[i].sequence \in Nat
    BY <2>1, LenProperties DEF Inv, TypeOK
  <2> QED
    BY <1>1, <2>1, <2>2
<1>5. DeliveredIntact'
  BY <1>3, <1>4 DEF DeliveredIntact
<1>6. DeliveredInOrder'
  <2>1. DeliveredInOrder
    BY DEF Inv, NetChanInv, DeliveredInv
  <2> QED
    BY <1>3, <1>4, <2>1 DEF DeliveredInOrder
<1>7. \A i \in DOMAIN delivered' : delivered'[i].sequence <= in'.incomingSequence
  <2> TAKE i \in DOMAIN delivered'
  <2>1. CASE i \in DOMAIN delivered
    BY <1>1, <1>3, <1>4, <2>1
  <2>2. CASE i = Len(delivered) + 1
    BY <1>1, <1>3, <2>2
  <2> QED
    BY <1>3, <2>1, <2>2
<1> QED
  BY <1>3, <1>5, <1>6, <1>7 DEF DeliveredInv

(* The invariant holds of two idle halves and an empty network. *)
LEMMA InitInv == Init => Inv
<1> SUFFICES ASSUME Init PROVE Inv
  OBVIOUS
<1>1. sent = <<>> /\ delivered = <<>> /\ network = {}
      /\ out = SetupOut /\ in = SetupIn
  BY DEF Init
<1>2. <<>> \in Seq(Message) /\ <<>> \in Seq(Delivery) /\ <<>> \in Seq(Byte)
      /\ Len(<<>>) = 0 /\ DOMAIN <<>> = {}
  BY EmptySeq, LenProperties
<1>3. SetupOut \in OutHalf /\ SetupIn \in InHalf
  BY <1>2 DEF SetupOut, SetupIn, OutHalf, InHalf
<1>4. TypeOK
  BY <1>1, <1>2, <1>3 DEF TypeOK
<1>5. SenderAgrees(sent, out) /\ ReceiverAgrees(sent, in)
  BY <1>1, <1>2 DEF SenderAgrees, ReceiverAgrees, SetupOut, SetupIn
<1>6. DeliveredInv
  BY <1>1, <1>2 DEF DeliveredInv, DeliveredIntact, DeliveredInOrder
<1> QED
  BY <1>1, <1>4, <1>5, <1>6 DEF Inv, NetChanInv

(* Every step keeps the invariant, one lemma for each kind of step. *)
LEMMA TransmitInv ==
    ASSUME Inv, NEW m \in Message, Transmit(m)
    PROVE  Inv'
<1>1. /\ sent \in Seq(Message) /\ out \in OutHalf /\ in \in InHalf
      /\ network \subseteq Packet /\ delivered \in Seq(Delivery)
      /\ ~out.unsentFragments
      /\ SenderAgrees(sent, out) /\ ReceiverAgrees(sent, in)
      /\ network' = network \cup {TransmitPacket(out, m)}
      /\ out' = AfterTransmit(out, m)
      /\ sent' = Append(sent, m)
      /\ in' = in /\ delivered' = delivered
  BY DEF Inv, TypeOK, NetChanInv, Transmit
<1>2. /\ TransmitPacket(out, m) \in Packet
      /\ IsSlice(sent', TransmitPacket(out, m))
      /\ out' \in OutHalf
      /\ SenderAgrees(sent', out')
  BY <1>1, TransmitAgrees
<1>3. /\ \A p : IsSlice(sent, p) => IsSlice(sent', p)
      /\ ReceiverAgrees(sent', in')
  BY <1>1, SendingKeepsThePast
<1>4. \A p \in network' : IsSlice(sent', p)
  BY <1>1, <1>2, <1>3 DEF Inv, NetChanInv
<1>5. /\ sent' \in Seq(Message)
      /\ DOMAIN sent \subseteq DOMAIN sent'
      /\ \A i \in DOMAIN sent : sent'[i] = sent[i]
  BY <1>1, AppendKeeps, LenProperties
<1>6. TypeOK'
  BY <1>1, <1>2, <1>5 DEF TypeOK
<1>7. DeliveredInv'
  BY <1>1, <1>5
     DEF Inv, NetChanInv, DeliveredInv, DeliveredIntact, DeliveredInOrder
<1> QED
  BY <1>2, <1>3, <1>4, <1>6, <1>7 DEF Inv, NetChanInv

LEMMA TransmitNextFragmentInv ==
    ASSUME Inv, TransmitNextFragment
    PROVE  Inv'
<1>1. /\ sent \in Seq(Message) /\ out \in OutHalf
      /\ network \subseteq Packet
      /\ out.unsentFragments
      /\ SenderAgrees(sent, out)
      /\ network' = network \cup {FragmentPacket(out)}
      /\ out' = AfterFragment(out)
      /\ UNCHANGED <<in, sent, delivered>>
  BY DEF Inv, TypeOK, NetChanInv, TransmitNextFragment
<1>2. /\ Len(sent) \in Nat
      /\ out.outgoingSequence = Len(sent)
      /\ out.outgoingSequence \in Nat \ {0}
      /\ out.unsentBuffer = sent[Len(sent)]
      /\ NeedsFragments(out.unsentBuffer)
      /\ out.unsentFragmentStart <= Len(out.unsentBuffer)
  BY <1>1, LenProperties DEF SenderAgrees, OutHalf
<1>3. sent # <<>> /\ Len(sent) \in DOMAIN sent
  BY <1>1, <1>2, LenProperties, EmptySeq
<1>4. FragmentPacket(out) \in Packet /\ IsSlice(sent, FragmentPacket(out))
  BY <1>1, <1>2, <1>3, FragmentPacketIsSlice
<1>5. out' \in OutHalf /\ SenderAgrees(sent, out')
  BY <1>1, <1>3, AfterFragmentAgrees
<1>6. TypeOK'
  BY <1>1, <1>4, <1>5 DEF Inv, TypeOK
<1>7. NetChanInv'
  BY <1>1, <1>4, <1>5
     DEF Inv, NetChanInv, DeliveredInv, DeliveredIntact, DeliveredInOrder
<1> QED
  BY <1>6, <1>7 DEF Inv

LEMMA ProcessWholeInv ==
    ASSUME Inv, NEW p \in network, ProcessWhole(p)
    PROVE  Inv'
<1>1. /\ sent \in Seq(Message) /\ in \in InHalf /\ p \in Packet
      /\ ReceiverAgrees(sent, in)
      /\ IsSlice(sent, p)
      /\ ~p.fragmented
      /\ p.sequence \in Nat /\ in.incomingSequence \in Nat
      /\ p.sequence > in.incomingSequence
      /\ in' = [in EXCEPT !.incomingSequence = p.sequence]
      /\ delivered' = Append(delivered, [sequence |-> p.sequence, data |-> p.data])
      /\ UNCHANGED <<out, network, sent>>
  BY DEF Inv, TypeOK, NetChanInv, ProcessWhole, IsStale, Deliver, InHalf, Packet
<1>2. p.sequence \in DOMAIN sent /\ p.data = sent[p.sequence]
  BY <1>1 DEF IsSlice
<1>3. p.sequence <= Len(sent) /\ Len(sent) \in Nat
  BY <1>1, <1>2, LenProperties
<1>4. in' = [incomingSequence |-> p.sequence,
             fragmentSequence |-> in.fragmentSequence,
             fragmentBuffer   |-> in.fragmentBuffer]
  BY <1>1 DEF InHalf
<1>5. in' \in InHalf /\ in'.incomingSequence = p.sequence
  BY <1>1, <1>4 DEF InHalf
<1>6. ReceiverAgrees(sent, in')
  BY <1>1, <1>3, <1>4 DEF ReceiverAgrees
<1>7. delivered' \in Seq(Delivery) /\ DeliveredInv'
  BY <1>1, <1>2, <1>5, DeliveryAgrees
<1>8. TypeOK'
  BY <1>1, <1>5, <1>7 DEF Inv, TypeOK
<1>9. NetChanInv'
  BY <1>1, <1>6, <1>7 DEF Inv, NetChanInv
<1> QED
  BY <1>8, <1>9 DEF Inv

LEMMA ProcessFragmentInv ==
    ASSUME Inv, NEW p \in network, ProcessFragment(p)
    PROVE  Inv'
<1> DEFINE c == Assembling(in, p)
<1>1. /\ sent \in Seq(Message) /\ in \in InHalf /\ p \in Packet
      /\ ReceiverAgrees(sent, in)
      /\ IsSlice(sent, p)
      /\ p.fragmented
      /\ in' = AfterMoreToFollow(in, p)
      /\ UNCHANGED <<out, network, sent, delivered>>
  BY DEF Inv, TypeOK, NetChanInv, ProcessFragment
<1>2. /\ c \in InHalf
      /\ ReceiverAgrees(sent, c)
      /\ c.fragmentSequence = p.sequence
      /\ c.incomingSequence = in.incomingSequence
  BY <1>1, AssemblingAgrees
<1>3. /\ in' \in InHalf
      /\ ReceiverAgrees(sent, in')
      /\ in'.incomingSequence = in.incomingSequence
  <2>1. CASE Continues(in, p)
    <3>1. in' = [c EXCEPT !.fragmentBuffer = Assembled(in, p)]
      BY <1>1, <2>1 DEF AfterMoreToFollow
    <3>2. /\ p.sequence \in DOMAIN sent
          /\ Assembled(in, p) \in Seq(Byte)
          /\ Len(Assembled(in, p)) = p.start + Len(p.data)
          /\ p.start + Len(p.data) <= Len(sent[p.sequence])
          /\ Assembled(in, p) = SubSeq(sent[p.sequence], 1, p.start + Len(p.data))
      BY <1>1, <2>1, AssembledIsPrefix
    <3> HIDE DEF c
    <3>3. in' = [incomingSequence |-> c.incomingSequence,
                 fragmentSequence |-> p.sequence,
                 fragmentBuffer   |-> Assembled(in, p)]
      BY <1>2, <3>1 DEF InHalf
    <3>4. in' \in InHalf
      BY <1>2, <3>2, <3>3 DEF InHalf
    <3>5. ReceiverAgrees(sent, in')
      BY <1>2, <3>2, <3>3 DEF ReceiverAgrees
    <3> QED
      BY <1>2, <3>3, <3>4, <3>5
  <2>2. CASE ~Continues(in, p)
    <3>1. in' = c
      BY <1>1, <1>2, <2>2 DEF AfterMoreToFollow, InHalf
    <3> QED
      BY <1>2, <3>1
  <2> QED
    BY <2>1, <2>2
<1>4. TypeOK'
  BY <1>1, <1>3 DEF Inv, TypeOK
<1>5. NetChanInv'
  BY <1>1, <1>3
     DEF Inv, NetChanInv, DeliveredInv, DeliveredIntact, DeliveredInOrder
<1> QED
  BY <1>4, <1>5 DEF Inv

(* What a short fragment completes is the message that was sent: the slice   *)
(* ends its message, and the part before it is the rest.                     *)
LEMMA FinishedIsWhole ==
    ASSUME Inv, NEW p \in network, FinishMessage(p)
    PROVE  /\ p.sequence \in DOMAIN sent
           /\ Assembled(in, p) = sent[p.sequence]
<1>1. /\ sent \in Seq(Message) /\ in \in InHalf /\ p \in Packet
      /\ ReceiverAgrees(sent, in)
      /\ IsSlice(sent, p)
      /\ p.fragmented
      /\ Continues(in, p)
      /\ Len(p.data) # FragmentSize
  BY DEF Inv, TypeOK, NetChanInv, FinishMessage
<1>2. /\ p.sequence \in DOMAIN sent
      /\ Assembled(in, p) = SubSeq(sent[p.sequence], 1, p.start + Len(p.data))
  BY <1>1, AssembledIsPrefix
<1>3. p.start + Len(p.data) = Len(sent[p.sequence])
  BY <1>1 DEF IsSlice
<1>4. sent[p.sequence] \in Seq(Byte)
  BY <1>1, <1>2, ElementOfSeq, LenProperties, MessageIsSeq
<1> QED
  BY <1>2, <1>3, <1>4, SubSeqFull

LEMMA FinishMessageInv ==
    ASSUME Inv, NEW p \in network, FinishMessage(p)
    PROVE  Inv'
<1> DEFINE c == Assembling(in, p)
<1>1. /\ sent \in Seq(Message) /\ in \in InHalf /\ p \in Packet
      /\ ReceiverAgrees(sent, in)
      /\ p.sequence \in Nat /\ in.incomingSequence \in Nat
      /\ p.sequence > in.incomingSequence
      /\ in' = [c EXCEPT !.fragmentBuffer = <<>>, !.incomingSequence = p.sequence]
      /\ delivered' = Append(delivered,
                             [sequence |-> p.sequence, data |-> Assembled(in, p)])
      /\ UNCHANGED <<out, network, sent>>
  BY DEF Inv, TypeOK, NetChanInv, FinishMessage, IsStale, Deliver, InHalf, Packet
<1>2. p.sequence \in DOMAIN sent /\ Assembled(in, p) = sent[p.sequence]
  BY FinishedIsWhole
<1>3. p.sequence <= Len(sent) /\ Len(sent) \in Nat
  BY <1>1, <1>2, LenProperties
<1>4. c \in InHalf /\ c.fragmentSequence = p.sequence
  BY <1>1, AssemblingAgrees
<1> HIDE DEF c
<1>5. in' = [incomingSequence |-> p.sequence,
             fragmentSequence |-> p.sequence,
             fragmentBuffer   |-> <<>>]
  BY <1>1, <1>4 DEF InHalf
<1>6. in' \in InHalf /\ in'.incomingSequence = p.sequence
  <2>1. <<>> \in Seq(Byte)
    BY EmptySeq
  <2>2. p.sequence \in Nat
    BY <1>1
  <2> QED
    BY <1>5, <2>1, <2>2 DEF InHalf
<1>7. ReceiverAgrees(sent, in')
  BY <1>3, <1>5 DEF ReceiverAgrees
<1>8. delivered' \in Seq(Delivery) /\ DeliveredInv'
  BY <1>1, <1>2, <1>6, DeliveryAgrees
<1>9. TypeOK'
  BY <1>1, <1>6, <1>8 DEF Inv, TypeOK
<1>10. NetChanInv'
  BY <1>1, <1>7, <1>8 DEF Inv, NetChanInv
<1> QED
  BY <1>9, <1>10 DEF Inv

LEMMA StutterInv ==
    ASSUME Inv, UNCHANGED vars
    PROVE  Inv'
  BY DEF Inv, TypeOK, NetChanInv, DeliveredInv, DeliveredIntact,
         DeliveredInOrder, vars

LEMMA NextInv ==
    ASSUME Inv, [Next]_vars
    PROVE  Inv'
<1>1. ASSUME NEW m \in Message, Transmit(m) PROVE Inv'
  BY <1>1, TransmitInv
<1>2. CASE TransmitNextFragment
  BY <1>2, TransmitNextFragmentInv
<1>3. ASSUME NEW p \in network, Process(p) PROVE Inv'
  <2>1. CASE DiscardStale(p)
    BY <2>1, StutterInv DEF DiscardStale
  <2>2. CASE ProcessWhole(p)
    BY <2>2, ProcessWholeInv
  <2>3. CASE ProcessFragment(p)
    BY <2>3, ProcessFragmentInv
  <2>4. CASE FinishMessage(p)
    BY <2>4, FinishMessageInv
  <2> QED
    BY <1>3, <2>1, <2>2, <2>3, <2>4 DEF Process
<1>4. CASE UNCHANGED vars
  BY <1>4, StutterInv
<1> QED
  BY <1>1, <1>2, <1>3, <1>4 DEF Next

(* The invariant holds in every reachable state. *)
LEMMA Invariance == Spec => []Inv
  BY InitInv, NextInv, PTL DEF Spec

(* Every reachable state is well typed. *)
THEOREM TypeCorrect == Spec => []TypeOK
<1>1. Inv => TypeOK
  BY DEF Inv
<1> QED
  BY <1>1, Invariance, PTL

(* What travels, what is assembled and what was delivered agree with what    *)
(* was sent, in every reachable state.                                       *)
THEOREM ChannelAgrees == Spec => []NetChanInv
<1>1. Inv => NetChanInv
  BY DEF Inv
<1> QED
  BY <1>1, Invariance, PTL

(* No message is delivered damaged, spliced or cut short, none twice, and    *)
(* none after a later one, whatever the network loses, repeats or reorders.  *)
THEOREM DeliveryCorrect == Spec => [](DeliveredIntact /\ DeliveredInOrder)
<1>1. Inv => DeliveredIntact /\ DeliveredInOrder
  BY DEF Inv, NetChanInv, DeliveredInv
<1> QED
  BY <1>1, Invariance, PTL

-----------------------------------------------------------------------------
(* Refinement of MessageChannel.                                             *)

(* What arrived in the abstract channel: the data of each delivery. *)
Arrived == [i \in DOMAIN delivered |-> delivered[i].data]

LEMMA ArrivedProperties ==
    ASSUME delivered \in Seq(Delivery), NEW e \in Delivery, e.data \in Message,
           \A i \in DOMAIN delivered : delivered[i].data \in Message,
           delivered' = Append(delivered, e)
    PROVE  Arrived' = Append(Arrived, e.data)
<1>1. /\ Len(delivered) \in Nat
      /\ delivered' \in Seq(Delivery)
      /\ DOMAIN delivered = 1 .. Len(delivered)
      /\ DOMAIN delivered' = 1 .. Len(delivered) + 1
      /\ \A i \in DOMAIN delivered : delivered'[i] = delivered[i]
      /\ delivered'[Len(delivered) + 1] = e
  BY AppendKeeps, LenProperties
<1>2. Arrived \in [1 .. Len(delivered) -> Message]
  BY <1>1 DEF Arrived
<1>3. Arrived \in Seq(Message) /\ Len(Arrived) = Len(delivered)
  BY <1>1, <1>2
<1>4. Append(Arrived, e.data) \in Seq(Message)
  BY <1>3
<1>5. Arrived' \in [1 .. Len(delivered) + 1 -> Message]
  BY <1>1 DEF Arrived
<1>6. Arrived' \in Seq(Message) /\ Len(Arrived') = Len(delivered) + 1
  BY <1>1, <1>5
<1>7. /\ Len(Append(Arrived, e.data)) = Len(delivered) + 1
      /\ \A i \in 1 .. Len(delivered) : Append(Arrived, e.data)[i] = Arrived[i]
      /\ Append(Arrived, e.data)[Len(delivered) + 1] = e.data
  BY <1>1, <1>3, AppendProperties
<1>8. /\ \A i \in 1 .. Len(delivered) : Arrived'[i] = Arrived[i]
      /\ Arrived'[Len(delivered) + 1] = e.data
  <2>1. \A i \in 1 .. Len(delivered) + 1 : Arrived'[i] = delivered'[i].data
    BY <1>1 DEF Arrived
  <2>2. \A i \in 1 .. Len(delivered) : Arrived[i] = delivered[i].data
    BY <1>1 DEF Arrived
  <2>3. 1 .. Len(delivered) \subseteq 1 .. Len(delivered) + 1
        /\ Len(delivered) + 1 \in 1 .. Len(delivered) + 1
    BY <1>1
  <2> QED
    BY <1>1, <2>1, <2>2, <2>3
<1>9. \A i \in 1 .. Len(delivered) + 1 : Arrived'[i] = Append(Arrived, e.data)[i]
  BY <1>1, <1>7, <1>8
<1> QED
  BY <1>1, <1>4, <1>6, <1>7, <1>9, SeqEqual

(* A delivery is the abstract arrival of the message of that number. *)
LEMMA DeliveryRefines ==
    ASSUME Inv, NEW s \in DOMAIN sent, s > in.incomingSequence,
           in'.incomingSequence = s, sent' = sent,
           delivered' = Append(delivered, [sequence |-> s, data |-> sent[s]])
    PROVE  Channel!Next
<1> DEFINE e == [sequence |-> s, data |-> sent[s]]
<1>1. sent \in Seq(Message) /\ delivered \in Seq(Delivery)
  BY DEF Inv, TypeOK
<1>2. sent[s] \in Message /\ s \in Nat \ {0}
  BY <1>1, ElementOfSeq, LenProperties
<1>3. e \in Delivery /\ e.data = sent[s]
  BY <1>2, MessageIsSeq DEF Delivery
<1>4. \A i \in DOMAIN delivered : delivered[i].data \in Message
  BY <1>1, ElementOfSeq, LenProperties
     DEF Inv, NetChanInv, DeliveredInv, DeliveredIntact
<1> HIDE DEF e
<1>5. Arrived' = Append(Arrived, sent[s])
  BY <1>1, <1>2, <1>3, <1>4, ArrivedProperties DEF e
<1>6. Channel!Receive(s)
  BY <1>5 DEF Channel!Receive, Arrived
<1> QED
  BY <1>6 DEF Channel!Next

LEMMA StutterRefines ==
    ASSUME UNCHANGED <<sent, delivered>>,
           in'.incomingSequence = in.incomingSequence
    PROVE  UNCHANGED Channel!vars
  BY DEF Channel!vars

(* The empty channel is the empty abstract channel. *)
LEMMA InitRefines == Init => Channel!Init
<1> SUFFICES ASSUME Init PROVE Channel!Init
  OBVIOUS
<1>1. delivered = <<>> /\ sent = <<>> /\ in.incomingSequence = 0
  BY DEF Init, SetupIn
<1>2. [i \in DOMAIN delivered |-> delivered[i].data] = <<>>
  BY <1>1
<1> QED
  BY <1>1, <1>2 DEF Channel!Init

(* A step of the channel is a step of the abstract one or leaves it as it    *)
(* is: fragments are not seen.                                               *)
LEMMA NextRefines ==
    ASSUME Inv, [Next]_vars
    PROVE  [Channel!Next]_(Channel!vars)
<1>1. ASSUME NEW m \in Message, Transmit(m)
      PROVE  Channel!Next
  <2>1. Channel!Send(m)
    BY <1>1 DEF Transmit, Channel!Send
  <2> QED
    BY <2>1 DEF Channel!Next
<1>2. CASE TransmitNextFragment
  BY <1>2, StutterRefines DEF TransmitNextFragment
<1>3. ASSUME NEW p \in network, Process(p)
      PROVE  [Channel!Next]_(Channel!vars)
  <2>1. CASE DiscardStale(p)
    BY <2>1, StutterRefines DEF DiscardStale, vars
  <2>2. CASE ProcessWhole(p)
    <3>1. p.sequence \in DOMAIN sent /\ p.data = sent[p.sequence]
      BY <2>2 DEF ProcessWhole, Inv, NetChanInv, IsSlice
    <3>2. p.sequence > in.incomingSequence
      BY <2>2 DEF ProcessWhole, IsStale, Inv, TypeOK, InHalf, Packet
    <3>3. /\ in'.incomingSequence = p.sequence
          /\ sent' = sent
          /\ delivered' = Append(delivered,
                                 [sequence |-> p.sequence, data |-> p.data])
      BY <2>2 DEF ProcessWhole, Deliver, Inv, TypeOK, InHalf
    <3> QED
      BY <3>1, <3>2, <3>3, DeliveryRefines
  <2>3. CASE ProcessFragment(p)
    <3>1. in'.incomingSequence = in.incomingSequence
      BY <2>3 DEF ProcessFragment, AfterMoreToFollow, Assembling,
                  Inv, TypeOK, InHalf
    <3> QED
      BY <2>3, <3>1, StutterRefines DEF ProcessFragment
  <2>4. CASE FinishMessage(p)
    <3>1. p.sequence \in DOMAIN sent /\ Assembled(in, p) = sent[p.sequence]
      BY <2>4, FinishedIsWhole
    <3>2. p.sequence > in.incomingSequence
      BY <2>4 DEF FinishMessage, IsStale, Inv, TypeOK, InHalf, Packet
    <3>3. /\ in'.incomingSequence = p.sequence
          /\ sent' = sent
          /\ delivered' = Append(delivered,
                             [sequence |-> p.sequence, data |-> Assembled(in, p)])
      BY <2>4 DEF FinishMessage, Deliver, Assembling, Inv, TypeOK, InHalf
    <3> QED
      BY <3>1, <3>2, <3>3, DeliveryRefines
  <2> QED
    BY <1>3, <2>1, <2>2, <2>3, <2>4 DEF Process
<1>4. CASE UNCHANGED vars
  BY <1>4, StutterRefines DEF vars
<1> QED
  BY <1>1, <1>2, <1>3, <1>4 DEF Next

(* The channel as a whole is an unreliable ordered channel of messages: it   *)
(* implements MessageChannel, with fragments, buffers and sequence numbers   *)
(* hidden.                                                                   *)
THEOREM Refinement == Spec => ImplementsChannel
BY InitRefines, NextRefines, Invariance, PTL
   DEF Spec, ImplementsChannel, Channel!Spec

-----------------------------------------------------------------------------
(* The send queue in front of the channel: the send path as a value. *)

PathType == [out : OutHalf, network : SUBSET Packet, sent : Seq(Message),
             queue : Seq(Message)]

PathAgrees(s) ==
    /\ s \in PathType
    /\ \A p \in s.network : IsSlice(s.sent, p)
    /\ SenderAgrees(s.sent, s.out)

(* Netchan_Transmit of an idle channel keeps the path in agreement.         *)
LEMMA TransmittedAgrees ==
    ASSUME NEW s, PathAgrees(s), ~s.out.unsentFragments, NEW m \in Message
    PROVE  /\ PathAgrees(Transmitted(s, m))
           /\ Transmitted(s, m).out = AfterTransmit(s.out, m)
           /\ Transmitted(s, m).network = s.network \cup {TransmitPacket(s.out, m)}
           /\ Transmitted(s, m).sent = Append(s.sent, m)
           /\ Transmitted(s, m).queue = s.queue
<1> DEFINE t == Transmitted(s, m)
<1>1. /\ s.out \in OutHalf /\ s.network \in SUBSET Packet
      /\ s.sent \in Seq(Message) /\ s.queue \in Seq(Message)
      /\ SenderAgrees(s.sent, s.out)
      /\ \A p \in s.network : IsSlice(s.sent, p)
  BY DEF PathAgrees, PathType
<1>2. /\ t.out = AfterTransmit(s.out, m)
      /\ t.network = s.network \cup {TransmitPacket(s.out, m)}
      /\ t.sent = Append(s.sent, m)
      /\ t.queue = s.queue
  BY DEF Transmitted, PathAgrees, PathType
<1>3. /\ TransmitPacket(s.out, m) \in Packet
      /\ IsSlice(Append(s.sent, m), TransmitPacket(s.out, m))
      /\ AfterTransmit(s.out, m) \in OutHalf
      /\ SenderAgrees(Append(s.sent, m), AfterTransmit(s.out, m))
  BY <1>1, TransmitAgrees
<1>4. Append(s.sent, m) \in Seq(Message)
  BY <1>1, AppendKeeps
<1>5. \A p \in t.network : IsSlice(t.sent, p)
  BY <1>1, <1>2, <1>3, SendingKeepsThePast
<1>6. t \in PathType
  <2>1. s.network \cup {TransmitPacket(s.out, m)} \in SUBSET Packet
    BY <1>1, <1>3
  <2> QED
    BY <1>3, <1>4, <2>1 DEF Transmitted, PathAgrees, PathType
<1> QED
  BY <1>2, <1>3, <1>5, <1>6 DEF PathAgrees

(* So does Netchan_TransmitNextFragment of a channel with fragments unsent. *)
LEMMA FragmentSentAgrees ==
    ASSUME NEW s, PathAgrees(s), s.out.unsentFragments
    PROVE  /\ PathAgrees(FragmentSent(s))
           /\ FragmentSent(s).out = AfterFragment(s.out)
           /\ FragmentSent(s).network = s.network \cup {FragmentPacket(s.out)}
           /\ FragmentSent(s).sent = s.sent
           /\ FragmentSent(s).queue = s.queue
<1> DEFINE t == FragmentSent(s)
<1>1. /\ s.out \in OutHalf /\ s.network \in SUBSET Packet
      /\ s.sent \in Seq(Message) /\ s.queue \in Seq(Message)
      /\ SenderAgrees(s.sent, s.out)
      /\ \A p \in s.network : IsSlice(s.sent, p)
  BY DEF PathAgrees, PathType
<1>2. /\ t.out = AfterFragment(s.out)
      /\ t.network = s.network \cup {FragmentPacket(s.out)}
      /\ t.sent = s.sent /\ t.queue = s.queue
  BY DEF FragmentSent, PathAgrees, PathType
<1>3. /\ Len(s.sent) \in Nat
      /\ s.out.outgoingSequence = Len(s.sent)
      /\ s.out.outgoingSequence \in Nat \ {0}
      /\ s.out.unsentBuffer = s.sent[Len(s.sent)]
      /\ NeedsFragments(s.out.unsentBuffer)
      /\ s.out.unsentFragmentStart <= Len(s.out.unsentBuffer)
  BY <1>1, LenProperties DEF SenderAgrees, OutHalf
<1>4. s.sent # <<>> /\ Len(s.sent) \in DOMAIN s.sent
  BY <1>1, <1>3, LenProperties, EmptySeq
<1>5. FragmentPacket(s.out) \in Packet /\ IsSlice(s.sent, FragmentPacket(s.out))
  BY <1>1, <1>3, <1>4, FragmentPacketIsSlice
<1>6. AfterFragment(s.out) \in OutHalf /\ SenderAgrees(s.sent, AfterFragment(s.out))
  BY <1>1, <1>4, AfterFragmentAgrees
<1>7. t \in PathType
  <2>1. s.network \cup {FragmentPacket(s.out)} \in SUBSET Packet
    BY <1>1, <1>5
  <2> QED
    BY <1>6, <2>1 DEF FragmentSent, PathAgrees, PathType
<1> QED
  BY <1>1, <1>2, <1>5, <1>6, <1>7 DEF PathAgrees

(* The head of a queue and the rest of it.                                  *)
LEMMA QueueParts ==
    ASSUME NEW S, NEW q \in Seq(S), q # <<>>
    PROVE  /\ Head(q) \in S /\ Tail(q) \in Seq(S)
           /\ q = <<Head(q)>> \o Tail(q)
           /\ Len(Tail(q)) = Len(q) - 1 /\ Len(q) \in Nat \ {0}
           /\ Head(q) = q[1]
           /\ \A i \in 1 .. Len(q) - 1 : Tail(q)[i] = q[i + 1]
BY HeadTailProperties

(* What a call of SV_Netchan_Transmit does to the send path.                *)
LEMMA SvTransmitAgrees ==
    ASSUME NEW s, PathAgrees(s), NEW m \in Message
    PROVE  LET t == SvTransmit(s, m)
           IN  /\ PathAgrees(t)
               /\ \/ /\ s.out.unsentFragments
                     /\ t.out = AfterFragment(s.out)
                     /\ t.sent = s.sent /\ t.queue = Append(s.queue, m)
                  \/ /\ ~s.out.unsentFragments
                     /\ t.out = AfterTransmit(s.out, m)
                     /\ t.sent = Append(s.sent, m) /\ t.queue = s.queue
<1>1. CASE s.out.unsentFragments
  <2> DEFINE t == FragmentSent(s)
  <2>1. /\ PathAgrees(t)
        /\ t.out = AfterFragment(s.out)
        /\ t.sent = s.sent /\ t.queue = s.queue
    BY <1>1, FragmentSentAgrees
  <2>2. SvTransmit(s, m) = [t EXCEPT !.queue = Append(@, m)]
    BY <1>1 DEF SvTransmit
  <2>3. Append(t.queue, m) \in Seq(Message)
    BY <2>1, AppendKeeps DEF PathAgrees, PathType
  <2> HIDE DEF t
  <2>4. /\ SvTransmit(s, m) \in PathType
        /\ SvTransmit(s, m).out = t.out
        /\ SvTransmit(s, m).network = t.network
        /\ SvTransmit(s, m).sent = t.sent
        /\ SvTransmit(s, m).queue = Append(t.queue, m)
    BY <2>1, <2>2, <2>3 DEF PathAgrees, PathType
  <2> QED
    BY <1>1, <2>1, <2>4 DEF PathAgrees
<1>2. CASE ~s.out.unsentFragments
  BY <1>2, TransmittedAgrees DEF SvTransmit
<1> QED
  BY <1>1, <1>2

(* What SV_Netchan_TransmitNextFragment does to it: it sends a fragment and *)
(* nothing else, or the last one and the head of the queue.                 *)
LEMMA SvTransmitNextFragmentAgrees ==
    ASSUME NEW s, PathAgrees(s), s.out.unsentFragments
    PROVE  LET t == SvTransmitNextFragment(s)
               c == AfterFragment(s.out)
           IN  /\ PathAgrees(t)
               /\ \/ /\ c.unsentFragments \/ s.queue = <<>>
                     /\ t.out = c /\ t.sent = s.sent /\ t.queue = s.queue
                  \/ /\ ~c.unsentFragments /\ s.queue # <<>>
                     /\ t.out = AfterTransmit(c, Head(s.queue))
                     /\ t.sent = Append(s.sent, Head(s.queue))
                     /\ t.queue = Tail(s.queue)
<1> DEFINE t == FragmentSent(s)
<1>1. /\ PathAgrees(t)
      /\ t.out = AfterFragment(s.out) /\ t.sent = s.sent /\ t.queue = s.queue
  BY FragmentSentAgrees
<1> HIDE DEF t
<1>2. CASE ~t.out.unsentFragments /\ t.queue # <<>>
  <2> DEFINE m == Head(t.queue)
             u == Transmitted(t, m)
  <2>1. t.queue \in Seq(Message) /\ m \in Message /\ Tail(t.queue) \in Seq(Message)
    BY <1>1, <1>2, QueueParts DEF PathAgrees, PathType
  <2>2. /\ PathAgrees(u)
        /\ u.out = AfterTransmit(t.out, m)
        /\ u.sent = Append(t.sent, m) /\ u.queue = t.queue
    BY <1>1, <1>2, <2>1, TransmittedAgrees
  <2>3. SvTransmitNextFragment(s) = [u EXCEPT !.queue = Tail(@)]
    BY <1>2 DEF SvTransmitNextFragment, t
  <2> HIDE DEF u
  <2>4. /\ SvTransmitNextFragment(s) \in PathType
        /\ SvTransmitNextFragment(s).out = u.out
        /\ SvTransmitNextFragment(s).network = u.network
        /\ SvTransmitNextFragment(s).sent = u.sent
        /\ SvTransmitNextFragment(s).queue = Tail(u.queue)
    BY <2>1, <2>2, <2>3 DEF PathAgrees, PathType
  <2> QED
    BY <1>1, <1>2, <2>2, <2>4 DEF PathAgrees
<1>3. CASE ~(~t.out.unsentFragments /\ t.queue # <<>>)
  <2>1. SvTransmitNextFragment(s) = t
    BY <1>3 DEF SvTransmitNextFragment, t
  <2> QED
    BY <1>1, <1>3, <2>1
<1> QED
  BY <1>2, <1>3

-----------------------------------------------------------------------------
(* What the steps do to the three sequences: the messages handed over, sent *)
(* and waiting.                                                             *)

(* A message is handed over: it waits behind the fragments of another one,  *)
(* or it is sent.                                                           *)
Waits(m) ==
    /\ out.unsentFragments
    /\ sent' = sent /\ queue' = Append(queue, m)
    /\ submitted' = Append(submitted, m)

GoesOut(m) ==
    /\ ~out.unsentFragments
    /\ sent' = Append(sent, m) /\ queue' = queue
    /\ submitted' = Append(submitted, m)

(* A fragment is sent: that is all, or the head of the queue goes out too.  *)
Continued ==
    /\ out.unsentFragments
    /\ sent' = sent /\ queue' = queue /\ submitted' = submitted

Popped ==
    /\ queue # <<>>
    /\ sent' = Append(sent, Head(queue)) /\ queue' = Tail(queue)
    /\ submitted' = submitted

SvInv == SvTypeOK /\ NetChanInv

LEMMA PathIsTyped ==
    ASSUME SvInv
    PROVE  /\ PathAgrees(Path)
           /\ Path.out = out /\ Path.network = network
           /\ Path.sent = sent /\ Path.queue = queue
  BY DEF SvInv, SvTypeOK, TypeOK, NetChanInv, PathAgrees, PathType, Path

LEMMA SnapshotsAreMessages ==
    Snapshot \subseteq Message /\ GameState \subseteq Message
  BY SvNetChanAssumption

(* A step of the send path that leaves it in agreement keeps the invariant  *)
(* of the channel: the receiver's half and the deliveries speak of messages *)
(* that stay where they are.                                                *)
LEMMA PathStepInv ==
    ASSUME SvInv, NEW t, PathAgrees(t), IsNextPath(t),
           t.sent = sent \/ \E m \in Message : t.sent = Append(sent, m),
           UNCHANGED <<in, delivered>>
    PROVE  Inv' /\ queue' \in Seq(Message)
<1>1. /\ out' \in OutHalf /\ network' \subseteq Packet
      /\ sent' \in Seq(Message) /\ queue' \in Seq(Message)
      /\ \A p \in network' : IsSlice(sent', p)
      /\ SenderAgrees(sent', out')
      /\ sent' = t.sent
  BY DEF IsNextPath, PathAgrees, PathType
<1>2. /\ sent \in Seq(Message) /\ in \in InHalf /\ delivered \in Seq(Delivery)
      /\ ReceiverAgrees(sent, in) /\ DeliveredInv
  BY DEF SvInv, SvTypeOK, TypeOK, NetChanInv
<1>3. /\ ReceiverAgrees(sent', in)
      /\ DOMAIN sent \subseteq DOMAIN sent'
      /\ \A i \in DOMAIN sent : sent'[i] = sent[i]
  <2>1. CASE t.sent = sent
    BY <1>1, <1>2, <2>1
  <2>2. ASSUME NEW m \in Message, t.sent = Append(sent, m)
        PROVE  /\ ReceiverAgrees(sent', in)
               /\ DOMAIN sent \subseteq DOMAIN sent'
               /\ \A i \in DOMAIN sent : sent'[i] = sent[i]
    BY <1>1, <1>2, <2>2, SendingKeepsThePast, AppendKeeps, LenProperties
  <2> QED
    BY <2>1, <2>2
<1>4. DeliveredInv'
  BY <1>2, <1>3 DEF DeliveredInv, DeliveredIntact, DeliveredInOrder
<1>5. TypeOK'
  BY <1>1, <1>2 DEF TypeOK
<1>6. NetChanInv'
  BY <1>1, <1>3, <1>4 DEF NetChanInv
<1> QED
  BY <1>1, <1>5, <1>6 DEF Inv

(* The histories of a step.                                                 *)
LEMMA SubmitsTyped ==
    ASSUME SvInv, NEW ms \in Seq(Message), Submits(ms)
    PROVE  /\ submitted' \in Seq(Message) /\ stranded' \in BOOLEAN
           /\ ms = <<>> => submitted' = submitted
           /\ \A m \in Message : ms = <<m>> => submitted' = Append(submitted, m)
<1>1. submitted \in Seq(Message) /\ stranded \in BOOLEAN
  BY DEF SvInv, SvTypeOK
<1>2. submitted' = submitted \o ms
  BY DEF Submits
<1>3. submitted' \in Seq(Message)
  BY <1>1, <1>2, ConcatProperties
<1>4. ms = <<>> => submitted' = submitted
  BY <1>1, <1>2, ConcatEmptySeq
<1>5. \A m \in Message : ms = <<m>> => submitted' = Append(submitted, m)
  BY <1>1, <1>2, AppendIsConcat
<1>6. stranded' \in BOOLEAN
  BY DEF Submits
<1> QED
  BY <1>3, <1>4, <1>5, <1>6

(* A message handed to SV_Netchan_Transmit.                                 *)
LEMMA SvTransmitStep ==
    ASSUME SvInv, NEW m \in Message, IsNextPath(SvTransmit(Path, m)), Submits(<<m>>),
           UNCHANGED <<in, delivered>>
    PROVE  /\ Inv' /\ queue' \in Seq(Message)
           /\ submitted' \in Seq(Message) /\ stranded' \in BOOLEAN
           /\ \/ Waits(m) /\ out' = AfterFragment(out)
              \/ GoesOut(m) /\ out' = AfterTransmit(out, m)
<1> DEFINE t == SvTransmit(Path, m)
<1>1. /\ PathAgrees(t)
      /\ \/ /\ out.unsentFragments
            /\ t.out = AfterFragment(out)
            /\ t.sent = sent /\ t.queue = Append(queue, m)
         \/ /\ ~out.unsentFragments
            /\ t.out = AfterTransmit(out, m)
            /\ t.sent = Append(sent, m) /\ t.queue = queue
  BY PathIsTyped, SvTransmitAgrees
<1>2. <<m>> \in Seq(Message)
  OBVIOUS
<1>3. /\ submitted' \in Seq(Message) /\ stranded' \in BOOLEAN
      /\ submitted' = Append(submitted, m)
  BY <1>2, SubmitsTyped
<1> HIDE DEF t
<1>4. IsNextPath(t)
  BY DEF t
<1>5. Inv' /\ queue' \in Seq(Message)
  BY <1>1, <1>4, PathStepInv
<1> QED
  BY <1>1, <1>3, <1>4, <1>5 DEF Waits, GoesOut, IsNextPath

(* A fragment sent by SV_Netchan_TransmitNextFragment.                      *)
LEMMA SendFragmentStep ==
    ASSUME SvInv, SendFragment
    PROVE  /\ Inv' /\ queue' \in Seq(Message)
           /\ submitted' \in Seq(Message) /\ stranded' \in BOOLEAN
           /\ out.unsentFragments
           /\ \/ /\ Continued /\ out' = AfterFragment(out)
                 /\ AfterFragment(out).unsentFragments \/ queue = <<>>
              \/ /\ Popped
                 /\ ~AfterFragment(out).unsentFragments
                 /\ out' = AfterTransmit(AfterFragment(out), Head(queue))
<1> DEFINE t == SvTransmitNextFragment(Path)
           c == AfterFragment(out)
<1>1. out.unsentFragments /\ UNCHANGED <<in, delivered>>
  BY DEF SendFragment
<1>2. /\ PathAgrees(t)
      /\ \/ /\ c.unsentFragments \/ queue = <<>>
            /\ t.out = c /\ t.sent = sent /\ t.queue = queue
         \/ /\ ~c.unsentFragments /\ queue # <<>>
            /\ t.out = AfterTransmit(c, Head(queue))
            /\ t.sent = Append(sent, Head(queue)) /\ t.queue = Tail(queue)
  BY <1>1, PathIsTyped, SvTransmitNextFragmentAgrees
<1>3. <<>> \in Seq(Message)
  BY EmptySeq
<1>4. /\ submitted' \in Seq(Message) /\ stranded' \in BOOLEAN
      /\ submitted' = submitted
  BY <1>3, SubmitsTyped DEF SendFragment
<1>5. IsNextPath(t)
  BY DEF SendFragment
<1>6. queue # <<>> => Head(queue) \in Message
  BY QueueParts DEF SvInv, SvTypeOK
<1> HIDE DEF t
<1>7. Inv' /\ queue' \in Seq(Message)
  BY <1>1, <1>2, <1>5, <1>6, PathStepInv
<1> QED
  BY <1>1, <1>2, <1>4, <1>5, <1>7 DEF Continued, Popped, IsNextPath

-----------------------------------------------------------------------------
(* Types and the agreement of the channel. *)

LEMMA SvInitInv == SvInit => SvInv
<1> SUFFICES ASSUME SvInit
             PROVE  SvInv
  OBVIOUS
<1>1. Inv
  BY InitInv DEF SvInit
<1>2. queue \in Seq(Message) /\ submitted \in Seq(Message)
  BY EmptySeq DEF SvInit
<1>3. gameStates \in 0 .. MaxGameStates
  BY SvNetChanAssumption DEF SvInit
<1> QED
  BY <1>1, <1>2, <1>3 DEF Inv, SvInv, SvTypeOK, SvInit

LEMMA ReceiveInv ==
    ASSUME SvInv, NEW p \in network, Receive(p)
    PROVE  Inv'
<1>1. Inv /\ [Next]_vars
  BY DEF SvInv, SvTypeOK, Inv, Receive, Next
<1> QED
  BY <1>1, NextInv

LEMMA SvNextInv ==
    ASSUME SvInv, [SvNext]_svVars
    PROVE  SvInv'
<1>1. /\ frame \in {0, 1} /\ gameStates \in 0 .. MaxGameStates
      /\ queue \in Seq(Message) /\ submitted \in Seq(Message)
      /\ stranded \in BOOLEAN /\ Inv
  BY DEF SvInv, SvTypeOK, Inv
<1>2. CASE SendFragment
  BY <1>1, <1>2, SendFragmentStep DEF SendFragment, SvInv, SvTypeOK, Inv
<1>3. ASSUME NEW m \in Snapshot, SendSnapshot(m)
      PROVE  SvInv'
  BY <1>1, <1>3, SvTransmitStep, SnapshotsAreMessages
     DEF SendSnapshot, SvInv, SvTypeOK, Inv
<1>4. ASSUME NEW m \in GameState, SendGameState(m)
      PROVE  SvInv'
  <2>1. gameStates' \in 0 .. MaxGameStates
    BY <1>1, <1>4, SvNetChanAssumption DEF SendGameState
  <2> QED
    BY <1>1, <1>4, <2>1, SvTransmitStep, SnapshotsAreMessages
       DEF SendGameState, SvInv, SvTypeOK, Inv
<1>5. ASSUME NEW p \in network, Receive(p)
      PROVE  SvInv'
  BY <1>1, <1>5, ReceiveInv DEF Receive, SvInv, SvTypeOK, Inv
<1>6. CASE UNCHANGED svVars
  <2>1. Inv'
    BY <1>1, <1>6, StutterInv DEF svVars
  <2> QED
    BY <1>1, <1>6, <2>1 DEF svVars, SvInv, SvTypeOK, Inv
<1> QED
  BY <1>2, <1>3, <1>4, <1>5, <1>6 DEF SvNext

LEMMA SvInvariance == SvSpec => []SvInv
BY SvInitInv, SvNextInv, PTL DEF SvSpec

(* The send path keeps its types.                                           *)
THEOREM SvTypeCorrect == SvSpec => []SvTypeOK
<1>1. SvInv => SvTypeOK
  BY DEF SvInv
<1> QED
  BY <1>1, SvInvariance, PTL

(* With the queue in front of it, two calls in one step and messages that   *)
(* arrive over unsent fragments, the channel agrees with its history as a   *)
(* bare channel does (sv_net_chan.c:130-205, net_chan.c:200-290).           *)
THEOREM SvChannelAgrees == SvSpec => []NetChanInv
<1>1. SvInv => NetChanInv
  BY DEF SvInv
<1> QED
  BY <1>1, SvInvariance, PTL

-----------------------------------------------------------------------------
(* Every step of the server is one of five as far as the histories go.      *)
LEMMA HistorySteps ==
    ASSUME SvInv, [SvNext]_svVars
    PROVE  \/ \E m \in Snapshot \cup GameState :
                 /\ Waits(m) \/ GoesOut(m)
                 /\ stranded' = (stranded \/ (~out'.unsentFragments /\ queue' # <<>>))
           \/ /\ Continued \/ Popped
              /\ out.unsentFragments
              /\ stranded' = (stranded \/ (~out'.unsentFragments /\ queue' # <<>>))
           \/ UNCHANGED <<out, sent, queue, submitted, stranded>>
<1>1. CASE SendFragment
  BY <1>1, SendFragmentStep DEF SendFragment, Submits
<1>2. ASSUME NEW m \in Snapshot, SendSnapshot(m)
      PROVE  /\ Waits(m) \/ GoesOut(m)
             /\ stranded' = (stranded \/ (~out'.unsentFragments /\ queue' # <<>>))
  BY <1>2, SvTransmitStep, SnapshotsAreMessages DEF SendSnapshot, Submits
<1>3. ASSUME NEW m \in GameState, SendGameState(m)
      PROVE  /\ Waits(m) \/ GoesOut(m)
             /\ stranded' = (stranded \/ (~out'.unsentFragments /\ queue' # <<>>))
  BY <1>3, SvTransmitStep, SnapshotsAreMessages DEF SendGameState, Submits
<1>4. ASSUME NEW p \in network, Receive(p)
      PROVE  UNCHANGED <<out, sent, queue, submitted, stranded>>
  BY <1>4 DEF Receive, Process, DiscardStale, ProcessWhole, ProcessFragment,
              FinishMessage, vars
<1>5. CASE UNCHANGED svVars
  BY <1>5 DEF svVars, vars
<1> QED
  BY <1>1, <1>2, <1>3, <1>4, <1>5 DEF SvNext

-----------------------------------------------------------------------------
(* The order of the queue. *)

(* Until it is stranded, the queue waits behind fragments that pull it.     *)
OrderInv == ~stranded => SentInOrder /\ (queue # <<>> => out.unsentFragments)

LEMMA OrderInvStep ==
    ASSUME SvInv, OrderInv, [SvNext]_svVars
    PROVE  OrderInv'
<1>1. sent \in Seq(Message) /\ queue \in Seq(Message) /\ submitted \in Seq(Message)
  BY DEF SvInv, SvTypeOK, TypeOK
<1>2. ASSUME NEW m \in Snapshot \cup GameState, Waits(m), SentInOrder
      PROVE  SentInOrder'
  <2>1. m \in Message
    BY SnapshotsAreMessages
  <2>2. <<m>> \in Seq(Message)
    BY <2>1
  <2>3. sent \o (queue \o <<m>>) = (sent \o queue) \o <<m>>
    BY <1>1, <2>2, ConcatAssociative
  <2>4. queue' = queue \o <<m>> /\ submitted' = submitted \o <<m>>
    BY <1>1, <1>2, <2>1, AppendIsConcat DEF Waits
  <2> QED
    BY <1>2, <2>3, <2>4 DEF SentInOrder, Waits
<1>3. ASSUME NEW m \in Snapshot \cup GameState, GoesOut(m), SentInOrder, queue = <<>>
      PROVE  SentInOrder'
  <2>1. m \in Message
    BY SnapshotsAreMessages
  <2>2. Append(sent, m) \in Seq(Message)
    BY <1>1, <2>1, AppendProperties
  <2>3. sent = submitted
    BY <1>1, <1>3, ConcatEmptySeq DEF SentInOrder
  <2>4. sent' \o queue' = sent'
    BY <1>3, <2>2, ConcatEmptySeq DEF GoesOut
  <2> QED
    BY <1>3, <2>3, <2>4 DEF SentInOrder, GoesOut
<1>4. ASSUME Popped, SentInOrder
      PROVE  SentInOrder'
  <2>1. /\ Head(queue) \in Message /\ Tail(queue) \in Seq(Message)
        /\ queue = <<Head(queue)>> \o Tail(queue)
    BY <1>1, <1>4, QueueParts DEF Popped
  <2>2. <<Head(queue)>> \in Seq(Message)
    BY <2>1
  <2>3. sent' = sent \o <<Head(queue)>>
    BY <1>1, <1>4, <2>1, AppendIsConcat DEF Popped
  <2>4. sent' \o Tail(queue) = sent \o queue
    BY <1>1, <2>1, <2>2, <2>3, ConcatAssociative
  <2> QED
    BY <1>4, <2>4 DEF SentInOrder, Popped
<1>5. CASE stranded
  BY <1>5, HistorySteps DEF OrderInv
<1>6. CASE ~stranded
  <2>1. SentInOrder /\ (queue # <<>> => out.unsentFragments)
    BY <1>6 DEF OrderInv
  <2>2. ASSUME NEW m \in Snapshot \cup GameState, Waits(m) \/ GoesOut(m)
        PROVE  SentInOrder'
    BY <1>2, <1>3, <2>1, <2>2 DEF GoesOut
  <2>3. ASSUME Continued
        PROVE  SentInOrder'
    BY <2>1, <2>3 DEF SentInOrder, Continued
  <2>4. ASSUME Popped
        PROVE  SentInOrder'
    BY <1>4, <2>1, <2>4
  <2>5. CASE UNCHANGED <<out, sent, queue, submitted, stranded>>
    BY <2>1, <2>5 DEF SentInOrder, OrderInv
  <2> QED
    BY <1>6, <2>2, <2>3, <2>4, <2>5, HistorySteps DEF OrderInv
<1> QED
  BY <1>5, <1>6

(* "buffer them and make sure they get sent in correct order"               *)
(* (sv_net_chan.c:171-172): the messages handed over are those sent and     *)
(* then those that wait, in this order, unless an SV_Netchan_Transmit sent  *)
(* the last fragment itself and left the queue behind an idle channel.      *)
THEOREM OrderIsKept == SvSpec => []OrderedUnlessStranded
<1>1. SvInit => OrderInv
  <2> SUFFICES ASSUME SvInit
               PROVE  OrderInv
    OBVIOUS
  <2>1. sent = <<>> /\ queue = <<>> /\ submitted = <<>>
    BY DEF SvInit, Init
  <2>2. sent \o queue = submitted
    BY <2>1
  <2> QED
    BY <2>1, <2>2 DEF OrderInv, SentInOrder
<1>2. OrderInv => OrderedUnlessStranded
  BY DEF OrderInv, OrderedUnlessStranded
<1> QED
  BY <1>1, <1>2, SvInvariance, OrderInvStep, PTL DEF SvSpec

-----------------------------------------------------------------------------
(* Counting messages. *)

(* A message put at the end of a sequence occurs once more in it.           *)
LEMMA AppendCounts ==
    ASSUME NEW S, NEW s \in Seq(S), NEW e \in S, NEW m
    PROVE  /\ IsFiniteSet(Occurrences(s, m)) /\ Cardinality(Occurrences(s, m)) \in Nat
           /\ Cardinality(Occurrences(Append(s, e), m))
                = Cardinality(Occurrences(s, m)) + (IF e = m THEN 1 ELSE 0)
<1>1. /\ Len(s) \in Nat /\ DOMAIN s = 1 .. Len(s)
      /\ DOMAIN Append(s, e) = 1 .. Len(s) + 1
      /\ \A i \in DOMAIN s : Append(s, e)[i] = s[i]
      /\ Append(s, e)[Len(s) + 1] = e
  BY AppendKeeps, LenProperties
<1>2. Occurrences(s, m) \in SUBSET (1 .. Len(s))
  BY <1>1 DEF Occurrences
<1>3. IsFiniteSet(1 .. Len(s))
  BY <1>1, FS_Interval
<1>4. IsFiniteSet(Occurrences(s, m)) /\ Cardinality(Occurrences(s, m)) \in Nat
  BY <1>2, <1>3, FS_Subset, FS_CardinalityType
<1>5. CASE e = m
  <2>1. Occurrences(Append(s, e), m) = Occurrences(s, m) \cup {Len(s) + 1}
    BY <1>1, <1>5 DEF Occurrences
  <2>2. Len(s) + 1 \notin Occurrences(s, m)
    BY <1>1, <1>2
  <2> QED
    BY <1>4, <1>5, <2>1, <2>2, FS_AddElement
<1>6. CASE e # m
  <2>1. Occurrences(Append(s, e), m) = Occurrences(s, m)
    BY <1>1, <1>6 DEF Occurrences
  <2> QED
    BY <1>4, <1>6, <2>1
<1> QED
  BY <1>4, <1>5, <1>6

(* The head of a sequence occurs once less in the rest of it.               *)
LEMMA TailCounts ==
    ASSUME NEW S, NEW q \in Seq(S), q # <<>>, NEW m
    PROVE  /\ Cardinality(Occurrences(Tail(q), m)) \in Nat
           /\ Cardinality(Occurrences(q, m))
                = Cardinality(Occurrences(Tail(q), m)) + (IF Head(q) = m THEN 1 ELSE 0)
<1> DEFINE T == Occurrences(Tail(q), m)
           U == Occurrences(q, m) \ {1}
           f == [i \in T |-> i + 1]
<1>1. /\ Len(q) \in Nat \ {0} /\ DOMAIN q = 1 .. Len(q)
      /\ Tail(q) \in Seq(S) /\ Len(Tail(q)) = Len(q) - 1
      /\ Head(q) = q[1]
      /\ \A i \in 1 .. Len(q) - 1 : Tail(q)[i] = q[i + 1]
  BY QueueParts, LenProperties
<1>2. DOMAIN Tail(q) = 1 .. Len(q) - 1
  BY <1>1, LenProperties
<1>3. T = {i \in 1 .. Len(q) - 1 : q[i + 1] = m}
  BY <1>1, <1>2 DEF Occurrences
<1>4. U = {i \in 2 .. Len(q) : q[i] = m}
  BY <1>1 DEF Occurrences
<1>5. IsFiniteSet(1 .. Len(q)) /\ IsFiniteSet(1 .. Len(q) - 1)
  BY <1>1, FS_Interval
<1>6. IsFiniteSet(T) /\ Cardinality(T) \in Nat
  BY <1>3, <1>5, FS_Subset, FS_CardinalityType
<1>7. f \in Bijection(T, U)
  <2>1. f \in [T -> U]
    BY <1>1, <1>3, <1>4
  <2>2. \A i, j \in T : f[i] = f[j] => i = j
    BY <1>1, <1>3
  <2>3. \A j \in U : \E i \in T : f[i] = j
    <3> SUFFICES ASSUME NEW j \in U
                 PROVE  \E i \in T : f[i] = j
      OBVIOUS
    <3>1. j - 1 \in T /\ (j - 1) + 1 = j
      BY <1>1, <1>3, <1>4
    <3> QED
      BY <3>1
  <2> QED
    BY <2>1, <2>2, <2>3 DEF Bijection, Injection, Surjection, IsInjective
<1>8. IsFiniteSet(U) /\ Cardinality(U) = Cardinality(T)
  BY <1>6, <1>7, FS_Bijection DEF ExistsBijection
<1>9. IsFiniteSet(Occurrences(q, m))
  BY <1>1, <1>5, FS_Subset DEF Occurrences
<1>10. 1 \in Occurrences(q, m) <=> Head(q) = m
  BY <1>1 DEF Occurrences
<1>11. Cardinality(U) = IF Head(q) = m THEN Cardinality(Occurrences(q, m)) - 1
                        ELSE Cardinality(Occurrences(q, m))
  BY <1>9, <1>10, FS_RemoveElement
<1>12. Cardinality(Occurrences(q, m)) \in Nat
  BY <1>9, FS_CardinalityType
<1> HIDE DEF T, U
<1>13. Cardinality(Occurrences(q, m)) = Cardinality(T) + (IF Head(q) = m THEN 1 ELSE 0)
  BY <1>6, <1>8, <1>11, <1>12
<1> QED
  BY <1>6, <1>13 DEF T

(* What was handed over is what was sent and what waits, message by         *)
(* message: the queue loses none and sends none twice, even when it is      *)
(* stranded (sv_net_chan.c:144-159 and 178-193).                            *)
THEOREM NothingIsLost == SvSpec => []QueueLosesNothing
<1>1. SvInit => QueueLosesNothing
  <2> SUFFICES ASSUME SvInit, NEW m
               PROVE  Cardinality(Occurrences(submitted, m))
                        = Cardinality(Occurrences(sent, m))
                            + Cardinality(Occurrences(queue, m))
    BY DEF QueueLosesNothing
  <2>1. sent = <<>> /\ queue = <<>> /\ submitted = <<>>
    BY DEF SvInit, Init
  <2>2. Occurrences(<<>>, m) = {}
    BY DEF Occurrences
  <2> QED
    BY <2>1, <2>2, FS_EmptySet
<1>2. ASSUME SvInv, QueueLosesNothing, [SvNext]_svVars
      PROVE  QueueLosesNothing'
  <2> SUFFICES ASSUME NEW m \in Snapshot \cup GameState
               PROVE  Cardinality(Occurrences(submitted', m))
                        = Cardinality(Occurrences(sent', m))
                            + Cardinality(Occurrences(queue', m))
    BY DEF QueueLosesNothing, Occurrences
  <2>1. sent \in Seq(Message) /\ queue \in Seq(Message) /\ submitted \in Seq(Message)
    BY <1>2 DEF SvInv, SvTypeOK, TypeOK
  <2>2. /\ m \in Message
        /\ Cardinality(Occurrences(sent, m)) \in Nat
        /\ Cardinality(Occurrences(queue, m)) \in Nat
    BY <2>1, SnapshotsAreMessages, AppendCounts
  <2>3. Cardinality(Occurrences(submitted, m))
          = Cardinality(Occurrences(sent, m)) + Cardinality(Occurrences(queue, m))
    BY <1>2 DEF QueueLosesNothing
  <2>4. ASSUME NEW e \in Snapshot \cup GameState, Waits(e) \/ GoesOut(e)
        PROVE  Cardinality(Occurrences(submitted', m))
                 = Cardinality(Occurrences(sent', m))
                     + Cardinality(Occurrences(queue', m))
    <3>1. \A s \in Seq(Message) :
             Cardinality(Occurrences(Append(s, e), m))
               = Cardinality(Occurrences(s, m)) + (IF e = m THEN 1 ELSE 0)
      BY SnapshotsAreMessages, AppendCounts
    <3>2. /\ Cardinality(Occurrences(Append(sent, e), m))
              = Cardinality(Occurrences(sent, m)) + (IF e = m THEN 1 ELSE 0)
          /\ Cardinality(Occurrences(Append(queue, e), m))
              = Cardinality(Occurrences(queue, m)) + (IF e = m THEN 1 ELSE 0)
          /\ Cardinality(Occurrences(Append(submitted, e), m))
              = Cardinality(Occurrences(submitted, m)) + (IF e = m THEN 1 ELSE 0)
      BY <2>1, <3>1
    <3>3. CASE Waits(e)
      BY <2>2, <2>3, <3>2, <3>3 DEF Waits
    <3>4. CASE GoesOut(e)
      BY <2>2, <2>3, <3>2, <3>4 DEF GoesOut
    <3> QED
      BY <2>4, <3>3, <3>4
  <2>5. CASE Popped
    <3>1. Head(queue) \in Message
      BY <2>1, <2>5, QueueParts DEF Popped
    <3>2. Cardinality(Occurrences(sent', m))
            = Cardinality(Occurrences(sent, m)) + (IF Head(queue) = m THEN 1 ELSE 0)
      BY <2>1, <2>5, <3>1, AppendCounts DEF Popped
    <3>3. /\ Cardinality(Occurrences(queue', m)) \in Nat
          /\ Cardinality(Occurrences(queue, m))
               = Cardinality(Occurrences(queue', m)) + (IF Head(queue) = m THEN 1 ELSE 0)
      BY <2>1, <2>5, TailCounts DEF Popped
    <3> QED
      BY <2>2, <2>3, <2>5, <3>2, <3>3 DEF Popped
  <2>6. CASE Continued \/ UNCHANGED <<out, sent, queue, submitted, stranded>>
    BY <2>3, <2>6 DEF Continued
  <2> QED
    BY <1>2, <2>4, <2>5, <2>6, HistorySteps
<1> QED
  BY <1>1, <1>2, SvInvariance, PTL DEF SvSpec

-----------------------------------------------------------------------------
(* Refinement of MessageChannel. *)

(* The abstract channel sends what the step transmits, if anything.         *)
LEMMA SendRefines ==
    ASSUME UNCHANGED <<in, delivered>>,
           sent' = sent \/ \E m \in Message : sent' = Append(sent, m)
    PROVE  [Channel!Next]_(Channel!vars)
<1>1. CASE sent' = sent
  BY <1>1, StutterRefines
<1>2. ASSUME NEW m \in Message, sent' = Append(sent, m)
      PROVE  Channel!Next
  <2>1. Channel!Send(m)
    BY <1>2 DEF Channel!Send
  <2> QED
    BY <2>1 DEF Channel!Next
<1> QED
  BY <1>1, <1>2

(* The server's channel with its queue, two calls in a step included, is    *)
(* still an unreliable ordered channel of whole messages: one message for   *)
(* each sequence number (sv_net_chan.c:130-205).                            *)
THEOREM SvRefinement == SvSpec => ImplementsChannel
<1>1. SvInit => Channel!Init
  BY InitRefines DEF SvInit
<1>2. ASSUME SvInv, [SvNext]_svVars
      PROVE  [Channel!Next]_(Channel!vars)
  <2>1. CASE SendFragment
    <3>1. queue # <<>> => Head(queue) \in Message
      BY <1>2, QueueParts DEF SvInv, SvTypeOK
    <3> QED
      BY <1>2, <2>1, <3>1, SendFragmentStep, SendRefines
         DEF SendFragment, Continued, Popped
  <2>2. ASSUME NEW m \in Snapshot, SendSnapshot(m)
        PROVE  [Channel!Next]_(Channel!vars)
    BY <1>2, <2>2, SnapshotsAreMessages, SvTransmitStep, SendRefines
       DEF SendSnapshot, Waits, GoesOut
  <2>3. ASSUME NEW m \in GameState, SendGameState(m)
        PROVE  [Channel!Next]_(Channel!vars)
    BY <1>2, <2>3, SnapshotsAreMessages, SvTransmitStep, SendRefines
       DEF SendGameState, Waits, GoesOut
  <2>4. ASSUME NEW p \in network, Receive(p)
        PROVE  [Channel!Next]_(Channel!vars)
    <3>1. Inv /\ [Next]_vars
      BY <1>2, <2>4 DEF SvInv, SvTypeOK, Inv, Receive, Next
    <3> QED
      BY <3>1, NextRefines
  <2>5. CASE UNCHANGED svVars
    BY <2>5, StutterRefines DEF svVars, vars
  <2> QED
    BY <1>2, <2>1, <2>2, <2>3, <2>4, <2>5 DEF SvNext
<1> QED
  BY <1>1, <1>2, SvInvariance, PTL DEF SvSpec, ImplementsChannel, Channel!Spec

-----------------------------------------------------------------------------
(* Refinement of SvSendQueue: messages as the number of their datagrams. *)

(* A quotient is what its two bounds say.                                   *)
LEMMA QuotientIs ==
    ASSUME NEW d \in Nat \ {0}, NEW a \in Nat, NEW q \in Nat,
           q * d <= a, a < (q + 1) * d
    PROVE  a \div d = q
OBVIOUS

LEMMA QuotientGrows ==
    ASSUME NEW d \in Nat \ {0}, NEW a \in Nat, NEW b \in Nat, a <= b
    PROVE  /\ a \div d \in Nat /\ b \div d \in Nat
           /\ a \div d <= b \div d
OBVIOUS

LEMMA QuotientStep ==
    ASSUME NEW d \in Nat \ {0}, NEW a \in Nat
    PROVE  a \div d \in Nat /\ (a + d) \div d = a \div d + 1
OBVIOUS

(* Full slices of length d keep a start aligned; less than a slice stays in *)
(* the same one.                                                            *)
LEMMA AlignedStart ==
    ASSUME NEW d \in Nat \ {0}, NEW a \in Nat, NEW n \in Nat,
           a = (a \div d) * d
    PROVE  /\ n < d => (a + n) \div d = a \div d
           /\ a + d = ((a + d) \div d) * d
<1> DEFINE q == a \div d
<1>1. q \in Nat /\ a = q * d
  OBVIOUS
<1>2. (q + 1) * d = q * d + d
  <2> HIDE DEF q
  <2> QED
    BY <1>1
<1>3. (a + d) \div d = q + 1
  BY QuotientStep
<1>4. ASSUME n < d
      PROVE  (a + n) \div d = q
  <2> HIDE DEF q
  <2>1. q * d <= a + n /\ a + n < (q + 1) * d /\ a + n \in Nat
    BY <1>1, <1>2, <1>4
  <2> QED
    BY <1>1, <2>1, QuotientIs
<1> QED
  BY <1>1, <1>2, <1>3, <1>4

(* A message as SvSendQueue sees it, and a sequence of them.                *)
Size(m) == [size |-> Datagrams(m), final |-> FALSE]
Sizes(q) == [i \in DOMAIN q |-> Size(q[i])]
AnySize == [size : Nat, final : BOOLEAN]

LEMMA DatagramsType ==
    ASSUME NEW m \in Message
    PROVE  /\ Datagrams(m) \in Nat \ {0}
           /\ NeedsFragments(m) => Datagrams(m) = Len(m) \div FragmentSize + 1
           /\ ~NeedsFragments(m) => Datagrams(m) = 1
<1>1. Len(m) \in Nat /\ FragmentSize \in Nat \ {0}
  BY MessageIsSeq, NetChanAssumption
<1>2. Len(m) \div FragmentSize \in Nat
  BY <1>1, QuotientStep
<1> QED
  BY <1>2 DEF Datagrams

LEMMA SizeType ==
    ASSUME NEW m \in Message
    PROVE  Size(m) \in AnySize
  BY DatagramsType DEF Size, AnySize

LEMMA SizesProperties ==
    ASSUME NEW q \in Seq(Message)
    PROVE  /\ Sizes(q) \in Seq(AnySize) /\ Len(Sizes(q)) = Len(q) /\ Len(q) \in Nat
           /\ \A i \in 1 .. Len(q) : Sizes(q)[i] = Size(q[i])
           /\ \A i \in 1 .. Len(q) : q[i] \in Message
           /\ Sizes(q) = <<>> <=> q = <<>>
<1>1. /\ DOMAIN q = 1 .. Len(q) /\ Len(q) \in Nat
      /\ \A i \in 1 .. Len(q) : q[i] \in Message
  BY LenProperties, ElementOfSeq
<1>2. Sizes(q) \in [1 .. Len(q) -> AnySize]
  BY <1>1, SizeType DEF Sizes
<1>3. Sizes(q) \in Seq(AnySize) /\ Len(Sizes(q)) = Len(q)
  BY <1>1, <1>2
<1> QED
  BY <1>1, <1>3, EmptySeq DEF Sizes

LEMMA SizesOfAppend ==
    ASSUME NEW q \in Seq(Message), NEW m \in Message
    PROVE  Sizes(Append(q, m)) = Append(Sizes(q), Size(m))
<1> DEFINE r == Append(q, m)
<1>1. /\ r \in Seq(Message) /\ Len(r) = Len(q) + 1
      /\ \A i \in 1 .. Len(q) : r[i] = q[i]
      /\ r[Len(q) + 1] = m
  BY AppendKeeps, LenProperties
<1> HIDE DEF r
<1>2. /\ Sizes(r) \in Seq(AnySize) /\ Len(Sizes(r)) = Len(q) + 1
      /\ \A i \in 1 .. Len(r) : Sizes(r)[i] = Size(r[i])
      /\ Sizes(q) \in Seq(AnySize) /\ Len(Sizes(q)) = Len(q) /\ Len(q) \in Nat
      /\ \A i \in 1 .. Len(q) : Sizes(q)[i] = Size(q[i])
  BY <1>1, SizesProperties
<1>3. Size(m) \in AnySize
  BY SizeType
<1>4. /\ Append(Sizes(q), Size(m)) \in Seq(AnySize)
      /\ Len(Append(Sizes(q), Size(m))) = Len(q) + 1
      /\ \A i \in 1 .. Len(q) : Append(Sizes(q), Size(m))[i] = Sizes(q)[i]
      /\ Append(Sizes(q), Size(m))[Len(q) + 1] = Size(m)
  BY <1>2, <1>3, AppendProperties
<1>5. \A i \in 1 .. Len(q) + 1 : Sizes(r)[i] = Append(Sizes(q), Size(m))[i]
  BY <1>1, <1>2, <1>4
<1> QED
  BY <1>2, <1>4, <1>5, SeqEqual DEF r

LEMMA SizesOfTail ==
    ASSUME NEW q \in Seq(Message), q # <<>>
    PROVE  /\ Sizes(q) # <<>>
           /\ Head(Sizes(q)) = Size(Head(q))
           /\ Sizes(Tail(q)) = Tail(Sizes(q))
<1>1. /\ Tail(q) \in Seq(Message) /\ Len(Tail(q)) = Len(q) - 1
      /\ Len(q) \in Nat \ {0} /\ Head(q) = q[1]
      /\ \A i \in 1 .. Len(q) - 1 : Tail(q)[i] = q[i + 1]
  BY QueueParts
<1>2. /\ Sizes(q) \in Seq(AnySize) /\ Len(Sizes(q)) = Len(q) /\ Sizes(q) # <<>>
      /\ \A i \in 1 .. Len(q) : Sizes(q)[i] = Size(q[i])
      /\ Sizes(Tail(q)) \in Seq(AnySize) /\ Len(Sizes(Tail(q))) = Len(q) - 1
      /\ \A i \in 1 .. Len(q) - 1 : Sizes(Tail(q))[i] = Size(Tail(q)[i])
  BY <1>1, SizesProperties
<1>3. /\ Tail(Sizes(q)) \in Seq(AnySize) /\ Len(Tail(Sizes(q))) = Len(q) - 1
      /\ Head(Sizes(q)) = Sizes(q)[1]
      /\ \A i \in 1 .. Len(q) - 1 : Tail(Sizes(q))[i] = Sizes(q)[i + 1]
  BY <1>2, QueueParts
<1>4. \A i \in 1 .. Len(q) - 1 : Sizes(Tail(q))[i] = Tail(Sizes(q))[i]
  BY <1>1, <1>2, <1>3
<1>5. Sizes(Tail(q)) = Tail(Sizes(q))
  BY <1>2, <1>3, <1>4, SeqEqual
<1> QED
  BY <1>1, <1>2, <1>3, <1>5

(* All fragments but the last one are full: what is left of the message     *)
(* begins at a multiple of FRAGMENT_SIZE.                                   *)
StartsAligned(c) ==
    c.unsentFragments =>
        c.unsentFragmentStart = (c.unsentFragmentStart \div FragmentSize) * FragmentSize

(* The datagrams that a sender's half has still to send.                    *)
Left(c) ==
    IF c.unsentFragments
    THEN Datagrams(c.unsentBuffer) - c.unsentFragmentStart \div FragmentSize
    ELSE 0

LEMMA LeftCounts ==
    ASSUME NEW log \in Seq(Message), NEW c \in OutHalf,
           SenderAgrees(log, c), StartsAligned(c), log # <<>>
    PROVE  /\ Left(c) \in Nat
           /\ Left(c) > 0 <=> c.unsentFragments
           /\ c.unsentFragments =>
                 /\ StartsAligned(AfterFragment(c))
                 /\ Left(AfterFragment(c)) = Left(c) - 1
<1> DEFINE m == c.unsentBuffer
           a == c.unsentFragmentStart
           n == FragmentLength(c)
           d == AfterFragment(c)
<1>1. CASE ~c.unsentFragments
  BY <1>1 DEF Left
<1>2. CASE c.unsentFragments
  <2>1. /\ m \in Message /\ NeedsFragments(m) /\ a <= Len(m)
        /\ a \in Nat /\ Len(m) \in Nat
        /\ a = (a \div FragmentSize) * FragmentSize
    BY <1>2, EmptySeq, ElementOfSeq, LenProperties, MessageIsSeq
       DEF SenderAgrees, OutHalf, StartsAligned
  <2>2. FragmentSize \in Nat \ {0}
    BY NetChanAssumption
  <2>3. Datagrams(m) = Len(m) \div FragmentSize + 1
    BY <2>1, DatagramsType
  <2>4. /\ a \div FragmentSize \in Nat /\ Len(m) \div FragmentSize \in Nat
        /\ a \div FragmentSize <= Len(m) \div FragmentSize
    BY <2>1, <2>2, QuotientGrows
  <2>5. Left(c) = (Len(m) \div FragmentSize + 1) - a \div FragmentSize
    <3>1. Left(c) = Datagrams(m) - a \div FragmentSize
      BY <1>2, Zenon DEF Left
    <3> QED
      BY <2>3, <3>1, Zenon
  <2>6. /\ n \in 0 .. FragmentSize /\ a + n <= Len(m)
        /\ n = FragmentSize \/ a + n = Len(m)
    BY <2>1, FragmentIsCut
  <2>7. CASE IsLastFragment(c)
    <3>1. n < FragmentSize /\ a + n = Len(m) /\ n \in Nat
      BY <2>2, <2>6, <2>7 DEF IsLastFragment
    <3>2. Len(m) \div FragmentSize = a \div FragmentSize
      <4>1. (a + n) \div FragmentSize = a \div FragmentSize
        BY <2>1, <2>2, <3>1, AlignedStart
      <4> QED
        BY <3>1, <4>1
    <3>3. ~d.unsentFragments
      BY <2>7 DEF AfterFragment, OutHalf
    <3> QED
      BY <1>2, <2>4, <2>5, <3>2, <3>3 DEF Left, StartsAligned
  <2>8. CASE ~IsLastFragment(c)
    <3>1. n = FragmentSize
      BY <2>6, <2>8 DEF IsLastFragment
    <3>2. /\ d.unsentFragments
          /\ d.unsentFragmentStart = a + FragmentSize
          /\ d.unsentBuffer = m
      BY <1>2, <2>8, <3>1 DEF AfterFragment, OutHalf
    <3>3. /\ (a + FragmentSize) \div FragmentSize = a \div FragmentSize + 1
          /\ a + FragmentSize
               = ((a + FragmentSize) \div FragmentSize) * FragmentSize
      BY <2>1, <2>2, QuotientStep, AlignedStart
    <3>4. Left(d) = (Len(m) \div FragmentSize + 1) - (a \div FragmentSize + 1)
      <4>1. Left(d) = Datagrams(m) - (a + FragmentSize) \div FragmentSize
        BY <3>2, Zenon DEF Left
      <4> QED
        BY <2>3, <3>3, <4>1, Zenon
    <3> QED
      BY <1>2, <2>4, <2>5, <3>2, <3>3, <3>4 DEF StartsAligned
  <2> QED
    BY <2>7, <2>8
<1> QED
  BY <1>1, <1>2

(* Netchan_Transmit sends the first datagram of the message.                *)
LEMMA LeftOfMessage ==
    ASSUME NEW log \in Seq(Message), NEW c \in OutHalf, NEW m \in Message,
           ~c.unsentFragments, SenderAgrees(log, c)
    PROVE  /\ StartsAligned(AfterTransmit(c, m))
           /\ Left(AfterTransmit(c, m)) = Datagrams(m) - 1
<1> DEFINE log2 == Append(log, m)
           d == Loaded(c, m)
<1>1. /\ log2 \in Seq(Message) /\ Len(log2) = Len(log) + 1 /\ Len(log) \in Nat
      /\ log2[Len(log) + 1] = m
  BY AppendKeeps, LenProperties
<1>2. c.outgoingSequence = Len(log) + 1 /\ Len(m) \in Nat /\ c \in OutHalf
  BY MessageIsSeq DEF SenderAgrees
<1>3. Datagrams(m) \in Nat \ {0}
  BY DatagramsType
<1> HIDE DEF log2
<1>4. CASE NeedsFragments(m)
  <2>1. d = [outgoingSequence    |-> c.outgoingSequence,
             unsentFragments     |-> TRUE,
             unsentFragmentStart |-> 0,
             unsentBuffer        |-> m]
    BY DEF Loaded
  <2>2. d \in OutHalf
    BY <1>1, <1>2, <2>1 DEF OutHalf
  <2> HIDE DEF d
  <2>3. SenderAgrees(log2, d) /\ d.unsentFragments /\ log2 # <<>>
    BY <1>1, <1>2, <1>4, <2>1, EmptySeq DEF SenderAgrees
  <2>4. FragmentSize \in Nat \ {0}
    BY NetChanAssumption
  <2>5. 0 \div FragmentSize = 0 /\ 0 = (0 \div FragmentSize) * FragmentSize
    <3>1. 0 * FragmentSize = 0 /\ (0 + 1) * FragmentSize = FragmentSize
      BY <2>4
    <3>2. 0 \div FragmentSize = 0
      BY <2>4, <3>1, QuotientIs
    <3> QED
      BY <3>1, <3>2
  <2>6. StartsAligned(d)
    BY <2>1, <2>5 DEF StartsAligned
  <2>7. Left(d) = Datagrams(m)
    <3>1. Left(d) = Datagrams(m) - 0 \div FragmentSize
      BY <2>1, Zenon DEF Left
    <3>2. Left(d) = Datagrams(m) - 0
      BY <2>5, <3>1, Zenon
    <3> QED
      BY <1>3, <3>2
  <2>8. StartsAligned(AfterFragment(d)) /\ Left(AfterFragment(d)) = Left(d) - 1
    BY <1>1, <2>2, <2>3, <2>6, LeftCounts
  <2> QED
    BY <1>4, <2>7, <2>8 DEF AfterTransmit, d
<1>5. CASE ~NeedsFragments(m)
  <2>1. ~AfterTransmit(c, m).unsentFragments
    BY <1>2, <1>5 DEF AfterTransmit, OutHalf
  <2>2. Datagrams(m) = 1
    BY <1>5, DatagramsType
  <2> QED
    BY <2>1, <2>2 DEF StartsAligned, Left
<1> QED
  BY <1>4, <1>5

(* What the send path has left, between two calls of a step too.            *)
LEMMA PathLeft ==
    ASSUME SvInv, StartsAligned(out)
    PROVE  /\ Left(out) \in Nat /\ (Left(out) > 0 <=> out.unsentFragments)
           /\ ~out.unsentFragments => Left(out) = 0
           /\ out.unsentFragments =>
                 /\ StartsAligned(AfterFragment(out))
                 /\ Left(AfterFragment(out)) = Left(out) - 1
                 /\ (Left(out) = 1 <=> ~AfterFragment(out).unsentFragments)
           /\ ~out.unsentFragments =>
                 \A m \in Message :
                    /\ StartsAligned(AfterTransmit(out, m))
                    /\ Left(AfterTransmit(out, m)) = Datagrams(m) - 1
           /\ out.unsentFragments /\ ~AfterFragment(out).unsentFragments =>
                 \A m \in Message :
                    /\ StartsAligned(AfterTransmit(AfterFragment(out), m))
                    /\ Left(AfterTransmit(AfterFragment(out), m)) = Datagrams(m) - 1
<1>1. out \in OutHalf /\ sent \in Seq(Message) /\ SenderAgrees(sent, out)
  BY DEF SvInv, SvTypeOK, TypeOK, NetChanInv
<1>2. CASE ~out.unsentFragments
  BY <1>1, <1>2, LeftOfMessage DEF Left
<1>3. CASE out.unsentFragments
  <2>1. sent # <<>>
    BY <1>1, <1>3, EmptySeq DEF SenderAgrees, OutHalf
  <2>2. /\ AfterFragment(out) \in OutHalf
        /\ SenderAgrees(sent, AfterFragment(out))
    BY <1>1, <1>3, <2>1, AfterFragmentAgrees
  <2>3. /\ Left(out) \in Nat /\ (Left(out) > 0 <=> out.unsentFragments)
        /\ StartsAligned(AfterFragment(out))
        /\ Left(AfterFragment(out)) = Left(out) - 1
    BY <1>1, <1>3, <2>1, LeftCounts
  <2>4. /\ Left(AfterFragment(out)) \in Nat
        /\ Left(AfterFragment(out)) > 0 <=> AfterFragment(out).unsentFragments
    BY <1>1, <2>1, <2>2, <2>3, LeftCounts
  <2>5. Left(out) = 1 <=> ~AfterFragment(out).unsentFragments
    BY <2>3, <2>4
  <2> QED
    BY <1>1, <1>3, <2>2, <2>3, <2>5, LeftOfMessage
<1> QED
  BY <1>2, <1>3

LEMMA StartsStayAligned ==
    ASSUME SvInv, StartsAligned(out), [SvNext]_svVars
    PROVE  StartsAligned(out')
<1>1. CASE SendFragment
  BY <1>1, SendFragmentStep, PathLeft, QueueParts DEF SvInv, SvTypeOK, Popped
<1>2. ASSUME NEW m \in Snapshot, SendSnapshot(m)
      PROVE  StartsAligned(out')
  BY <1>2, SnapshotsAreMessages, SvTransmitStep, PathLeft
     DEF SendSnapshot, Waits, GoesOut
<1>3. ASSUME NEW m \in GameState, SendGameState(m)
      PROVE  StartsAligned(out')
  BY <1>3, SnapshotsAreMessages, SvTransmitStep, PathLeft
     DEF SendGameState, Waits, GoesOut
<1>4. ASSUME NEW p \in network, Receive(p)
      PROVE  out' = out
  BY <1>4 DEF Receive, Process, DiscardStale, ProcessWhole, ProcessFragment,
              FinishMessage, vars
<1>5. CASE UNCHANGED svVars
  BY <1>5 DEF svVars, vars
<1> QED
  BY <1>1, <1>2, <1>3, <1>4, <1>5 DEF SvNext

(* The refinement mapping.                                                  *)
LEMMA MappedPath ==
    ASSUME SvInv, StartsAligned(out)
    PROVE  /\ DatagramsLeft = Left(out) /\ DatagramsLeft' = Left(out')
           /\ SendQueue!Path = [left |-> Left(out), final |-> FALSE,
                              queue |-> Sizes(queue), finalSent |-> FALSE]
           /\ SendQueue!vars = <<Left(out), FALSE, Sizes(queue), frame, gameStates,
                                 FALSE, FALSE>>
<1>1. DatagramsLeft = Left(out)
  BY DEF DatagramsLeft, Left
<1>2. DatagramsLeft' = Left(out')
  BY DEF DatagramsLeft, Left
<1> QED
  BY <1>1, <1>2 DEF SendQueue!Path, SendQueue!vars, Sizes, Size

(* A path without a final message, and the calls of SvSendQueue on one.     *)
PlainPath == {s \in [left : Int, final : BOOLEAN, queue : Seq(AnySize),
                     finalSent : BOOLEAN] : ~s.final /\ ~s.finalSent}

LEMMA FragmentSentOnPlain ==
    ASSUME NEW s \in PlainPath
    PROVE  /\ SendQueue!FragmentSent(s) \in PlainPath
           /\ SendQueue!FragmentSent(s).left = s.left - 1
           /\ SendQueue!FragmentSent(s).queue = s.queue
<1>1. ~s.final /\ ~s.finalSent /\ s.left - 1 \in Int
  BY DEF PlainPath
<1>2. (s.finalSent \/ (s.left = 1 /\ s.final)) = FALSE
  BY <1>1
<1>3. SendQueue!FragmentSent(s) = [s EXCEPT !.left = s.left - 1, !.finalSent = FALSE]
  BY <1>2, Zenon DEF SendQueue!FragmentSent
<1>4. /\ [s EXCEPT !.left = s.left - 1, !.finalSent = FALSE] \in PlainPath
      /\ [s EXCEPT !.left = s.left - 1, !.finalSent = FALSE].left = s.left - 1
      /\ [s EXCEPT !.left = s.left - 1, !.finalSent = FALSE].queue = s.queue
  BY <1>1 DEF PlainPath
<1> QED
  BY <1>3, <1>4

LEMMA TransmittedOnPlain ==
    ASSUME NEW s \in PlainPath, NEW m \in Message
    PROVE  /\ SendQueue!Transmitted(s, Size(m)) \in PlainPath
           /\ SendQueue!Transmitted(s, Size(m)).left = Datagrams(m) - 1
           /\ SendQueue!Transmitted(s, Size(m)).queue = s.queue
<1> DEFINE t == [s EXCEPT !.left = Size(m).size, !.final = Size(m).final]
<1>1. /\ Size(m).size = Datagrams(m) /\ Size(m).final = FALSE
      /\ Datagrams(m) \in Int
  BY DatagramsType DEF Size
<1>2. t \in PlainPath /\ t.left = Datagrams(m) /\ t.queue = s.queue
  BY <1>1 DEF PlainPath
<1>3. SendQueue!Transmitted(s, Size(m)) = SendQueue!FragmentSent(t)
  BY Zenon DEF SendQueue!Transmitted
<1> HIDE DEF t
<1> QED
  BY <1>2, <1>3, FragmentSentOnPlain

LEMMA MappedPathIsPlain ==
    ASSUME SvInv, StartsAligned(out)
    PROVE  /\ SendQueue!Path \in PlainPath
           /\ SendQueue!Path.left = Left(out)
           /\ SendQueue!Path.queue = Sizes(queue)
<1>1. Left(out) \in Nat /\ Sizes(queue) \in Seq(AnySize)
  BY PathLeft, SizesProperties DEF SvInv, SvTypeOK
<1>2. DatagramsLeft = Left(out)
  BY MappedPath
<1> QED
  BY <1>1, <1>2 DEF SendQueue!Path, Sizes, Size, PlainPath

LEMMA MappedIsNext ==
    ASSUME NEW t \in PlainPath, DatagramsLeft' = Left(out'),
           t.left = Left(out'), t.queue = Sizes(queue')
    PROVE  SendQueue!IsNextPath(t)
  BY DEF SendQueue!IsNextPath, Sizes, Size, PlainPath

LEMMA SendFragmentMapped ==
    ASSUME SvInv, StartsAligned(out), SendFragment
    PROVE  SendQueue!SendFragment
<1> DEFINE s == SendQueue!Path
           u == SendQueue!FragmentSent(s)
           t == SendQueue!SvTransmitNextFragment(s)
<1>1. /\ s \in PlainPath /\ s.left = Left(out) /\ s.queue = Sizes(queue)
      /\ DatagramsLeft = Left(out) /\ DatagramsLeft' = Left(out')
  BY MappedPath, MappedPathIsPlain
<1>2. /\ out.unsentFragments /\ Left(out) \in Nat /\ Left(out) > 0
      /\ Left(AfterFragment(out)) = Left(out) - 1
      /\ (Left(out) = 1 <=> ~AfterFragment(out).unsentFragments)
  BY SendFragmentStep, PathLeft
<1>3. queue \in Seq(Message) /\ (Sizes(queue) = <<>> <=> queue = <<>>)
  BY SizesProperties DEF SvInv, SvTypeOK
<1>4. /\ u \in PlainPath /\ u.left = Left(out) - 1 /\ u.queue = Sizes(queue)
      /\ t = IF u.left = 0 /\ u.queue # <<>>
            THEN [SendQueue!Transmitted(u, Head(u.queue)) EXCEPT !.queue = Tail(@)]
            ELSE u
  BY <1>1, FragmentSentOnPlain, Zenon DEF SendQueue!SvTransmitNextFragment
<1> HIDE DEF s, t, u
<1>5. t \in PlainPath /\ t.left = Left(out') /\ t.queue = Sizes(queue')
  <2>1. CASE /\ Continued /\ out' = AfterFragment(out)
             /\ AfterFragment(out).unsentFragments \/ queue = <<>>
    BY <1>2, <1>3, <1>4, <2>1 DEF Continued
  <2>2. CASE /\ Popped
             /\ ~AfterFragment(out).unsentFragments
             /\ out' = AfterTransmit(AfterFragment(out), Head(queue))
    <3> DEFINE v == SendQueue!Transmitted(u, Size(Head(queue)))
    <3>1. /\ queue # <<>> /\ Head(queue) \in Message
          /\ Head(Sizes(queue)) = Size(Head(queue))
          /\ Sizes(queue') = Tail(Sizes(queue)) /\ Sizes(queue) # <<>>
      BY <1>3, <2>2, QueueParts, SizesOfTail DEF Popped
    <3>2. Left(out') = Datagrams(Head(queue)) - 1
      BY <1>2, <2>2, <3>1, PathLeft
    <3>3. /\ v \in PlainPath /\ v.left = Left(out') /\ v.queue = Sizes(queue)
          /\ t = [v EXCEPT !.queue = Tail(@)]
      <4>1. u.left = 0 /\ u.queue # <<>> /\ Head(u.queue) = Size(Head(queue))
        BY <1>2, <1>4, <2>2, <3>1
      <4>2. t = [v EXCEPT !.queue = Tail(@)]
        BY <1>4, <4>1
      <4> QED
        BY <1>4, <3>1, <3>2, <4>2, TransmittedOnPlain
    <3>4. Tail(Sizes(queue)) \in Seq(AnySize)
      BY <3>1, <3>3, SizesProperties, QueueParts DEF SvInv, SvTypeOK, Popped
    <3> HIDE DEF v
    <3> QED
      BY <3>1, <3>3, <3>4 DEF PlainPath
  <2> QED
    BY <2>1, <2>2, SendFragmentStep
<1>6. SendQueue!IsNextPath(t)
  BY <1>1, <1>5, MappedIsNext
<1> QED
  BY <1>1, <1>2, <1>6 DEF SendQueue!SendFragment, SendFragment, s, t

LEMMA SvTransmitMapped ==
    ASSUME SvInv, StartsAligned(out), NEW m \in Message,
           \/ Waits(m) /\ out' = AfterFragment(out)
           \/ GoesOut(m) /\ out' = AfterTransmit(out, m)
    PROVE  SendQueue!IsNextPath(SendQueue!SvTransmit(SendQueue!Path, Size(m)))
<1> DEFINE s == SendQueue!Path
           u == SendQueue!FragmentSent(s)
           v == SendQueue!Transmitted(s, Size(m))
           t == SendQueue!SvTransmit(s, Size(m))
<1>1. /\ s \in PlainPath /\ s.left = Left(out) /\ s.queue = Sizes(queue)
      /\ DatagramsLeft' = Left(out') /\ Left(out) \in Nat
      /\ queue \in Seq(Message)
  BY MappedPath, MappedPathIsPlain, PathLeft DEF SvInv, SvTypeOK
<1>2. /\ u \in PlainPath /\ u.left = Left(out) - 1 /\ u.queue = Sizes(queue)
      /\ v \in PlainPath /\ v.left = Datagrams(m) - 1 /\ v.queue = Sizes(queue)
      /\ t = IF s.left > 0 THEN [u EXCEPT !.queue = Append(@, Size(m))] ELSE v
  BY <1>1, FragmentSentOnPlain, TransmittedOnPlain, Zenon DEF SendQueue!SvTransmit
<1> HIDE DEF s, t, u, v
<1>3. t \in PlainPath /\ t.left = Left(out') /\ t.queue = Sizes(queue')
  <2>1. CASE Waits(m) /\ out' = AfterFragment(out)
    <3>1. /\ Left(out) > 0 /\ Left(out') = Left(out) - 1
          /\ Sizes(queue') = Append(Sizes(queue), Size(m))
      BY <1>1, <2>1, PathLeft, SizesOfAppend DEF Waits
    <3>2. Append(Sizes(queue), Size(m)) \in Seq(AnySize)
      BY <1>1, SizesProperties, SizeType, AppendProperties
    <3> QED
      BY <1>1, <1>2, <3>1, <3>2 DEF PlainPath
  <2>2. CASE GoesOut(m) /\ out' = AfterTransmit(out, m)
    <3>1. /\ Left(out) = 0 /\ Left(out') = Datagrams(m) - 1
          /\ queue' = queue
      BY <2>2, PathLeft DEF GoesOut
    <3> QED
      BY <1>1, <1>2, <3>1
  <2> QED
    BY <2>1, <2>2
<1>4. SendQueue!IsNextPath(t)
  BY <1>1, <1>3, MappedIsNext
<1> QED
  BY <1>4 DEF s, t

(* The send path implements SvSendQueue while the server is up: the control *)
(* of sv_net_chan.c depends on a message only by how many datagrams it      *)
(* takes, and each takes exactly Datagrams(m).                              *)
THEOREM SendQueueRefinement == SvSpec => ImplementsSendQueue
<1>1. SvInit => SendQueue!Init
  <2> SUFFICES ASSUME SvInit
               PROVE  SendQueue!Init
    OBVIOUS
  <2>1. queue = <<>> /\ frame = 0 /\ gameStates = 0 /\ ~out.unsentFragments
    BY DEF SvInit, Init, SetupOut
  <2>2. [i \in DOMAIN queue |-> [size |-> Datagrams(queue[i]), final |-> FALSE]]
          = <<>>
    BY <2>1
  <2> QED
    BY <2>1, <2>2 DEF SendQueue!Init, DatagramsLeft
<1>2. SvInit => StartsAligned(out)
  BY DEF SvInit, Init, SetupOut, StartsAligned
<1>3. ASSUME SvInv, StartsAligned(out), [SvNext]_svVars
      PROVE  [SendQueue!Next]_(SendQueue!vars)
  <2>1. CASE SendFragment
    BY <1>3, <2>1, SendFragmentMapped DEF SendQueue!Next, SendQueue!SendClientMessages
  <2>2. ASSUME NEW m \in Snapshot, SendSnapshot(m)
        PROVE  SendQueue!Next
    <3>1. /\ SendQueue!IsNextPath(SendQueue!SvTransmit(SendQueue!Path, Size(m)))
          /\ DatagramsLeft = 0
      BY <1>3, <2>2, SnapshotsAreMessages, SvTransmitStep, SvTransmitMapped,
         PathLeft, MappedPath DEF SendSnapshot
    <3>2. Datagrams(m) \in {Datagrams(k) : k \in Snapshot}
      OBVIOUS
    <3>3. SendQueue!SendSnapshot
      BY <2>2, <3>1, <3>2 DEF SendQueue!SendSnapshot, SendSnapshot, SendQueue!Plain, Size
    <3> QED
      BY <3>3 DEF SendQueue!Next, SendQueue!SendClientMessages
  <2>3. ASSUME NEW m \in GameState, SendGameState(m)
        PROVE  SendQueue!Next
    <3>1. SendQueue!IsNextPath(SendQueue!SvTransmit(SendQueue!Path, Size(m)))
      BY <1>3, <2>3, SnapshotsAreMessages, SvTransmitStep, SvTransmitMapped
         DEF SendGameState
    <3>2. Datagrams(m) \in {Datagrams(k) : k \in GameState}
      OBVIOUS
    <3>3. SendQueue!SendGameState
      BY <2>3, <3>1, <3>2
         DEF SendQueue!SendGameState, SendGameState, SendQueue!Plain, Size
    <3> QED
      BY <3>3 DEF SendQueue!Next
  <2>4. CASE UNCHANGED <<out, queue, frame, gameStates>>
    BY <2>4 DEF SendQueue!vars, DatagramsLeft
  <2>5. ASSUME NEW p \in network, Receive(p)
        PROVE  UNCHANGED <<out, queue, frame, gameStates>>
    BY <2>5 DEF Receive, Process, DiscardStale, ProcessWhole, ProcessFragment,
                FinishMessage, vars
  <2>6. CASE UNCHANGED svVars
    BY <2>4, <2>6 DEF svVars, vars
  <2> QED
    BY <1>3, <2>1, <2>2, <2>3, <2>4, <2>5, <2>6 DEF SvNext
<1>4. SvSpec => []StartsAligned(out)
  <2>1. ASSUME SvInv, StartsAligned(out), [SvNext]_svVars
        PROVE  StartsAligned(out)'
    BY <2>1, StartsStayAligned DEF StartsAligned
  <2> QED
    BY <1>2, <2>1, SvInvariance, PTL DEF SvSpec
<1> QED
  BY <1>1, <1>3, <1>4, SvInvariance, PTL DEF SvSpec, ImplementsSendQueue

-----------------------------------------------------------------------------
(* Induction and recursion over an interval, as facts about sets.           *)

(* A set of numbers that is not empty has a least one. *)
LEMMA LeastExists ==
    ASSUME NEW S \in SUBSET Nat, S # {}
    PROVE  \E x \in S : \A y \in S : x <= y
<1> DEFINE less == OpToRel(<, Nat)
<1>1. IsWellFoundedOn(less, Nat)
  BY NatLessThanWellFounded
<1>2. \A x, y \in Nat : x < y => <<x, y>> \in less
  BY DEF OpToRel
<1> HIDE DEF less
<1>3. PICK x \in S : \A y \in S : <<y, x>> \notin less
  BY <1>1, WFMin, Zenon
<1>4. ASSUME NEW y \in S
      PROVE  x <= y
  <2>1. x \in Nat /\ y \in Nat /\ <<y, x>> \notin less
    BY <1>3
  <2>2. ~(y < x)
    BY <1>2, <2>1
  <2> QED
    BY <2>1, <2>2
<1> QED
  BY <1>4

(* What holds at 0 and from each number to the next holds up to n.          *)
LEMMA IntervalInduction ==
    ASSUME NEW n \in Nat, NEW S, 0 \in S,
           \A k \in 1 .. n : k - 1 \in S => k \in S
    PROVE  \A k \in 0 .. n : k \in S
<1>1. PICK T : T = {k \in 0 .. n : k \notin S}
  OBVIOUS
<1>2. SUFFICES ASSUME T # {}
               PROVE  FALSE
  BY <1>1
<1>3. PICK x \in T : \A y \in T : x <= y
  <2>1. T \in SUBSET Nat
    BY <1>1
  <2> QED
    BY <1>2, <2>1, LeastExists
<1>4. x \in 0 .. n /\ x \notin S /\ x # 0
  BY <1>1, <1>3
<1>5. x \in 1 .. n /\ x - 1 \in 0 .. n /\ ~(x <= x - 1)
  BY <1>4
<1>6. x - 1 \in S
  BY <1>1, <1>3, <1>5
<1> QED
  BY <1>4, <1>5, <1>6

(* A step F, taken n times from d, has its sequence f of values in D: the    *)
(* recursion that f stands for is well defined.                             *)
Iterates(f, n, D, d, F) ==
    /\ f \in [0 .. n -> D]
    /\ f[0] = d
    /\ \A k \in 1 .. n : f[k] = F[<<k, f[k - 1]>>]

LEMMA RecursionExists ==
    ASSUME NEW n \in Nat, NEW D, NEW d \in D, NEW F \in [(1 .. n) \X D -> D]
    PROVE  \E f : Iterates(f, n, D, d, F)
<1> DEFINE Runs(f, m) == Iterates(f, m, D, d, F)
<1>1. PICK S : S = {m \in 0 .. n : \E f : Runs(f, m)}
  OBVIOUS
<1>2. 0 \in S
  <2>1. PICK f : f = [k \in 0 .. 0 |-> d]
    OBVIOUS
  <2>2. f \in [0 .. 0 -> D] /\ f[0] = d /\ 0 \in 0 .. n
    BY <2>1
  <2>3. \A k \in 1 .. 0 : f[k] = F[<<k, f[k - 1]>>]
    OBVIOUS
  <2>4. Runs(f, 0)
    BY <2>2, <2>3 DEF Iterates
  <2> HIDE DEF Runs
  <2>5. \E g : Runs(g, 0)
    BY <2>4
  <2> QED
    BY <1>1, <2>2, <2>5
<1>3. ASSUME NEW m \in 1 .. n, m - 1 \in S
      PROVE  m \in S
  <2>1. PICK f : Runs(f, m - 1)
    BY <1>1, <1>3
  <2>2. PICK g : g = [k \in 0 .. m |-> IF k = m THEN F[<<m, f[m - 1]>>] ELSE f[k]]
    OBVIOUS
  <2>3. m - 1 \in 0 .. m - 1 /\ f[m - 1] \in D
    BY <2>1 DEF Iterates
  <2>4. F[<<m, f[m - 1]>>] \in D
    BY <2>3
  <2>5. g \in [0 .. m -> D]
    <3>1. \A k \in 0 .. m : k = m \/ k \in 0 .. m - 1
      OBVIOUS
    <3> QED
      BY <2>1, <2>2, <2>4, <3>1 DEF Iterates
  <2>6. g[0] = d
    BY <2>1, <2>2 DEF Iterates
  <2>7. ASSUME NEW k \in 1 .. m
        PROVE  g[k] = F[<<k, g[k - 1]>>]
    <3>1. k - 1 \in 0 .. m /\ k - 1 # m /\ g[k - 1] = f[k - 1]
      BY <2>2
    <3>2. CASE k = m
      BY <2>2, <3>1, <3>2
    <3>3. CASE k # m
      <4>1. k \in 1 .. m - 1 /\ g[k] = f[k]
        BY <2>2, <3>3
      <4> QED
        BY <2>1, <3>1, <4>1 DEF Iterates
    <3> QED
      BY <3>2, <3>3
  <2>8. Runs(g, m)
    BY <2>5, <2>6, <2>7 DEF Iterates
  <2> HIDE DEF Runs
  <2>9. \E h : Runs(h, m)
    BY <2>8
  <2> QED
    BY <1>1, <2>9
<1>4. n \in S
  <2>1. \A k \in 0 .. n : k \in S
    BY <1>2, <1>3, IntervalInduction
  <2> QED
    BY <2>1
<1> QED
  BY <1>1, <1>4
-----------------------------------------------------------------------------
(* Completeness of reassembly.                                               *)

(* Every fragment before the next one to be sent is in the network; of a     *)
(* message that is sent completely, the short or empty last one too.         *)
CutBefore(log, c, s) ==
    IF s < c.outgoingSequence THEN Len(log[s]) + 1 ELSE c.unsentFragmentStart

CutAgrees(log, c, net) ==
    \A s \in DOMAIN log : NeedsFragments(log[s]) =>
        \A k \in Nat : k * FragmentSize < CutBefore(log, c, s) =>
            \E p \in net : IsFragment(p, s, k + 1)

(* The receiver's part ends at a multiple of FRAGMENT_SIZE. *)
PartAligned(c) == \E k \in Nat : Len(c.fragmentBuffer) = k * FragmentSize

CompleteInv ==
    /\ CutAgrees(sent, out, network)
    /\ StartsAligned(out)
    /\ PartAligned(in)

(* Multiples of the fragment size. *)
LEMMA MultipleBelow ==
    ASSUME NEW d \in Nat \ {0}, NEW j \in Nat, NEW k \in Nat
    PROVE  /\ j * d \in Nat
           /\ (j + 1) * d = j * d + d
           /\ j <= k => j * d <= k * d
           /\ j < k => j * d + d <= k * d
           /\ j * d < k * d => j < k
           /\ j * d < k * d + d => j <= k
           /\ j * d = k * d => j = k
<1>1. j * d \in Nat /\ k * d \in Nat /\ (j + 1) * d = j * d + d
  OBVIOUS
<1>2. ASSUME NEW a \in Nat, NEW b \in Nat, a <= b
      PROVE  a * d <= b * d
  <2>1. PICK e \in Nat : b = a + e
    <3>1. b - a \in Nat /\ b = a + (b - a)
      BY <1>2
    <3> QED
      BY <3>1
  <2>2. b * d = a * d + e * d /\ e * d \in Nat /\ a * d \in Nat
    BY <2>1
  <2> QED
    BY <2>2
<1>3. j <= k => j * d <= k * d
  BY <1>2
<1>4. j < k => j * d + d <= k * d
  <2>1. j < k => j + 1 <= k /\ j + 1 \in Nat
    OBVIOUS
  <2>2. j < k => (j + 1) * d <= k * d
    BY <1>2, <2>1
  <2> QED
    BY <1>1, <2>2
<1>5. k < j => k * d + d <= j * d
  <2>1. k < j => k + 1 <= j /\ k + 1 \in Nat
    OBVIOUS
  <2>2. k < j => (k + 1) * d <= j * d
    BY <1>2, <2>1
  <2>3. (k + 1) * d = k * d + d
    OBVIOUS
  <2> QED
    BY <2>2, <2>3
<1> QED
  BY <1>1, <1>3, <1>4, <1>5

(* A datagram of TransmitNextFragment is the next piece of the message.      *)
LEMMA CutGrows ==
    ASSUME NEW log \in Seq(Message), NEW c \in OutHalf, NEW net,
           log # <<>>, c.unsentFragments, SenderAgrees(log, c),
           StartsAligned(c), CutAgrees(log, c, net)
    PROVE  CutAgrees(log, AfterFragment(c), net \cup {FragmentPacket(c)})
<1> DEFINE d == AfterFragment(c)
           p == FragmentPacket(c)
           m == c.unsentBuffer
           a == c.unsentFragmentStart
           n == FragmentLength(c)
<1>1. /\ Len(log) \in Nat \ {0}
      /\ c.outgoingSequence = Len(log)
      /\ m = log[Len(log)] /\ m \in Message /\ Len(m) \in Nat
      /\ a \in Nat /\ a <= Len(m)
      /\ FragmentSize \in Nat \ {0}
  BY EmptySeq, ElementOfSeq, LenProperties, MessageIsSeq, NetChanAssumption
     DEF SenderAgrees, OutHalf
<1>2. PICK q \in Nat : a = q * FragmentSize
  <2>1. a \div FragmentSize \in Nat
    BY <1>1
  <2> QED
    BY <2>1 DEF StartsAligned
<1>3. /\ n \in 0 .. FragmentSize /\ a + n <= Len(m)
      /\ n = FragmentSize \/ a + n = Len(m)
  BY <1>1, FragmentIsCut
<1>4. IsFragment(p, Len(log), q + 1)
  <2>1. p.sequence = Len(log) /\ p.fragmented = TRUE /\ p.start = a
    BY <1>1 DEF FragmentPacket
  <2>2. q + 1 - 1 = q
    OBVIOUS
  <2> QED
    BY <1>2, <2>1, <2>2 DEF IsFragment
<1>5. \/ /\ d.outgoingSequence = Len(log) + 1 /\ a + n = Len(m) /\ n < FragmentSize
      \/ /\ d.outgoingSequence = Len(log) /\ d.unsentFragmentStart = a + FragmentSize
  <2>1. CASE IsLastFragment(c)
    <3>1. n < FragmentSize /\ a + n = Len(m)
      BY <1>1, <1>3, <2>1 DEF IsLastFragment
    <3>2. d.outgoingSequence = c.outgoingSequence + 1
      BY <2>1 DEF AfterFragment, OutHalf
    <3> QED
      BY <1>1, <3>1, <3>2
  <2>2. CASE ~IsLastFragment(c)
    <3>1. n = FragmentSize
      BY <1>3, <2>2 DEF IsLastFragment
    <3>2. d.outgoingSequence = c.outgoingSequence /\ d.unsentFragmentStart = a + n
      BY <2>2 DEF AfterFragment, OutHalf
    <3> QED
      BY <1>1, <3>1, <3>2
  <2> QED
    BY <2>1, <2>2
<1> HIDE DEF d, p, m, a, n
<1>6. SUFFICES ASSUME NEW s \in DOMAIN log, NeedsFragments(log[s]), NEW k \in Nat,
                      k * FragmentSize < CutBefore(log, d, s)
               PROVE  \E r \in net \cup {p} : IsFragment(r, s, k + 1)
  BY DEF CutAgrees, d, p
<1>7. s \in 1 .. Len(log) /\ k * FragmentSize \in Nat
  BY <1>1, MultipleBelow, LenProperties
<1>8. CASE s < Len(log)
  <2>1. CutBefore(log, d, s) = CutBefore(log, c, s)
    BY <1>1, <1>5, <1>7, <1>8 DEF CutBefore
  <2> QED
    BY <1>6, <2>1 DEF CutAgrees
<1>9. CASE s = Len(log)
  <2>1. k * FragmentSize < a + FragmentSize
    <3>1. CASE d.outgoingSequence = Len(log) + 1 /\ a + n = Len(m) /\ n < FragmentSize
      <4>1. CutBefore(log, d, s) = Len(m) + 1
        BY <1>1, <1>9, <3>1 DEF CutBefore
      <4> QED
        BY <1>1, <1>3, <1>6, <1>7, <3>1, <4>1
    <3>2. CASE d.outgoingSequence = Len(log) /\ d.unsentFragmentStart = a + FragmentSize
      <4>1. CutBefore(log, d, s) = a + FragmentSize
        BY <1>1, <1>9, <3>2 DEF CutBefore
      <4> QED
        BY <1>6, <4>1
    <3> QED
      BY <1>5, <3>1, <3>2
  <2>2. k <= q
    BY <1>1, <1>2, <2>1, MultipleBelow
  <2>3. CASE k = q
    BY <1>4, <1>9, <2>3
  <2>4. CASE k < q
    <3>1. k * FragmentSize + FragmentSize <= a
      BY <1>1, <1>2, <2>4, MultipleBelow
    <3>2. k * FragmentSize < a
      BY <1>1, <1>7, <3>1
    <3>3. CutBefore(log, c, s) = a
      BY <1>1, <1>9 DEF CutBefore, a
    <3> QED
      BY <1>6, <3>2, <3>3 DEF CutAgrees
  <2> QED
    BY <2>2, <2>3, <2>4
<1> QED
  BY <1>7, <1>8, <1>9

(* Netchan_Transmit on an idle channel sends the first piece.                *)
LEMMA CutOfMessage ==
    ASSUME NEW log \in Seq(Message), NEW c \in OutHalf, NEW m \in Message, NEW net,
           ~c.unsentFragments, SenderAgrees(log, c), CutAgrees(log, c, net)
    PROVE  CutAgrees(Append(log, m), AfterTransmit(c, m),
                     net \cup {TransmitPacket(c, m)})
<1> DEFINE log2 == Append(log, m)
           d == Loaded(c, m)
<1>1. /\ log2 \in Seq(Message) /\ Len(log2) = Len(log) + 1 /\ Len(log) \in Nat
      /\ DOMAIN log = 1 .. Len(log) /\ DOMAIN log2 = 1 .. Len(log) + 1
      /\ \A i \in DOMAIN log : log2[i] = log[i]
      /\ log2[Len(log) + 1] = m
  BY AppendKeeps, LenProperties
<1>2. c.outgoingSequence = Len(log) + 1 /\ Len(m) \in Nat
  BY MessageIsSeq DEF SenderAgrees
<1> HIDE DEF log2
<1>3. \A s \in DOMAIN log : CutBefore(log, c, s) = Len(log[s]) + 1
  BY <1>1, <1>2 DEF CutBefore
<1>4. CASE NeedsFragments(m)
  <2>1. d = [outgoingSequence    |-> c.outgoingSequence,
             unsentFragments     |-> TRUE,
             unsentFragmentStart |-> 0,
             unsentBuffer        |-> m]
    BY DEF Loaded
  <2>2. d \in OutHalf
    BY <1>1, <1>2, <2>1 DEF OutHalf
  <2> HIDE DEF d
  <2>3. SenderAgrees(log2, d) /\ d.unsentFragments /\ log2 # <<>>
    BY <1>1, <1>2, <1>4, <2>1, EmptySeq DEF SenderAgrees
  <2>4. FragmentSize \in Nat \ {0}
    BY NetChanAssumption
  <2>5. StartsAligned(d)
    <3>1. 0 * FragmentSize = 0 /\ (0 + 1) * FragmentSize = FragmentSize
      BY <2>4
    <3>2. 0 \div FragmentSize = 0
      BY <2>4, <3>1, QuotientIs
    <3> QED
      BY <2>1, <3>1, <3>2 DEF StartsAligned
  <2>6. CutAgrees(log2, d, net)
    <3> SUFFICES ASSUME NEW s \in DOMAIN log2, NeedsFragments(log2[s]), NEW k \in Nat,
                        k * FragmentSize < CutBefore(log2, d, s)
                 PROVE  \E p \in net : IsFragment(p, s, k + 1)
      BY DEF CutAgrees
    <3>1. CASE s \in DOMAIN log
      <4>1. CutBefore(log2, d, s) = CutBefore(log, c, s) /\ log2[s] = log[s]
        BY <1>1, <1>2, <1>3, <2>1, <3>1 DEF CutBefore
      <4> QED
        BY <3>1, <4>1 DEF CutAgrees
    <3>2. CASE s = Len(log) + 1
      <4>1. CutBefore(log2, d, s) = 0
        BY <1>2, <2>1, <3>2 DEF CutBefore
      <4>2. k * FragmentSize \in Nat
        BY <2>4, MultipleBelow
      <4> QED
        BY <4>1, <4>2
    <3> QED
      BY <1>1, <3>1, <3>2
  <2>7. CutAgrees(log2, AfterFragment(d), net \cup {FragmentPacket(d)})
    BY <1>1, <2>2, <2>3, <2>5, <2>6, CutGrows
  <2> QED
    BY <1>4, <2>7 DEF AfterTransmit, TransmitPacket, d, log2
<1>5. CASE ~NeedsFragments(m)
  <2> DEFINE e == AfterTransmit(c, m)
  <2>1. e.outgoingSequence = Len(log) + 2
    BY <1>1, <1>2, <1>5 DEF AfterTransmit, OutHalf
  <2> HIDE DEF e
  <2> SUFFICES ASSUME NEW s \in DOMAIN log2, NeedsFragments(log2[s]), NEW k \in Nat,
                      k * FragmentSize < CutBefore(log2, e, s)
               PROVE  \E p \in net : IsFragment(p, s, k + 1)
    BY DEF CutAgrees, log2, e
  <2>2. s \in DOMAIN log /\ log2[s] = log[s]
    BY <1>1, <1>5
  <2>3. CutBefore(log2, e, s) = CutBefore(log, c, s)
    BY <1>1, <1>3, <2>1, <2>2 DEF CutBefore
  <2> QED
    BY <2>2, <2>3 DEF CutAgrees
<1> QED
  BY <1>4, <1>5

(* Taking a datagram that is not the end of a message: the part assembled    *)
(* stays a prefix of its message, and ends where a fragment ends.            *)
LEMMA MoreToFollowAgrees ==
    ASSUME NEW log \in Seq(Message), NEW c \in InHalf, NEW p \in Packet,
           ReceiverAgrees(log, c), PartAligned(c),
           IsSlice(log, p), p.fragmented,
           Continues(c, p) => Len(p.data) = FragmentSize
    PROVE  LET d == AfterMoreToFollow(c, p)
           IN  /\ d \in InHalf
               /\ ReceiverAgrees(log, d)
               /\ PartAligned(d)
               /\ d.fragmentSequence = p.sequence
               /\ Continues(c, p) =>
                     Len(d.fragmentBuffer) = p.start + FragmentSize
               /\ ~Continues(c, p) => d = Assembling(c, p)
<1> DEFINE a == Assembling(c, p)
           d == AfterMoreToFollow(c, p)
<1>1. /\ a \in InHalf
      /\ ReceiverAgrees(log, a)
      /\ a.fragmentSequence = p.sequence
  BY AssemblingAgrees
<1>2. FragmentSize \in Nat \ {0} /\ p.start \in Nat
  BY NetChanAssumption DEF Packet
<1>3. PartAligned(a)
  <2>1. CASE p.sequence = c.fragmentSequence
    BY <2>1 DEF Assembling
  <2>2. CASE p.sequence # c.fragmentSequence
    <3>1. Len(a.fragmentBuffer) = 0
      BY <2>2, EmptySeq DEF Assembling, InHalf
    <3>2. 0 = 0 * FragmentSize
      BY <1>2
    <3> QED
      BY <3>1, <3>2 DEF PartAligned
  <2> QED
    BY <2>1, <2>2
<1>4. CASE Continues(c, p)
  <2>1. d = [a EXCEPT !.fragmentBuffer = Assembled(c, p)]
    BY <1>4 DEF AfterMoreToFollow
  <2>2. /\ p.sequence \in DOMAIN log
        /\ Assembled(c, p) \in Seq(Byte)
        /\ Len(Assembled(c, p)) = p.start + Len(p.data)
        /\ p.start + Len(p.data) <= Len(log[p.sequence])
        /\ Assembled(c, p) = SubSeq(log[p.sequence], 1, p.start + Len(p.data))
    BY <1>4, AssembledIsPrefix
  <2>3. Len(p.data) = FragmentSize /\ p.start = Len(a.fragmentBuffer)
    BY <1>4 DEF Continues
  <2> HIDE DEF a, d
  <2>4. d = [incomingSequence |-> a.incomingSequence,
             fragmentSequence |-> p.sequence,
             fragmentBuffer   |-> Assembled(c, p)]
    BY <1>1, <2>1 DEF InHalf
  <2>5. d \in InHalf
    BY <1>1, <2>2, <2>4 DEF InHalf
  <2>6. ReceiverAgrees(log, d)
    BY <1>1, <2>2, <2>4 DEF ReceiverAgrees
  <2>7. PartAligned(d)
    <3>1. PICK k \in Nat : p.start = k * FragmentSize
      BY <1>3, <2>3 DEF PartAligned
    <3>2. (k + 1) * FragmentSize = k * FragmentSize + FragmentSize /\ k + 1 \in Nat
      BY <1>2, MultipleBelow
    <3>3. Len(d.fragmentBuffer) = (k + 1) * FragmentSize
      BY <2>2, <2>3, <2>4, <3>1, <3>2
    <3> QED
      BY <3>2, <3>3 DEF PartAligned
  <2>8. /\ d.fragmentSequence = p.sequence
        /\ Len(d.fragmentBuffer) = p.start + FragmentSize
    BY <2>2, <2>3, <2>4
  <2> QED
    BY <1>4, <2>5, <2>6, <2>7, <2>8 DEF d
<1>5. CASE ~Continues(c, p)
  <2>1. d = a
    BY <1>1, <1>5 DEF AfterMoreToFollow, InHalf
  <2> QED
    BY <1>1, <1>3, <1>5, <2>1
<1> QED
  BY <1>4, <1>5

LEMMA CompleteInit == Init => CompleteInv
<1> SUFFICES ASSUME Init PROVE CompleteInv
  OBVIOUS
<1>1. /\ sent = <<>> /\ DOMAIN <<>> = {} /\ Len(<<>>) = 0
      /\ out = SetupOut /\ in = SetupIn
  BY EmptySeq, LenProperties DEF Init
<1>2. 0 = 0 * FragmentSize
  BY NetChanAssumption
<1> QED
  BY <1>1, <1>2 DEF CompleteInv, CutAgrees, StartsAligned, PartAligned,
                    SetupOut, SetupIn

LEMMA CompleteNext ==
    ASSUME Inv, CompleteInv, [Next]_vars
    PROVE  CompleteInv'
<1>1. /\ sent \in Seq(Message) /\ out \in OutHalf /\ in \in InHalf
      /\ network \subseteq Packet
      /\ SenderAgrees(sent, out) /\ ReceiverAgrees(sent, in)
      /\ \A p \in network : IsSlice(sent, p)
      /\ CutAgrees(sent, out, network) /\ StartsAligned(out) /\ PartAligned(in)
  BY DEF Inv, TypeOK, NetChanInv, CompleteInv
<1>2. ASSUME NEW m \in Message, Transmit(m) PROVE CompleteInv'
  <2>1. /\ ~out.unsentFragments
        /\ network' = network \cup {TransmitPacket(out, m)}
        /\ out' = AfterTransmit(out, m)
        /\ sent' = Append(sent, m)
        /\ in' = in
    BY <1>2 DEF Transmit
  <2>2. CutAgrees(sent', out', network')
    BY <1>1, <2>1, CutOfMessage
  <2>3. StartsAligned(out')
    BY <1>1, <2>1, LeftOfMessage
  <2> QED
    BY <1>1, <2>1, <2>2, <2>3 DEF CompleteInv, CutAgrees, StartsAligned, CutBefore
<1>3. CASE TransmitNextFragment
  <2>1. /\ out.unsentFragments
        /\ network' = network \cup {FragmentPacket(out)}
        /\ out' = AfterFragment(out)
        /\ in' = in /\ sent' = sent
    BY <1>3 DEF TransmitNextFragment
  <2>2. sent # <<>>
    BY <1>1, <2>1, EmptySeq DEF SenderAgrees, OutHalf
  <2>3. CutAgrees(sent', out', network')
    BY <1>1, <2>1, <2>2, CutGrows
  <2>4. StartsAligned(out')
    BY <1>1, <2>1, <2>2, LeftCounts
  <2> QED
    BY <1>1, <2>1, <2>3, <2>4 DEF CompleteInv, CutAgrees, StartsAligned, CutBefore
<1>4. ASSUME NEW p \in network, Process(p) PROVE CompleteInv'
  <2>1. out' = out /\ sent' = sent /\ network' = network
    BY <1>4 DEF Process, DiscardStale, ProcessWhole, ProcessFragment,
                FinishMessage, vars
  <2>2. PartAligned(in')
    <3>1. CASE DiscardStale(p)
      BY <1>1, <3>1 DEF DiscardStale, vars
    <3>2. CASE ProcessWhole(p)
      <4>1. in'.fragmentBuffer = in.fragmentBuffer
        BY <1>1, <3>2 DEF ProcessWhole, InHalf
      <4> QED
        BY <1>1, <4>1 DEF PartAligned
    <3>3. CASE ProcessFragment(p)
      <4>1. /\ in' = AfterMoreToFollow(in, p) /\ p.fragmented
            /\ Continues(in, p) => Len(p.data) = FragmentSize
            /\ p \in Packet /\ IsSlice(sent, p)
        BY <1>1, <1>4, <3>3 DEF ProcessFragment
      <4> QED
        BY <1>1, <4>1, MoreToFollowAgrees
    <3>4. CASE FinishMessage(p)
      <4>1. Assembling(in, p) \in InHalf
        BY <1>1, <1>4, AssemblingAgrees
      <4>2. in'.fragmentBuffer = <<>>
        BY <3>4, <4>1 DEF FinishMessage, InHalf
      <4>3. Len(<<>>) = 0 * FragmentSize
        BY EmptySeq, NetChanAssumption
      <4> QED
        BY <4>2, <4>3 DEF PartAligned
    <3> QED
      BY <1>4, <3>1, <3>2, <3>3, <3>4 DEF Process
  <2> QED
    BY <1>1, <2>1, <2>2
       DEF CompleteInv, CutAgrees, StartsAligned, PartAligned, CutBefore
<1>5. CASE UNCHANGED vars
  BY <1>1, <1>5
     DEF CompleteInv, CutAgrees, StartsAligned, PartAligned, CutBefore, vars
<1> QED
  BY <1>2, <1>3, <1>4, <1>5 DEF Next

LEMMA Completeness == Spec => []CompleteInv
  BY CompleteInit, CompleteNext, Invariance, PTL DEF Spec

(* The fragments of a message that is sent completely: all in the network,   *)
(* each a full slice at its place, and the last one shorter.                 *)
LEMMA FragmentsOfMessage ==
    ASSUME Inv, CompleteInv, NEW s \in DOMAIN sent,
           s < out.outgoingSequence, NeedsFragments(sent[s])
    PROVE  /\ FragmentCount(sent[s]) \in Nat \ {0}
           /\ (FragmentCount(sent[s]) - 1) * FragmentSize <= Len(sent[s])
           /\ Len(sent[s]) < (FragmentCount(sent[s]) - 1) * FragmentSize + FragmentSize
           /\ \A i \in 1 .. FragmentCount(sent[s]) :
                 LET p == Fragment(s, i)
                 IN  /\ p \in network /\ IsFragment(p, s, i)
                     /\ i < FragmentCount(sent[s]) => Len(p.data) = FragmentSize
                     /\ i = FragmentCount(sent[s]) =>
                           /\ Len(p.data) # FragmentSize
                           /\ p.start + Len(p.data) = Len(sent[s])
<1> DEFINE m == sent[s]
           q == Len(m) \div FragmentSize
<1>1. /\ m \in Message /\ Len(m) \in Nat /\ FragmentSize \in Nat \ {0}
      /\ sent \in Seq(Message) /\ network \subseteq Packet
      /\ \A p \in network : IsSlice(sent, p)
      /\ CutAgrees(sent, out, network)
  BY ElementOfSeq, LenProperties, MessageIsSeq, NetChanAssumption
     DEF Inv, TypeOK, NetChanInv, CompleteInv
<1>2. q \in Nat /\ q * FragmentSize <= Len(m) /\ Len(m) < q * FragmentSize + FragmentSize
  <2>1. q \in Nat /\ q * FragmentSize <= Len(m) /\ Len(m) < (q + 1) * FragmentSize
    BY <1>1
  <2> HIDE DEF q
  <2>2. (q + 1) * FragmentSize = q * FragmentSize + FragmentSize
    BY <1>1, <2>1, MultipleBelow
  <2> QED
    BY <2>1, <2>2
<1>3. FragmentCount(m) = q + 1
  BY DEF FragmentCount
<1> HIDE DEF q, m
<1>4. /\ FragmentCount(m) \in Nat \ {0} /\ FragmentCount(m) - 1 = q
  BY <1>2, <1>3
<1>5. ASSUME NEW i \in 1 .. FragmentCount(m)
      PROVE  LET p == Fragment(s, i)
             IN  /\ p \in network /\ IsFragment(p, s, i)
                 /\ i < FragmentCount(m) => Len(p.data) = FragmentSize
                 /\ i = FragmentCount(m) =>
                       /\ Len(p.data) # FragmentSize
                       /\ p.start + Len(p.data) = Len(m)
  <2> DEFINE p == Fragment(s, i)
             k == i - 1
  <2>1. k \in Nat /\ k <= q /\ k + 1 = i /\ (k < q <=> i < FragmentCount(m))
        /\ (k = q <=> i = FragmentCount(m))
    BY <1>2, <1>3
  <2> HIDE DEF k
  <2>2. k * FragmentSize \in Nat /\ k * FragmentSize <= q * FragmentSize
        /\ (k < q => k * FragmentSize + FragmentSize <= q * FragmentSize)
    BY <1>1, <1>2, <2>1, MultipleBelow
  <2>3. \E r \in network : IsFragment(r, s, k + 1)
    <3>1. CutBefore(sent, out, s) = Len(m) + 1
      BY DEF CutBefore, m
    <3>2. k * FragmentSize < Len(m) + 1
      <4>1. q * FragmentSize \in Nat
        BY <1>1, <1>2
      <4> QED
        BY <1>1, <1>2, <2>2, <4>1
    <3> QED
      BY <1>1, <2>1, <3>1, <3>2 DEF CutAgrees
  <2>4. p \in network /\ IsFragment(p, s, i)
    BY <2>1, <2>3 DEF Fragment
  <2> HIDE DEF p
  <2>5. /\ p.sequence = s /\ p.fragmented /\ p.start = k * FragmentSize
        /\ Len(p.data) \in Nat
    <3>1. p.start = (i - 1) * FragmentSize /\ p.sequence = s /\ p.fragmented
      BY <2>4 DEF IsFragment
    <3>2. p \in Packet
      BY <1>1, <2>4
    <3> QED
      BY <3>1, <3>2, LenProperties DEF Packet, k
  <2>6. /\ p.start + Len(p.data) <= Len(m)
        /\ Len(p.data) <= FragmentSize
        /\ Len(p.data) # FragmentSize => p.start + Len(p.data) = Len(m)
    BY <1>1, <2>4, <2>5 DEF IsSlice, m
  <2>7. q * FragmentSize \in Nat
    BY <1>1, <1>2
  <2>8. k < q => Len(p.data) = FragmentSize
    BY <1>1, <1>2, <2>2, <2>5, <2>6, <2>7
  <2>9. k = q => Len(p.data) # FragmentSize
    <3> DEFINE w == q * FragmentSize
    <3>1. k = q => p.start = w
      BY <2>5
    <3>2. w \in Nat /\ Len(m) < w + FragmentSize
      BY <1>2, <2>7
    <3> HIDE DEF w
    <3> QED
      BY <1>1, <2>5, <2>6, <3>1, <3>2
  <2> QED
    BY <2>1, <2>4, <2>6, <2>8, <2>9 DEF p
<1> QED
  BY <1>2, <1>4, <1>5 DEF m

(* After n fragments the receiver has at least n of them, and it has a whole *)
(* number of them: the recursion of Replayed, taken to its end.              *)
LEMMA ReplayedEnds ==
    ASSUME Inv, CompleteInv, NEW s \in DOMAIN sent,
           s < out.outgoingSequence, NeedsFragments(sent[s])
    PROVE  LET d == Replayed(s)
               p == Fragment(s, FragmentCount(sent[s]))
           IN  /\ d \in InHalf /\ ReceiverAgrees(sent, d)
               /\ Len(Assembling(d, p).fragmentBuffer)
                    = (FragmentCount(sent[s]) - 1) * FragmentSize
<1> DEFINE m == sent[s]
           N == FragmentCount(sent[s]) - 1
           D == {c \in InHalf : ReceiverAgrees(sent, c) /\ PartAligned(c)}
           part(c) == IF c.fragmentSequence = s THEN Len(c.fragmentBuffer) ELSE 0
<1>1. /\ sent \in Seq(Message) /\ in \in D /\ network \subseteq Packet
      /\ m \in Message /\ Len(m) \in Nat /\ Len(m) <= MaxMsgLen /\ MaxMsgLen \in Nat
      /\ FragmentSize \in Nat \ {0}
      /\ \A p \in network : IsSlice(sent, p)
  BY ElementOfSeq, LenProperties, MessageIsSeq, NetChanAssumption
     DEF Inv, TypeOK, NetChanInv, CompleteInv
<1>2. /\ N \in Nat
      /\ N * FragmentSize <= Len(m)
      /\ Len(m) < N * FragmentSize + FragmentSize
      /\ \A i \in 1 .. N + 1 :
            /\ Fragment(s, i) \in network /\ IsFragment(Fragment(s, i), s, i)
            /\ i < N + 1 => Len(Fragment(s, i).data) = FragmentSize
  BY FragmentsOfMessage
<1> HIDE DEF N, m
<1>3. ASSUME NEW c \in D, NEW i \in 1 .. N + 1
      PROVE  LET p == Fragment(s, i)
             IN  /\ p \in Packet /\ IsSlice(sent, p) /\ p.fragmented
                 /\ p.sequence = s
                 /\ p.start = (i - 1) * FragmentSize
                 /\ Len(Assembling(c, p).fragmentBuffer) = part(c)
                 /\ \E j \in Nat : part(c) = j * FragmentSize /\ j <= N
  <2> DEFINE p == Fragment(s, i)
  <2>1. /\ p \in Packet /\ IsSlice(sent, p) /\ p.fragmented /\ p.sequence = s
        /\ p.start = (i - 1) * FragmentSize
    BY <1>1, <1>2 DEF IsFragment
  <2> HIDE DEF p
  <2>2. Len(Assembling(c, p).fragmentBuffer) = part(c)
    <3>1. CASE c.fragmentSequence = s
      BY <2>1, <3>1 DEF Assembling
    <3>2. CASE c.fragmentSequence # s
      <4>1. Assembling(c, p).fragmentBuffer = <<>>
        BY <2>1, <3>2 DEF Assembling, InHalf
      <4> QED
        BY <3>2, <4>1, EmptySeq
    <3> QED
      BY <3>1, <3>2
  <2>3. PICK j \in Nat : part(c) = j * FragmentSize
    <3>1. PICK k \in Nat : Len(c.fragmentBuffer) = k * FragmentSize
      BY DEF PartAligned
    <3>2. 0 = 0 * FragmentSize
      BY <1>1
    <3> QED
      BY <3>1, <3>2
  <2>4. part(c) <= Len(m) /\ part(c) \in Nat
    <3>1. Len(c.fragmentBuffer) \in Nat
      BY LenProperties DEF InHalf
    <3>2. c.fragmentBuffer # <<>> /\ c.fragmentSequence = s =>
             Len(c.fragmentBuffer) <= Len(m)
      BY DEF ReceiverAgrees, m
    <3>3. c.fragmentBuffer = <<>> => Len(c.fragmentBuffer) = 0
      BY EmptySeq
    <3> QED
      BY <1>1, <3>1, <3>2, <3>3
  <2>5. j <= N
    <3>1. j * FragmentSize < N * FragmentSize + FragmentSize
      <4> DEFINE w == N * FragmentSize
      <4>1. w \in Nat /\ Len(m) < w + FragmentSize
        BY <1>1, <1>2
      <4> HIDE DEF w, part
      <4>2. part(c) < w + FragmentSize
        BY <1>1, <2>4, <4>1
      <4> QED
        BY <2>3, <4>2 DEF w
    <3> QED
      BY <1>1, <1>2, <3>1, MultipleBelow
  <2> QED
    BY <2>1, <2>2, <2>3, <2>5 DEF p
<1>4. ASSUME NEW c \in D, NEW i \in 1 .. N,
             NEW j \in Nat, part(c) = j * FragmentSize, i - 1 <= j
      PROVE  /\ AfterMoreToFollow(c, Fragment(s, i)) \in D
             /\ \E k \in Nat : /\ part(AfterMoreToFollow(c, Fragment(s, i)))
                                    = k * FragmentSize
                               /\ i <= k
  <2> DEFINE p == Fragment(s, i)
             d == AfterMoreToFollow(c, p)
  <2>1. i \in 1 .. N + 1 /\ i < N + 1 /\ i - 1 \in Nat
    BY <1>2
  <2>2. /\ p \in Packet /\ IsSlice(sent, p) /\ p.fragmented /\ p.sequence = s
        /\ p.start = (i - 1) * FragmentSize
        /\ Len(Assembling(c, p).fragmentBuffer) = part(c)
        /\ Len(p.data) = FragmentSize
    BY <1>2, <1>3, <2>1
  <2> HIDE DEF p
  <2>3. /\ d \in D
        /\ d.fragmentSequence = s
        /\ Continues(c, p) => Len(d.fragmentBuffer) = p.start + FragmentSize
        /\ ~Continues(c, p) => d = Assembling(c, p)
    BY <1>1, <2>2, MoreToFollowAgrees
  <2> HIDE DEF d
  <2>4. CASE Continues(c, p)
    <3>1. part(d) = (i - 1) * FragmentSize + FragmentSize
      BY <2>2, <2>3, <2>4
    <3>2. i * FragmentSize = (i - 1) * FragmentSize + FragmentSize
      <4>1. i - 1 + 1 = i
        OBVIOUS
      <4> QED
        BY <1>1, <2>1, <4>1, MultipleBelow
    <3>3. part(d) = i * FragmentSize /\ i \in Nat /\ i <= i
      BY <3>1, <3>2
    <3> QED
      BY <2>3, <3>3 DEF d, p
  <2>5. CASE ~Continues(c, p)
    <3>1. part(d) = part(c)
      BY <2>2, <2>3, <2>5
    <3>2. j # i - 1
      <4> SUFFICES ASSUME j = i - 1
                   PROVE  Continues(c, p)
        BY <2>5
      <4>1. (i - 1) * FragmentSize + FragmentSize <= N * FragmentSize
            /\ (i - 1) * FragmentSize \in Nat
        <5>1. i - 1 < N
          BY <1>2
        <5> QED
          BY <1>1, <1>2, <2>1, <5>1, MultipleBelow
      <4>2. N * FragmentSize \in Nat
        BY <1>1, <1>2
      <4>3. part(c) + FragmentSize <= MaxMsgLen
        <5> DEFINE w == N * FragmentSize
                   v == (i - 1) * FragmentSize
        <5>1. part(c) = v
          BY <1>4
        <5>2. v + FragmentSize <= w /\ w <= Len(m) /\ v \in Nat /\ w \in Nat
          BY <1>2, <4>1, <4>2
        <5> HIDE DEF v, w, part
        <5> QED
          BY <1>1, <5>1, <5>2
      <4> QED
        BY <1>4, <2>2, <4>3 DEF Continues
    <3>3. i <= j
      BY <1>4, <2>1, <3>2
    <3> QED
      BY <1>4, <2>3, <3>1, <3>3 DEF d, p
  <2> QED
    BY <2>4, <2>5
<1> DEFINE step(c, k) == AfterMoreToFollow(c, Fragment(s, k))
           half == CHOOSE g : g = [n \in 0 .. N |->
                       IF n = 0 THEN in ELSE step(g[n - 1], n)]
           Goes(h, n) == /\ h \in D
                         /\ \E j \in Nat : part(h) = j * FragmentSize /\ n <= j
<1>5. Replayed(s) = half[N]
  BY DEF Replayed, N
<1>6. half = [n \in 0 .. N |-> IF n = 0 THEN in ELSE step(half[n - 1], n)]
  <2> DEFINE F == [x \in (1 .. N) \X D |-> step(x[2], x[1])]
  <2>1. \A c \in D, k \in 1 .. N : step(c, k) \in D
    <3> SUFFICES ASSUME NEW c \in D, NEW k \in 1 .. N
                 PROVE  step(c, k) \in D
      OBVIOUS
    <3>1. k \in 1 .. N + 1 /\ k < N + 1
      BY <1>2
    <3>2. LET p == Fragment(s, k)
          IN  p \in Packet /\ IsSlice(sent, p) /\ p.fragmented
              /\ Len(p.data) = FragmentSize
      BY <1>2, <1>3, <3>1
    <3> QED
      BY <1>1, <3>2, MoreToFollowAgrees
  <2> HIDE DEF D, part, step
  <2>2. F \in [(1 .. N) \X D -> D]
    BY <2>1
  <2>3. \A k \in 1 .. N, c \in D : F[<<k, c>>] = step(c, k)
    OBVIOUS
  <2> HIDE DEF F
  <2>4. PICK f : Iterates(f, N, D, in, F)
    <3>1. N \in Nat /\ in \in D
      BY <1>1, <1>2
    <3> QED
      BY <2>2, <3>1, RecursionExists
  <2>5. ASSUME NEW k \in 1 .. N
        PROVE  f[k] = step(f[k - 1], k)
    <3>1. k - 1 \in 0 .. N
      BY <1>2
    <3>2. f[k - 1] \in D
      BY <2>4, <3>1 DEF Iterates
    <3> QED
      BY <2>3, <2>4, <3>2 DEF Iterates
  <2>6. f = [n \in 0 .. N |-> IF n = 0 THEN in ELSE step(f[n - 1], n)]
    <3>1. \A n \in 0 .. N : n = 0 \/ n \in 1 .. N
      BY <1>2
    <3>2. \A n \in 0 .. N : f[n] = IF n = 0 THEN in ELSE step(f[n - 1], n)
      BY <2>4, <2>5, <3>1 DEF Iterates
    <3> QED
      BY <2>4, <3>2 DEF Iterates
  <2> QED
    BY <2>6
<1>7. half[0] = in /\ \A k \in 1 .. N : half[k] = step(half[k - 1], k)
  <2> HIDE DEF half, step, D, part
  <2>1. 0 \in 0 .. N /\ \A k \in 1 .. N : k \in 0 .. N /\ k # 0
    BY <1>2
  <2> QED
    BY <1>6, <2>1
<1> HIDE DEF half
<1>8. half[N] \in D /\ \E j \in Nat : part(half[N]) = j * FragmentSize /\ N <= j
  <2> HIDE DEF D, part
  <2>1. PICK S : S = {n \in 0 .. N : Goes(half[n], n)}
    OBVIOUS
  <2>2. 0 \in S
    <3>1. \E j \in Nat : part(in) = j * FragmentSize /\ 0 <= j
      <4>1. 1 \in 1 .. N + 1
        BY <1>2
      <4>2. \E j \in Nat : part(in) = j * FragmentSize /\ j <= N
        BY <1>1, <1>3, <4>1
      <4> QED
        BY <4>2
    <3>2. 0 \in 0 .. N
      BY <1>2
    <3> QED
      BY <1>1, <1>7, <2>1, <3>1, <3>2
  <2>3. ASSUME NEW k \in 1 .. N, k - 1 \in S
        PROVE  k \in S
    <3>1. half[k - 1] \in D
      BY <2>1, <2>3
    <3>2. PICK j \in Nat : part(half[k - 1]) = j * FragmentSize /\ k - 1 <= j
      BY <2>1, <2>3
    <3>3. Goes(step(half[k - 1], k), k)
      BY <1>4, <3>1, <3>2
    <3>4. k \in 0 .. N /\ half[k] = step(half[k - 1], k)
      BY <1>2, <1>7
    <3> QED
      BY <2>1, <3>3, <3>4
  <2>4. \A k \in 0 .. N : k \in S
    BY <1>2, <2>2, <2>3, IntervalInduction
  <2>5. N \in 0 .. N
    BY <1>2
  <2> QED
    BY <2>1, <2>4, <2>5
<1>9. PICK j \in Nat : part(half[N]) = j * FragmentSize /\ N <= j
  BY <1>8
<1>10. N + 1 \in 1 .. N + 1 /\ FragmentCount(m) = N + 1
  <2>1. FragmentCount(m) \in Nat
    BY FragmentsOfMessage DEF m
  <2> QED
    BY <1>2, <2>1 DEF N, m
<1>11. /\ Len(Assembling(half[N], Fragment(s, N + 1)).fragmentBuffer) = part(half[N])
       /\ \E k \in Nat : part(half[N]) = k * FragmentSize /\ k <= N
  <2> HIDE DEF part
  <2> QED
    BY <1>3, <1>8, <1>10
<1>12. part(half[N]) = N * FragmentSize
  <2> HIDE DEF part
  <2>1. PICK k \in Nat : part(half[N]) = k * FragmentSize /\ k <= N
    BY <1>11
  <2>2. k = j
    BY <1>1, <1>9, <2>1, MultipleBelow
  <2> QED
    BY <1>2, <1>9, <2>1, <2>2
<1> QED
  BY <1>5, <1>8, <1>10, <1>11, <1>12 DEF m, N

(* "we can still keep the part that we have so far": in every reachable      *)
(* state, whatever datagrams the receiver saw before and in whatever order,  *)
(* the fragments of a message that is sent completely and not passed yet     *)
(* are all on the wire, and complete it when they come once in order.        *)
THEOREM FragmentsStillComplete == Spec => []StillCompletable
<1>1. ASSUME Inv, CompleteInv
      PROVE  StillCompletable
  <2> SUFFICES ASSUME NEW s \in DOMAIN sent, s < out.outgoingSequence,
                      NeedsFragments(sent[s])
               PROVE  /\ \A i \in 1 .. FragmentCount(sent[s]) :
                            \E p \in network : IsFragment(p, s, i)
                      /\ Completes(s)
    BY DEF StillCompletable
  <2> DEFINE m == sent[s]
             N == FragmentCount(m)
             d == Replayed(s)
             last == Fragment(s, N)
  <2>1. /\ sent \in Seq(Message) /\ m \in Message /\ Len(m) \in Nat
        /\ m \in Seq(Byte) /\ Len(m) <= MaxMsgLen /\ MaxMsgLen \in Nat
        /\ network \subseteq Packet /\ \A p \in network : IsSlice(sent, p)
    BY <1>1, ElementOfSeq, LenProperties, MessageIsSeq, NetChanAssumption
       DEF Inv, TypeOK, NetChanInv
  <2>2. /\ N \in Nat \ {0}
        /\ \A i \in 1 .. N :
              /\ Fragment(s, i) \in network /\ IsFragment(Fragment(s, i), s, i)
              /\ i = N => /\ Len(Fragment(s, i).data) # FragmentSize
                          /\ Fragment(s, i).start + Len(Fragment(s, i).data) = Len(m)
    BY <1>1, FragmentsOfMessage
  <2>3. /\ d \in InHalf /\ ReceiverAgrees(sent, d)
        /\ Len(Assembling(d, last).fragmentBuffer) = (N - 1) * FragmentSize
    BY <1>1, ReplayedEnds
  <2> HIDE DEF N, d, m
  <2>4. /\ last \in network /\ last.sequence = s /\ last.fragmented
        /\ last.start = (N - 1) * FragmentSize
        /\ Len(last.data) # FragmentSize
        /\ last.start + Len(last.data) = Len(m)
    <3>1. N \in 1 .. N
      BY <2>2
    <3> QED
      BY <2>2, <3>1 DEF IsFragment
  <2> HIDE DEF last
  <2>5. last \in Packet /\ IsSlice(sent, last)
    BY <2>1, <2>4
  <2>6. Continues(d, last)
    <3>1. Len(Assembling(d, last).fragmentBuffer) = last.start
      BY <2>3, <2>4
    <3> QED
      BY <2>1, <2>4, <3>1 DEF Continues
  <2>7. Assembled(d, last) = SubSeq(m, 1, Len(m))
    <3>1. Assembled(d, last)
            = SubSeq(sent[last.sequence], 1, last.start + Len(last.data))
      BY <2>1, <2>3, <2>4, <2>5, <2>6, AssembledIsPrefix
    <3> QED
      BY <2>4, <3>1 DEF m
  <2>8. Assembled(d, last) = m
    BY <2>1, <2>7, SubSeqFull
  <2>9. Completes(s)
    BY <2>4, <2>6, <2>8 DEF Completes, N, d, m, last
  <2> QED
    BY <2>2, <2>9 DEF N, m
<1> QED
  BY <1>1, Invariance, Completeness, PTL
=============================================================================
