------------------------ MODULE ClientCommandsProofs ------------------------
(***************************************************************************)
(* What ClientCommands promises for every size of the ring, every number   *)
(* of commands and messages and every bound on the messages in flight.     *)
(***************************************************************************)
EXTENDS ClientCommands, SendPathProofs

(* The commands the client added, the disconnect command left out. *)
AddedBy(c) == c.reliableSequence - (IF c.connected THEN 0 ELSE 1)

WindowIsBounded(c) ==
    IF c.connected
    THEN /\ c.reliableSequence <= MaxCommands
         /\ c.reliableAcknowledge <= c.reliableSequence
         /\ Unacknowledged(c) <= MaxReliable
    ELSE c.reliableSequence > 0

(* The ring holds the last MaxReliable commands. *)
RingIsHeld(c) ==
    \A n \in 1 .. c.reliableSequence :
        n > c.reliableSequence - MaxReliable =>
            c.reliableCommands[Slot(n)] = IF n > AddedBy(c) THEN Disconnect ELSE n

ClientIsSound(c) == c \in ClientHalf /\ WindowIsBounded(c) /\ RingIsHeld(c)

(* What a client packet may say: a command under its own number, and the    *)
(* disconnect command once the client is gone.                              *)
PacketsOf(c) ==
    {p \in ClientMessage :
        /\ p.first + Len(p.texts) <= c.reliableSequence + 1
        /\ \A j \in 1 .. Len(p.texts) :
              \/ p.texts[j] = p.first + (j - 1) /\ p.texts[j] <= AddedBy(c)
              \/ p.texts[j] = Disconnect /\ ~c.connected}

(* As long as nothing was stranded it begins where the server is, at the    *)
(* latest.                                                                  *)
Packets ==
    {p \in PacketsOf(cl) : ~stranded => p.first <= sv.lastClientCommand + 1}

(* The server messages with an acknowledgement from lo to hi, and their     *)
(* order.                                                                   *)
Acking(lo, hi) == {m \in ServerMessage : lo <= m.ack /\ m.ack <= hi}

AckOrder == {p \in ServerMessage \X ServerMessage : p[1].ack <= p[2].ack}

ExecutedIsAdded ==
    /\ Len(executed) = sv.lastClientCommand
    /\ sv.lastClientCommand <= cl.reliableSequence
    /\ \A n \in 1 .. sv.lastClientCommand :
          \/ executed[n] = n /\ n <= AddedBy(cl)
          \/ executed[n] = Disconnect /\ n = sv.lastClientCommand /\ sv.zombie

(* As long as no queue was stranded, acknowledgements reach the client in   *)
(* the order in which the server sent them.                                 *)
AcknowledgedInOrder ==
    ~stranded =>
        /\ ~Strands(path)
        /\ InOrder(path, AckOrder)
        /\ cl.connected =>
              /\ cl.reliableAcknowledge <= sv.lastClientCommand
              /\ path \in PathOf(Acking(cl.reliableAcknowledge, sv.lastClientCommand))

IInv ==
    /\ ClientIsSound(cl)
    /\ sv \in ServerHalf
    /\ toServer \in Seq(Packets)
    /\ path \in PathOf(Acking(0, sv.lastClientCommand))
    /\ gameStates \in 0 .. MaxGameStates
    /\ executed \in Seq(Text)
    /\ stranded \in BOOLEAN
    /\ lost \in BOOLEAN
    /\ ExecutedIsAdded
    /\ AcknowledgedInOrder
    /\ LostOnlyIfStranded

-----------------------------------------------------------------------------
(* The client's half. *)

LEMMA ClientParts ==
    ASSUME NEW c, ClientIsSound(c)
    PROVE  /\ c.connected \in BOOLEAN
           /\ c.reliableSequence \in Nat /\ c.reliableSequence <= MaxCommands + 1
           /\ c.reliableAcknowledge \in Nat
           /\ c.reliableCommands \in [0 .. MaxReliable - 1 -> Text]
           /\ AddedBy(c) \in Nat /\ AddedBy(c) <= c.reliableSequence
           /\ c.connected => /\ AddedBy(c) = c.reliableSequence
                             /\ c.reliableSequence <= MaxCommands
                             /\ c.reliableAcknowledge <= c.reliableSequence
                             /\ Unacknowledged(c) \in 0 .. MaxReliable
           /\ ~c.connected => AddedBy(c) = c.reliableSequence - 1
  BY ClientCommandsAssumption
     DEF ClientIsSound, ClientHalf, WindowIsBounded, AddedBy, Unacknowledged

LEMMA SlotOf ==
    ASSUME NEW n \in Nat
    PROVE  Slot(n) \in 0 .. MaxReliable - 1
  BY SlotType, ClientCommandsAssumption DEF Slot

(* A command more, in its slot: the other commands of the window keep       *)
(* theirs.                                                                  *)
LEMMA StoredInRing ==
    ASSUME NEW c, ClientIsSound(c), c.connected, NEW text \in Text,
           NEW t, t = Stored(c, text)
    PROVE  /\ t \in ClientHalf /\ t.connected
           /\ t.reliableSequence = c.reliableSequence + 1
           /\ t.reliableAcknowledge = c.reliableAcknowledge
           /\ t.reliableCommands[Slot(c.reliableSequence + 1)] = text
           /\ \A n \in 1 .. c.reliableSequence :
                 n > (c.reliableSequence + 1) - MaxReliable =>
                    t.reliableCommands[Slot(n)] = n
<1>1. /\ c \in ClientHalf /\ c.reliableSequence \in Nat
      /\ c.reliableSequence <= MaxCommands
      /\ c.reliableCommands \in [0 .. MaxReliable - 1 -> Text]
      /\ AddedBy(c) = c.reliableSequence
  BY ClientParts DEF ClientIsSound
<1>2. PICK k : k = Slot(c.reliableSequence + 1)
  OBVIOUS
<1>3. k \in 0 .. MaxReliable - 1
  BY <1>1, <1>2, SlotOf
<1>4. t = [c EXCEPT !.reliableSequence = c.reliableSequence + 1,
                    !.reliableCommands = [c.reliableCommands EXCEPT ![k] = text]]
  BY <1>2 DEF Stored
<1>5. PICK ring : ring = [c.reliableCommands EXCEPT ![k] = text]
  OBVIOUS
<1>6. /\ ring \in [0 .. MaxReliable - 1 -> Text] /\ ring[k] = text
      /\ \A i \in 0 .. MaxReliable - 1 : i # k => ring[i] = c.reliableCommands[i]
  BY <1>1, <1>3, <1>5
<1>7. c.reliableSequence + 1 \in 0 .. MaxCommands + 1
  BY <1>1, ClientCommandsAssumption
<1>8. t = [c EXCEPT !.reliableSequence = c.reliableSequence + 1,
                    !.reliableCommands = ring]
  BY <1>4, <1>5
<1>9. /\ t \in ClientHalf /\ t.connected
      /\ t.reliableSequence = c.reliableSequence + 1
      /\ t.reliableAcknowledge = c.reliableAcknowledge
      /\ t.reliableCommands = ring
  BY <1>1, <1>6, <1>7, <1>8 DEF ClientHalf
<1>10. ASSUME NEW n \in 1 .. c.reliableSequence,
              n > (c.reliableSequence + 1) - MaxReliable
       PROVE  ring[Slot(n)] = n
  <2>1. Slot(n) # k
    BY <1>1, <1>2, <1>10, SlotsDiffer, ClientCommandsAssumption DEF Slot
  <2>2. c.reliableCommands[Slot(n)] = n
    <3>1. n > c.reliableSequence - MaxReliable /\ ~(n > AddedBy(c))
      BY <1>1, <1>10, ClientCommandsAssumption
    <3> QED
      BY <3>1 DEF ClientIsSound, RingIsHeld
  <2>3. Slot(n) \in 0 .. MaxReliable - 1
    BY <1>1, SlotOf
  <2> QED
    BY <1>6, <2>1, <2>2, <2>3
<1> QED
  BY <1>2, <1>6, <1>9, <1>10

(* CL_AddReliableCommand with room in the window. *)
LEMMA AddedIsSound ==
    ASSUME NEW c, ClientIsSound(c), c.connected, ~WindowFull(c),
           c.reliableSequence < MaxCommands,
           NEW t, t = Stored(c, c.reliableSequence + 1)
    PROVE  /\ ClientIsSound(t) /\ t.connected
           /\ t.reliableSequence = c.reliableSequence + 1
           /\ t.reliableAcknowledge = c.reliableAcknowledge
<1>1. /\ c.reliableSequence \in Nat /\ c.reliableAcknowledge \in Nat
      /\ c.reliableAcknowledge <= c.reliableSequence
  BY ClientParts
<1>2. PICK text : text = c.reliableSequence + 1
  OBVIOUS
<1>3. text \in Text
  BY <1>1, <1>2, ClientCommandsAssumption DEF Text
<1>4. /\ t \in ClientHalf /\ t.connected
      /\ t.reliableSequence = c.reliableSequence + 1
      /\ t.reliableAcknowledge = c.reliableAcknowledge
      /\ t.reliableCommands[Slot(c.reliableSequence + 1)] = text
      /\ \A n \in 1 .. c.reliableSequence :
            n > (c.reliableSequence + 1) - MaxReliable =>
               t.reliableCommands[Slot(n)] = n
  BY <1>2, <1>3, StoredInRing
<1>5. WindowIsBounded(t)
  BY <1>1, <1>4, ClientCommandsAssumption
     DEF WindowIsBounded, WindowFull, Unacknowledged
<1>6. RingIsHeld(t)
  <2> SUFFICES ASSUME NEW n \in 1 .. c.reliableSequence + 1,
                      n > (c.reliableSequence + 1) - MaxReliable
               PROVE  /\ t.reliableCommands[Slot(n)] = n
                      /\ ~(n > AddedBy(t))
    BY <1>4 DEF RingIsHeld
  <2>1. ~(n > AddedBy(t))
    BY <1>1, <1>4 DEF AddedBy
  <2>2. CASE n = c.reliableSequence + 1
    BY <1>2, <1>4, <2>1, <2>2
  <2>3. CASE n \in 1 .. c.reliableSequence
    BY <1>4, <2>1, <2>3
  <2> QED
    BY <1>1, <2>2, <2>3
<1> QED
  BY <1>4, <1>5, <1>6 DEF ClientIsSound

(* What CL_WritePacket writes. *)
LEMMA PacketParts ==
    ASSUME NEW c, c \in ClientHalf, c.reliableAcknowledge <= c.reliableSequence,
           NEW p, p = Packet(c)
    PROVE  /\ p \in ClientMessage
           /\ p.first = c.reliableAcknowledge + 1
           /\ Len(p.texts) = c.reliableSequence - c.reliableAcknowledge
           /\ \A j \in 1 .. Len(p.texts) :
                 p.texts[j] = c.reliableCommands[Slot(c.reliableAcknowledge + j)]
<1> DEFINE A == c.reliableAcknowledge
           u == Unacknowledged(c)
           texts == [i \in 1 .. u |-> c.reliableCommands[Slot(A + i)]]
<1>1. /\ A \in Nat /\ A <= MaxCommands + 1
      /\ u \in Nat /\ u = c.reliableSequence - A
      /\ c.reliableCommands \in [0 .. MaxReliable - 1 -> Text]
  BY ClientCommandsAssumption DEF ClientHalf, Unacknowledged
<1>2. p = [first |-> A + 1, texts |-> texts]
  BY DEF Packet
<1> HIDE DEF u
<1>3. ASSUME NEW i \in 1 .. u
      PROVE  c.reliableCommands[Slot(A + i)] \in Text
  <2>1. A + i \in Nat
    BY <1>1
  <2>2. Slot(A + i) \in 0 .. MaxReliable - 1
    BY <2>1, SlotOf
  <2> QED
    BY <1>1, <2>2
<1>4. texts \in [1 .. u -> Text]
  BY <1>3
<1>5. texts \in Seq(Text) /\ Len(texts) = u
  BY <1>1, <1>4, IsASeq, LenProperties
<1>6. p.first = A + 1 /\ p.texts = texts
  BY <1>2
<1>7. \A j \in 1 .. u : p.texts[j] = c.reliableCommands[Slot(A + j)]
  BY <1>6
<1> HIDE DEF texts
<1>8. p \in ClientMessage
  <2>1. A + 1 \in 1 .. MaxCommands + 2
    BY <1>1, ClientCommandsAssumption
  <2> QED
    BY <1>2, <1>5, <2>1 DEF ClientMessage
<1> QED
  BY <1>1, <1>5, <1>6, <1>7, <1>8

(* A packet of a connected client. *)
LEMMA PacketIsSound ==
    ASSUME NEW c, ClientIsSound(c), c.connected, NEW p, p = Packet(c)
    PROVE  p \in PacketsOf(c) /\ p.first = c.reliableAcknowledge + 1
<1>1. /\ c.reliableSequence \in Nat /\ c.reliableAcknowledge \in Nat
      /\ c.reliableAcknowledge <= c.reliableSequence
      /\ Unacknowledged(c) \in 0 .. MaxReliable
      /\ AddedBy(c) = c.reliableSequence /\ c \in ClientHalf
  BY ClientParts DEF ClientIsSound
<1>2. /\ p \in ClientMessage
      /\ p.first = c.reliableAcknowledge + 1
      /\ Len(p.texts) = c.reliableSequence - c.reliableAcknowledge
      /\ \A j \in 1 .. Len(p.texts) :
            p.texts[j] = c.reliableCommands[Slot(c.reliableAcknowledge + j)]
  BY <1>1, PacketParts
<1>3. ASSUME NEW j \in 1 .. Len(p.texts)
      PROVE  p.texts[j] = p.first + (j - 1) /\ p.texts[j] <= AddedBy(c)
  <2>1. PICK n : n = c.reliableAcknowledge + j
    OBVIOUS
  <2>2. /\ n \in 1 .. c.reliableSequence /\ ~(n > AddedBy(c))
        /\ n > c.reliableSequence - MaxReliable /\ n = p.first + (j - 1)
    <3> DEFINE R == c.reliableSequence
               A == c.reliableAcknowledge
    <3>1. /\ R \in Nat /\ A \in Nat /\ A <= R /\ R - A <= MaxReliable
          /\ p.first = A + 1 /\ Len(p.texts) = R - A /\ MaxReliable \in Nat
          /\ AddedBy(c) = R
      BY <1>1, <1>2, ClientCommandsAssumption DEF Unacknowledged
    <3> HIDE DEF R, A
    <3>2. /\ A + j \in 1 .. R /\ A + j > R - MaxReliable /\ ~(A + j > AddedBy(c))
          /\ A + j = p.first + (j - 1)
      BY <3>1
    <3> QED
      BY <2>1, <3>2 DEF R, A
  <2>3. c.reliableCommands[Slot(n)] = n
    BY <2>2 DEF ClientIsSound, RingIsHeld
  <2>4. p.texts[j] = n
    BY <1>2, <2>1, <2>3
  <2>5. n <= AddedBy(c)
    <3>1. n \in Nat /\ AddedBy(c) \in Nat
      BY <1>1, <2>2
    <3> QED
      BY <2>2, <3>1
  <2> QED
    BY <2>2, <2>4, <2>5
<1>4. p.first + Len(p.texts) <= c.reliableSequence + 1
  BY <1>1, <1>2
<1> QED
  BY <1>2, <1>3, <1>4 DEF PacketsOf

(* A client that has disconnected. *)
Left(c) == [c EXCEPT !.connected = FALSE]

(* The disconnect command may take the slot of the oldest command that is   *)
(* not acknowledged; then it is what the packet says in its place too.      *)
LEMMA DisconnectIsSound ==
    ASSUME NEW c, ClientIsSound(c), c.connected,
           NEW last, last = Stored(c, Disconnect),
           NEW t, t = Left(last),
           NEW p, p = Packet(last)
    PROVE  /\ ClientIsSound(t) /\ ~t.connected
           /\ t.reliableSequence = c.reliableSequence + 1
           /\ p \in PacketsOf(t) /\ p.first = c.reliableAcknowledge + 1
<1> DEFINE R == c.reliableSequence
           A == c.reliableAcknowledge
<1>1. /\ R \in Nat /\ A \in Nat /\ A <= R /\ R - A <= MaxReliable
      /\ MaxReliable \in Nat \ {0}
  BY ClientParts, ClientCommandsAssumption DEF Unacknowledged
<1>2. Disconnect \in Text
  BY DEF Text
<1>3. /\ last \in ClientHalf /\ last.connected
      /\ last.reliableSequence = R + 1
      /\ last.reliableAcknowledge = A
      /\ last.reliableCommands[Slot(R + 1)] = Disconnect
      /\ \A n \in 1 .. R :
            n > (R + 1) - MaxReliable => last.reliableCommands[Slot(n)] = n
  BY <1>2, StoredInRing
<1>11. p.first = A + 1 => p.first = c.reliableAcknowledge + 1
  OBVIOUS
<1>12. \A k : k = R + 1 => k = c.reliableSequence + 1
  OBVIOUS
<1>13. AddedBy(t) = t.reliableSequence - (IF t.connected THEN 0 ELSE 1)
  BY DEF AddedBy
<1> HIDE DEF R, A
<1>4. /\ t \in ClientHalf /\ ~t.connected
      /\ t.reliableSequence = R + 1
      /\ t.reliableCommands = last.reliableCommands
  BY <1>3 DEF ClientHalf, Left
<1>5. AddedBy(t) = R
  BY <1>1, <1>4, <1>13
<1>6. WindowIsBounded(t)
  BY <1>1, <1>4 DEF WindowIsBounded
<1>7. RingIsHeld(t)
  <2> SUFFICES ASSUME NEW n \in 1 .. R + 1, n > (R + 1) - MaxReliable
               PROVE  last.reliableCommands[Slot(n)]
                         = IF n > R THEN Disconnect ELSE n
    BY <1>1, <1>4, <1>5 DEF RingIsHeld
  <2>1. CASE n = R + 1
    BY <1>1, <1>3, <2>1
  <2>2. CASE n \in 1 .. R
    BY <1>1, <1>3, <2>2
  <2> QED
    BY <1>1, <2>1, <2>2
<1>8. /\ p \in ClientMessage /\ p.first = A + 1
      /\ Len(p.texts) = (R + 1) - A
      /\ \A j \in 1 .. Len(p.texts) :
            p.texts[j] = last.reliableCommands[Slot(A + j)]
  <2>1. last.reliableAcknowledge <= last.reliableSequence
    BY <1>1, <1>3
  <2>2. /\ p \in ClientMessage
        /\ p.first = last.reliableAcknowledge + 1
        /\ Len(p.texts) = last.reliableSequence - last.reliableAcknowledge
        /\ \A j \in 1 .. Len(p.texts) :
              p.texts[j] = last.reliableCommands[Slot(last.reliableAcknowledge + j)]
    BY <1>3, <2>1, PacketParts
  <2> QED
    BY <1>3, <2>2
<1>9. ASSUME NEW j \in 1 .. Len(p.texts)
      PROVE  \/ p.texts[j] = p.first + (j - 1) /\ p.texts[j] <= R
             \/ p.texts[j] = Disconnect
  <2>1. PICK n : n = A + j
    OBVIOUS
  <2>2. /\ n \in 1 .. R + 1 /\ n = p.first + (j - 1)
        /\ n >= (R + 1) - MaxReliable
        /\ p.texts[j] = last.reliableCommands[Slot(n)]
    <3>1. /\ A + j \in 1 .. R + 1 /\ A + j = p.first + (j - 1)
          /\ A + j >= (R + 1) - MaxReliable
      <4>1. j \in 1 .. (R + 1) - A /\ p.first = A + 1
        BY <1>8
      <4>2. j \in Nat /\ j >= 1 /\ j <= (R + 1) - A
        BY <1>1, <4>1
      <4>3. R \in Nat /\ A \in Nat
        BY <1>1
      <4>4. A + j \in 1 .. R + 1
        BY <4>2, <4>3
      <4>5. A + j = p.first + (j - 1)
        BY <4>1, <4>2, <4>3
      <4>6. A + j >= (R + 1) - MaxReliable
        BY <1>1, <4>2
      <4> QED
        BY <4>4, <4>5, <4>6
    <3> QED
      BY <1>8, <2>1, <3>1
  <2>3. CASE n = R + 1
    BY <1>3, <2>2, <2>3
  <2>4. CASE n \in 1 .. R /\ n > (R + 1) - MaxReliable
    BY <1>3, <2>2, <2>4
  <2>5. CASE n = (R + 1) - MaxReliable
    <3>1. Slot(n) = Slot(R + 1)
      <4>1. R + 1 = n + MaxReliable /\ n \in Nat
        BY <1>1, <2>2, <2>5
      <4>2. (n + MaxReliable) % MaxReliable = n % MaxReliable
        BY <1>1, <4>1, SlotWraps
      <4> QED
        BY <4>1, <4>2 DEF Slot
    <3> QED
      BY <1>3, <2>2, <3>1
  <2>6. n = R + 1 \/ (n \in 1 .. R /\ n > (R + 1) - MaxReliable) \/ n = (R + 1) - MaxReliable
    BY <1>1, <2>2
  <2> QED
    BY <2>3, <2>4, <2>5, <2>6
<1>10. p \in PacketsOf(t)
  <2>1. p.first + Len(p.texts) <= R + 1 + 1
    BY <1>1, <1>8
  <2> QED
    BY <1>4, <1>5, <1>8, <1>9, <2>1 DEF PacketsOf
<1> QED
  BY <1>4, <1>6, <1>7, <1>8, <1>10, <1>11, <1>12 DEF ClientIsSound

(* What a packet may say stays so while the client goes on. *)
LEMMA PacketsStaySound ==
    ASSUME NEW c, ClientIsSound(c), NEW t, ClientIsSound(t),
           c.reliableSequence <= t.reliableSequence,
           AddedBy(c) <= AddedBy(t), t.connected => c.connected
    PROVE  PacketsOf(c) \subseteq PacketsOf(t)
<1>1. /\ c.reliableSequence \in Nat /\ t.reliableSequence \in Nat
      /\ AddedBy(c) \in Nat /\ AddedBy(t) \in Nat
  BY ClientParts
<1> SUFFICES ASSUME NEW p \in PacketsOf(c)
             PROVE  p \in PacketsOf(t)
  OBVIOUS
<1>2. /\ p \in ClientMessage
      /\ p.first + Len(p.texts) <= c.reliableSequence + 1
      /\ \A j \in 1 .. Len(p.texts) :
            \/ p.texts[j] = p.first + (j - 1) /\ p.texts[j] <= AddedBy(c)
            \/ p.texts[j] = Disconnect /\ ~c.connected
  BY DEF PacketsOf
<1>3. p.first \in Nat /\ Len(p.texts) \in Nat
  BY <1>2, LenProperties, ClientCommandsAssumption DEF ClientMessage
<1>4. p.first + Len(p.texts) <= t.reliableSequence + 1
  BY <1>1, <1>2, <1>3
<1>5. ASSUME NEW j \in 1 .. Len(p.texts)
      PROVE  \/ p.texts[j] = p.first + (j - 1) /\ p.texts[j] <= AddedBy(t)
             \/ p.texts[j] = Disconnect /\ ~t.connected
  <2>1. CASE p.texts[j] = p.first + (j - 1) /\ p.texts[j] <= AddedBy(c)
    <3>1. p.texts[j] \in Int
      BY <1>3, <2>1
    <3> QED
      BY <1>1, <2>1, <3>1
  <2>2. CASE p.texts[j] = Disconnect /\ ~c.connected
    BY <2>2
  <2> QED
    BY <1>2, <2>1, <2>2
<1> QED
  BY <1>2, <1>4, <1>5 DEF PacketsOf

(* The acknowledgement of a server message is taken, or everything counts   *)
(* as acknowledged.                                                         *)
LEMMA AcknowledgedIsSound ==
    ASSUME NEW c, ClientIsSound(c), c.connected,
           NEW m \in ServerMessage, m.ack <= c.reliableSequence,
           NEW t, t = Acknowledged(c, m)
    PROVE  /\ ClientIsSound(t) /\ t.connected
           /\ t.reliableSequence = c.reliableSequence
           /\ c.reliableAcknowledge <= m.ack => t.reliableAcknowledge = m.ack
<1>1. /\ c \in ClientHalf
      /\ c.reliableSequence \in Nat /\ c.reliableAcknowledge \in Nat
      /\ c.reliableSequence <= MaxCommands + 1
      /\ Unacknowledged(c) \in 0 .. MaxReliable
      /\ MaxReliable \in Nat /\ MaxCommands \in Nat
      /\ c.reliableSequence <= MaxCommands
  BY ClientParts, ClientCommandsAssumption DEF ClientIsSound
<1>2. m.ack \in Nat
  BY DEF ServerMessage
<1>3. PICK ack : ack = IF m.ack < c.reliableSequence - MaxReliable
                       THEN c.reliableSequence ELSE m.ack
  OBVIOUS
<1>4. /\ ack \in 0 .. MaxCommands + 1 /\ ack <= c.reliableSequence
      /\ c.reliableSequence - ack <= MaxReliable
      /\ c.reliableAcknowledge <= m.ack => ack = m.ack
  BY <1>1, <1>2, <1>3 DEF Unacknowledged
<1>5. t = [c EXCEPT !.reliableAcknowledge = ack]
  BY <1>3 DEF Acknowledged
<1>6. /\ t \in ClientHalf /\ t.connected
      /\ t.reliableSequence = c.reliableSequence
      /\ t.reliableCommands = c.reliableCommands
      /\ t.reliableAcknowledge = ack
  BY <1>1, <1>4, <1>5 DEF ClientHalf
<1>7. WindowIsBounded(t)
  BY <1>1, <1>4, <1>6 DEF WindowIsBounded, Unacknowledged
<1>8. RingIsHeld(t)
  BY <1>6 DEF RingIsHeld, AddedBy, ClientIsSound
<1> QED
  BY <1>4, <1>6, <1>7, <1>8 DEF ClientIsSound

(* The same, of what CL_Disconnect leaves and sends. *)
LEMMA DisconnectLeaves ==
    ASSUME NEW c, ClientIsSound(c), c.connected
    PROVE  /\ ClientIsSound(Left(Stored(c, Disconnect)))
           /\ ~Left(Stored(c, Disconnect)).connected
           /\ Left(Stored(c, Disconnect)).reliableSequence = c.reliableSequence + 1
           /\ Packet(Stored(c, Disconnect)) \in PacketsOf(Left(Stored(c, Disconnect)))
           /\ Packet(Stored(c, Disconnect)).first = c.reliableAcknowledge + 1
<1>1. PICK last : last = Stored(c, Disconnect)
  OBVIOUS
<1>2. PICK t : t = Left(last)
  OBVIOUS
<1>3. PICK p : p = Packet(last)
  OBVIOUS
<1>4. /\ ClientIsSound(t) /\ ~t.connected
      /\ t.reliableSequence = c.reliableSequence + 1
      /\ p \in PacketsOf(t) /\ p.first = c.reliableAcknowledge + 1
  BY <1>1, <1>2, <1>3, DisconnectIsSound
<1> QED
  BY <1>1, <1>2, <1>3, <1>4

-----------------------------------------------------------------------------
(* The server's half. *)

(* The texts SV_ClientCommand executes are the next commands in turn.       *)
LEMMA NewTextsInTurn ==
    ASSUME IInv, NEW p \in Packets, ~LosesCommands(p),
           NEW texts, texts = NewTexts(p)
    PROVE  /\ texts \in Seq(Text)
           /\ sv.lastClientCommand + Len(texts) <= cl.reliableSequence
           /\ \A j \in 1 .. Len(texts) :
                 \/ /\ texts[j] = sv.lastClientCommand + j
                    /\ sv.lastClientCommand + j <= AddedBy(cl)
                 \/ texts[j] = Disconnect /\ j = Len(texts)
<1> DEFINE L == sv.lastClientCommand
           R == cl.reliableSequence
           a == AddedBy(cl)
<1>1. L \in Nat /\ R \in Nat /\ a \in Nat /\ L <= R
  BY ClientParts, ClientCommandsAssumption DEF IInv, ServerHalf, ExecutedIsAdded
<1>2. /\ p.first \in Nat /\ p.first >= 1 /\ p.texts \in Seq(Text)
      /\ Len(p.texts) \in Nat
      /\ p.first + Len(p.texts) <= R + 1
      /\ \A j \in 1 .. Len(p.texts) :
            \/ p.texts[j] = p.first + (j - 1) /\ p.texts[j] <= a
            \/ p.texts[j] = Disconnect
  BY LenProperties, ClientCommandsAssumption DEF Packets, PacketsOf, ClientMessage
<1> DEFINE k == NextInTurn(p)
           new == {i \in DOMAIN p.texts : i >= k}
           ends == {i \in new : p.texts[i] = Disconnect}
           e == IF ends = {} THEN Len(p.texts) ELSE Min(ends)
<1>3. texts = IF new = {} THEN <<>> ELSE SubSeq(p.texts, k, e)
  BY DEF NewTexts
<1>4. k = (L + 2) - p.first
  <2>1. p.first \in Nat /\ L \in Nat
    BY <1>1, <1>2
  <2> QED
    BY <2>1 DEF NextInTurn
<1>5. new = {i \in 1 .. Len(p.texts) : i >= k}
  BY <1>2, LenProperties
<1>6. CASE new = {}
  <2>1. texts = <<>> /\ Len(texts) = 0
    BY <1>3, <1>6
  <2>2. texts \in Seq(Text)
    BY <2>1
  <2> QED
    BY <1>1, <2>1, <2>2
<1>7. CASE new # {}
  <2>1. p.first <= L + 1
    BY <1>1, <1>2, <1>5, <1>7, EmptySeq DEF LosesCommands
  <2>2. k \in 1 .. Len(p.texts) /\ k \in Nat
    <3>1. p.first \in Nat /\ L \in Nat /\ Len(p.texts) \in Nat
      BY <1>1, <1>2
    <3> HIDE DEF k, new
    <3>2. k \in Nat /\ k >= 1
      BY <1>4, <2>1, <3>1
    <3>3. PICK i \in 1 .. Len(p.texts) : i >= k
      BY <1>5, <1>7
    <3> QED
      BY <3>1, <3>2, <3>3
  <2>3. /\ e \in k .. Len(p.texts)
        /\ \A j \in k .. Len(p.texts) : p.texts[j] = Disconnect => e <= j
        /\ e = Len(p.texts) \/ p.texts[e] = Disconnect
    <3>1. CASE ends = {}
      BY <1>2, <1>5, <2>2, <3>1
    <3>2. CASE ends # {}
      <4>1. ends \in SUBSET Nat
        BY <1>2, <1>5
      <4>2. \E x \in ends : \A y \in ends : x <= y
        <5> HIDE DEF ends
        <5> QED
          BY <3>2, <4>1, LeastExists
      <4>3. e \in ends /\ \A y \in ends : e <= y
        <5>1. e = Min(ends)
          BY <3>2
        <5> HIDE DEF ends, e
        <5> QED
          BY <4>2, <5>1 DEF Min
      <4> HIDE DEF e
      <4> QED
        BY <1>2, <1>5, <2>2, <4>3
    <3> QED
      BY <3>1, <3>2
  <2> HIDE DEF e
  <2>4. texts = SubSeq(p.texts, k, e)
    BY <1>3, <1>7 DEF e
  <2> HIDE DEF k, new, ends, a, L, R
  <2>5. \A i \in k .. e : p.texts[i] \in Text
    <3>1. \A i \in k .. e : i \in 1 .. Len(p.texts)
      BY <1>2, <2>2, <2>3
    <3> QED
      BY <1>2, <3>1, ElementOfSeq
  <2>6. /\ texts \in Seq(Text)
        /\ Len(texts) = (e - k) + 1
        /\ \A j \in 1 .. (e - k) + 1 : texts[j] = p.texts[(k + j) - 1]
    <3>1. e \in Nat /\ k <= e
      BY <1>2, <2>2, <2>3
    <3>2. /\ texts \in Seq(Text)
          /\ Len(texts) = IF k <= e THEN e - k + 1 ELSE 0
          /\ \A j \in 1 .. e - k + 1 : texts[j] = p.texts[k + j - 1]
      BY <2>2, <2>4, <2>5, <3>1, SubSeqProperties
    <3>3. e - k + 1 = (e - k) + 1 /\ \A j \in Int : k + j - 1 = (k + j) - 1
      BY <2>2, <3>1
    <3>4. Len(texts) = (e - k) + 1
      BY <3>1, <3>2, <3>3
    <3>5. ASSUME NEW j \in 1 .. (e - k) + 1
          PROVE  texts[j] = p.texts[(k + j) - 1]
      <4>1. j \in 1 .. e - k + 1 /\ k + j - 1 = (k + j) - 1
        BY <3>3
      <4>2. texts[j] = p.texts[k + j - 1]
        BY <3>2, <4>1
      <4> QED
        BY <4>1, <4>2
    <3> QED
      BY <3>2, <3>4, <3>5
  <2>9. /\ Len(p.texts) \in Nat /\ p.first \in Nat
        /\ p.first + Len(p.texts) <= R + 1
        /\ Len(texts) = (e - k) + 1
        /\ k \in Nat /\ e \in Nat /\ k <= e /\ e <= Len(p.texts)
    BY <1>2, <2>2, <2>3, <2>6
  <2>10. /\ L \in Nat /\ R \in Nat /\ p.first \in Nat /\ k \in Nat /\ e \in Nat
         /\ k = (L + 2) - p.first
         /\ p.first + e <= R + 1
    <3>1. L \in Nat
      BY <1>1
    <3>2. R \in Nat
      BY <1>1
    <3>3. k = (L + 2) - p.first
      BY <1>4
    <3>4. p.first + e <= p.first + Len(p.texts)
      BY <2>9
    <3>5. p.first + e <= R + 1
      BY <2>9, <3>2, <3>4
    <3> QED
      BY <2>9, <3>1, <3>2, <3>3, <3>5
  <2>7. L + Len(texts) <= R
    <3>1. L + ((e - k) + 1) <= R
      BY <2>10
    <3> QED
      BY <2>9, <3>1
  <2>8. ASSUME NEW j \in 1 .. Len(texts)
        PROVE  \/ texts[j] = L + j /\ L + j <= a
               \/ texts[j] = Disconnect /\ j = Len(texts)
    <3>1. PICK i : i = (k + j) - 1
      OBVIOUS
    <3>2. /\ i \in 1 .. Len(p.texts) /\ i >= k /\ p.first + (i - 1) = L + j
          /\ i <= e /\ (i = e => j = Len(texts))
      <4>1. j \in 1 .. (e - k) + 1 /\ (j = (e - k) + 1 => j = Len(texts))
        BY <2>9
      <4>2. k \in Nat /\ k >= 1 /\ e <= Len(p.texts) /\ Len(p.texts) \in Nat
        BY <2>2, <2>9
      <4>3. /\ i \in Nat /\ i >= k /\ i <= e
            /\ p.first + (i - 1) = L + j /\ (i = e => j = (e - k) + 1)
        <5>1. j \in Nat /\ j >= 1 /\ j <= (e - k) + 1 /\ e \in Nat
          BY <4>1, <2>10
        <5>2. i \in Nat /\ i >= k /\ i <= e /\ (i = e => j = (e - k) + 1)
          BY <3>1, <4>2, <5>1
        <5>3. p.first + (i - 1) = L + j
          <6>1. i = ((L + 2) - p.first) + (j - 1)
            BY <2>10, <3>1, <5>1
          <6>2. p.first \in Nat /\ L \in Nat /\ j \in Nat
            BY <2>10, <5>1
          <6>3. \A f, l, x \in Nat : f + ((((l + 2) - f) + (x - 1)) - 1) = l + x
            OBVIOUS
          <6> QED
            BY <6>1, <6>2, <6>3
        <5> QED
          BY <5>2, <5>3
      <4>4. i \in 1 .. Len(p.texts)
        BY <4>2, <4>3, <2>10
      <4> QED
        BY <4>1, <4>3, <4>4
    <3>3. texts[j] = p.texts[i]
      BY <2>6, <3>1
    <3>4. CASE p.texts[i] = Disconnect
      <4>1. e <= i
        BY <2>3, <3>2, <3>4
      <4>2. i = e
        BY <2>2, <2>3, <3>2, <4>1
      <4> QED
        BY <3>2, <3>3, <3>4, <4>2
    <3>5. CASE p.texts[i] = p.first + (i - 1) /\ p.texts[i] <= a
      BY <3>2, <3>3, <3>5
    <3> QED
      BY <1>2, <3>2, <3>4, <3>5
  <2> QED
    BY <2>6, <2>7, <2>8 DEF a, L, R
<1> QED
  BY <1>6, <1>7

(* The messages of the server fit the lemmas about the send path.           *)
LEMMA AckingParts ==
    ASSUME NEW lo \in Nat, NEW hi \in Nat, hi <= MaxCommands + 1, NEW key \in 0 .. MaxCommands + 1
    PROVE  /\ Acking(lo, hi) \subseteq ServerMessage
           /\ IsEncodable(Acking(lo, hi), key)
           /\ IgnoresKey(Acking(lo, hi), AckOrder, key)
<1>1. ASSUME NEW m \in ServerMessage, NEW e, e = [m EXCEPT !.key = key]
      PROVE  /\ m.datagrams \in Nat \ {0}
             /\ e \in ServerMessage /\ e.ack = m.ack
  BY <1>1, ClientCommandsAssumption DEF ServerMessage
<1>2. Acking(lo, hi) \subseteq ServerMessage
  BY DEF Acking
<1>3. ASSUME NEW m \in Acking(lo, hi)
      PROVE  m.datagrams \in Nat \ {0} /\ [m EXCEPT !.key = key] \in Acking(lo, hi)
  <2>1. PICK e : e = [m EXCEPT !.key = key]
    OBVIOUS
  <2>2. /\ m.datagrams \in Nat \ {0} /\ e \in ServerMessage /\ e.ack = m.ack
    BY <1>1, <1>2, <2>1
  <2>3. e \in Acking(lo, hi)
    BY <2>2 DEF Acking
  <2> QED
    BY <2>1, <2>2, <2>3
<1>4. ASSUME NEW x \in Acking(lo, hi), NEW y \in Acking(lo, hi),
             <<x, y>> \in AckOrder
      PROVE  /\ <<[x EXCEPT !.key = key], y>> \in AckOrder
             /\ <<x, [y EXCEPT !.key = key]>> \in AckOrder
  <2>1. PICK d, e : d = [x EXCEPT !.key = key] /\ e = [y EXCEPT !.key = key]
    OBVIOUS
  <2>2. /\ d \in ServerMessage /\ d.ack = x.ack
        /\ e \in ServerMessage /\ e.ack = y.ack
    BY <1>1, <1>2, <2>1
  <2>3. x.ack <= y.ack /\ x \in ServerMessage /\ y \in ServerMessage
    BY <1>2, <1>4 DEF AckOrder
  <2>4. <<d, y>> \in AckOrder /\ <<x, e>> \in AckOrder
    BY <2>2, <2>3 DEF AckOrder
  <2> QED
    BY <2>1, <2>4
<1> QED
  BY <1>2, <1>3, <1>4 DEF IsEncodable, IgnoresKey

LEMMA InitIsSound == Init => IInv
<1> SUFFICES ASSUME Init PROVE IInv
  OBVIOUS
<1>1. /\ cl \in ClientHalf /\ sv \in ServerHalf
      /\ cl.connected /\ cl.reliableSequence = 0 /\ cl.reliableAcknowledge = 0
      /\ sv.lastClientCommand = 0
  BY ClientCommandsAssumption DEF Init, ClientHalf, ServerHalf, Text
<1>2. ClientIsSound(cl)
  BY <1>1, ClientCommandsAssumption
     DEF ClientIsSound, WindowIsBounded, Unacknowledged, RingIsHeld
<1>3. /\ toServer = <<>> /\ toServer \in Seq(Packets)
      /\ executed = <<>> /\ executed \in Seq(Text) /\ Len(executed) = 0
  BY DEF Init
<1>4. ASSUME NEW M
      PROVE  path \in PathOf(M)
  <2>1. /\ path = [left |-> 0, current |-> <<>>, queue |-> <<>>, flight |-> <<>>]
        /\ <<>> \in Seq(M) /\ Len(<<>>) = 0
    BY DEF Init, IdlePath
  <2> QED
    BY <2>1 DEF PathOf
<1>5. InOrder(path, AckOrder) /\ ~Strands(path)
  <2>1. path.flight = <<>> /\ path.current = <<>> /\ path.queue = <<>>
    BY DEF Init, IdlePath
  <2> QED
    BY <2>1, EmptySeq DEF InOrder, Sorted, Elements, Before, Strands
<1>6. ExecutedIsAdded /\ AcknowledgedInOrder /\ LostOnlyIfStranded
  BY <1>1, <1>3, <1>4, <1>5
     DEF ExecutedIsAdded, AcknowledgedInOrder, LostOnlyIfStranded, Init
<1>7. path \in PathOf(Acking(0, sv.lastClientCommand))
  BY <1>4
<1>8. gameStates \in 0 .. MaxGameStates /\ stranded \in BOOLEAN /\ lost \in BOOLEAN
  <2>1. gameStates = 0 /\ stranded = FALSE /\ lost = FALSE
    BY DEF Init
  <2>2. 0 \in 0 .. MaxGameStates
    BY ClientCommandsAssumption
  <2> QED
    BY <2>1, <2>2, Zenon
<1> QED
  BY <1>1, <1>2, <1>3, <1>6, <1>7, <1>8 DEF IInv

LEMMA InvariantParts ==
    ASSUME IInv
    PROVE  /\ sv.lastClientCommand \in Nat
           /\ sv.lastClientCommand <= cl.reliableSequence
           /\ cl.reliableSequence \in Nat
           /\ cl.reliableSequence <= MaxCommands + 1
           /\ sv.lastClientCommand \in 0 .. MaxCommands + 1
           /\ MaxCommands \in Nat
           /\ Acking(0, sv.lastClientCommand) \subseteq ServerMessage
           /\ OnPath(path) \subseteq Acking(0, sv.lastClientCommand)
<1>1. /\ sv.lastClientCommand \in Nat
      /\ sv.lastClientCommand <= cl.reliableSequence
      /\ MaxCommands \in Nat
  BY ClientCommandsAssumption DEF IInv, ServerHalf, ExecutedIsAdded
<1>2. cl.reliableSequence \in Nat /\ cl.reliableSequence <= MaxCommands + 1
  BY ClientParts DEF IInv
<1>3. Acking(0, sv.lastClientCommand) \subseteq ServerMessage
  BY DEF Acking
<1>4. OnPath(path) \subseteq Acking(0, sv.lastClientCommand)
  BY OnPathType DEF IInv
<1> QED
  BY <1>1, <1>2, <1>3, <1>4

(* A step of the client, which may send a packet.                           *)
LEMMA ClientStep ==
    ASSUME IInv, ClientIsSound(cl'),
           cl.reliableSequence <= cl'.reliableSequence,
           AddedBy(cl) <= AddedBy(cl'),
           cl'.connected => cl.connected,
           \/ toServer' = toServer
           \/ \E p \in PacketsOf(cl') :
                 /\ toServer' = Flying(toServer, p)
                 /\ ~stranded => p.first <= sv.lastClientCommand + 1,
           path' \in PathOf(Acking(0, sv.lastClientCommand)),
           AcknowledgedInOrder',
           UNCHANGED <<sv, gameStates, executed, stranded, lost>>
    PROVE  IInv'
<1>1. /\ sv' = sv /\ gameStates' = gameStates /\ executed' = executed
      /\ stranded' = stranded /\ lost' = lost
  OBVIOUS
<1>2. PacketsOf(cl) \subseteq PacketsOf(cl')
  BY PacketsStaySound DEF IInv
<1>3. Packets \subseteq Packets'
  BY <1>1, <1>2 DEF Packets
<1>4. toServer \in Seq(Packets')
  BY <1>3, SequenceOfMore DEF IInv
<1>5. toServer' \in Seq(Packets')
  <2>1. CASE toServer' = toServer
    BY <1>4, <2>1
  <2>2. CASE toServer' # toServer
    <3>1. PICK p \in PacketsOf(cl') :
             /\ toServer' = Flying(toServer, p)
             /\ ~stranded => p.first <= sv.lastClientCommand + 1
      BY <2>2
    <3>2. p \in Packets'
      BY <1>1, <3>1 DEF Packets
    <3> QED
      BY <1>4, <3>1, <3>2, FlyingKeepsOrder
  <2> QED
    BY <2>1, <2>2
<1>6. /\ sv.lastClientCommand \in Nat /\ cl.reliableSequence \in Nat
      /\ sv.lastClientCommand <= cl.reliableSequence
      /\ cl'.reliableSequence \in Nat
      /\ AddedBy(cl) \in Nat /\ AddedBy(cl') \in Nat
  BY InvariantParts, ClientParts DEF IInv
<1>7. ExecutedIsAdded'
  <2>1. ExecutedIsAdded
    BY DEF IInv
  <2>2. sv.lastClientCommand <= cl'.reliableSequence
    BY <1>6
  <2>3. \A n \in 1 .. sv.lastClientCommand : n <= AddedBy(cl) => n <= AddedBy(cl')
    BY <1>6
  <2> QED
    BY <1>1, <2>1, <2>2, <2>3 DEF ExecutedIsAdded
<1> QED
  BY <1>1, <1>5, <1>7 DEF IInv, LostOnlyIfStranded

(* A call of the server's send path, with a message of the state it is in.  *)
LEMMA SendStep ==
    ASSUME IInv, NEW next, Sends(next), gameStates' \in 0 .. MaxGameStates,
           \/ /\ path.left > 0
              /\ next = SvTransmitNextFragment(path, sv.lastClientCommand)
           \/ \E n \in SnapshotSizes \cup GameStateSizes :
                 next = SvTransmit(path, Message(n), sv.lastClientCommand)
    PROVE  IInv'
<1> DEFINE L == sv.lastClientCommand
           A == cl.reliableAcknowledge
<1>1. /\ path' = next /\ cl' = cl /\ sv' = sv /\ toServer' = toServer
      /\ executed' = executed /\ lost' = lost
      /\ stranded' = (stranded \/ Strands(next))
  BY DEF Sends
<1>2. /\ L \in Nat /\ L <= MaxCommands + 1 /\ L \in 0 .. MaxCommands + 1
      /\ A \in Nat
  BY InvariantParts, ClientParts, ClientCommandsAssumption DEF IInv
<1>3. ASSUME NEW n \in SnapshotSizes \cup GameStateSizes
      PROVE  Message(n) \in ServerMessage /\ Message(n).ack = L
  BY <1>2 DEF Message, ServerMessage
<1>4. ASSUME NEW lo \in Nat, lo <= L, path \in PathOf(Acking(lo, L))
      PROVE  next \in PathOf(Acking(lo, L))
  <2>1. IsEncodable(Acking(lo, L), L)
    BY <1>2, <1>4, AckingParts
  <2>2. CASE path.left > 0 /\ next = SvTransmitNextFragment(path, L)
    <3>1. PICK f, u : /\ f = FragmentSent(path)
                      /\ u = Transmitted(f, Head(f.queue), L)
      OBVIOUS
    <3> QED
      BY <1>4, <2>1, <2>2, <3>1, NextFragmentPath
  <2>3. ASSUME NEW n \in SnapshotSizes \cup GameStateSizes,
               next = SvTransmit(path, Message(n), L)
        PROVE  next \in PathOf(Acking(lo, L))
    <3>1. PICK f : f = FragmentSent(path)
      OBVIOUS
    <3>2. PICK m : m = Message(n)
      OBVIOUS
    <3>3. m \in Acking(lo, L)
      BY <1>2, <1>3, <1>4, <3>2 DEF Acking
    <3> QED
      BY <1>4, <2>1, <2>3, <3>1, <3>2, <3>3, TransmitPath
  <2> QED
    BY <2>2, <2>3
<1>5. next \in PathOf(Acking(0, L))
  BY <1>2, <1>4 DEF IInv
<1>6. ASSUME ~Strands(path), InOrder(path, AckOrder)
      PROVE  InOrder(next, AckOrder)
  <2>1. /\ IsEncodable(Acking(0, L), L)
        /\ IgnoresKey(Acking(0, L), AckOrder, L)
        /\ path \in PathOf(Acking(0, L))
    BY <1>2, AckingParts DEF IInv
  <2>2. CASE path.left > 0 /\ next = SvTransmitNextFragment(path, L)
    BY <1>6, <2>1, <2>2, NextFragmentInOrder
  <2>3. ASSUME NEW n \in SnapshotSizes \cup GameStateSizes,
               next = SvTransmit(path, Message(n), L)
        PROVE  InOrder(next, AckOrder)
    <3>1. PICK m : m = Message(n)
      OBVIOUS
    <3>2. m \in ServerMessage /\ m.ack = L /\ m \in Acking(0, L)
      BY <1>2, <1>3, <3>1 DEF Acking
    <3>3. \A x \in OnPath(path) : x \in ServerMessage /\ x.ack <= L
      BY InvariantParts DEF Acking
    <3>4. Before(OnPath(path), {m}, AckOrder)
      BY <3>2, <3>3 DEF Before, AckOrder
    <3> QED
      BY <1>6, <2>1, <2>3, <3>1, <3>2, <3>4, TransmitInOrder
  <2> QED
    BY <2>2, <2>3
<1>7. AcknowledgedInOrder'
  <2> SUFFICES ASSUME ~stranded'
               PROVE  /\ ~Strands(next)
                      /\ InOrder(next, AckOrder)
                      /\ cl.connected => A <= L /\ next \in PathOf(Acking(A, L))
    BY <1>1 DEF AcknowledgedInOrder
  <2>1. ~stranded /\ ~Strands(next)
    BY <1>1
  <2>2. /\ ~Strands(path) /\ InOrder(path, AckOrder)
        /\ cl.connected => A <= L /\ path \in PathOf(Acking(A, L))
    BY <2>1 DEF IInv, AcknowledgedInOrder
  <2> QED
    BY <1>2, <1>4, <1>6, <2>1, <2>2
<1>8. Packets \subseteq Packets'
  BY <1>1 DEF Packets
<1>9. toServer' \in Seq(Packets')
  BY <1>1, <1>8, SequenceOfMore DEF IInv
<1>10. ExecutedIsAdded' /\ ClientIsSound(cl') /\ LostOnlyIfStranded'
  BY <1>1 DEF IInv, ExecutedIsAdded, LostOnlyIfStranded
<1>11. stranded' \in BOOLEAN
  BY <1>1
<1> QED
  BY <1>1, <1>5, <1>7, <1>9, <1>10, <1>11 DEF IInv

(* A message arrives or is lost on its way to the client.                   *)
LEMMA FlightStep ==
    ASSUME IInv, NEW i \in 1 .. Len(path.flight),
           NEW g, \/ g = AfterArrival(path.flight, i)
                  \/ g = AfterLoss(path.flight, i),
           NEW t, t = [path EXCEPT !.flight = g]
    PROVE  /\ t \in PathOf(Acking(0, sv.lastClientCommand))
           /\ OnPath(t) \subseteq OnPath(path)
           /\ ~stranded => /\ ~Strands(t) /\ InOrder(t, AckOrder)
                           /\ cl.connected =>
                                  t \in PathOf(Acking(cl.reliableAcknowledge,
                                                      sv.lastClientCommand))
<1> DEFINE M == Acking(0, sv.lastClientCommand)
<1>1. path \in PathOf(M) /\ path.flight \in Seq(M)
  BY PathParts DEF IInv
<1> HIDE DEF M
<1>2. PICK f : f = path.flight
  OBVIOUS
<1>3. /\ g \in Seq(M) /\ Elements(g) \subseteq Elements(f)
      /\ Sorted(f, AckOrder) => Sorted(g, AckOrder)
  <2>1. f \in Seq(M) /\ i \in 1 .. Len(f)
    BY <1>1, <1>2
  <2>2. CASE g = AfterArrival(f, i)
    BY <2>1, <2>2, ArrivalKeepsOrder
  <2>3. CASE g = AfterLoss(f, i)
    BY <2>1, <2>3, LossKeepsOrder
  <2> QED
    BY <1>2, <2>2, <2>3
<1>4. /\ t \in PathOf(M) /\ t.left = path.left /\ t.queue = path.queue
      /\ OnPath(t) \subseteq OnPath(path)
      /\ InOrder(path, AckOrder) /\ Sorted(g, AckOrder) => InOrder(t, AckOrder)
  <2>1. g \in Seq(M) /\ Elements(g) \subseteq Elements(path.flight)
    BY <1>2, <1>3
  <2>2. path \in [left : Nat, current : Seq(M), queue : Seq(M), flight : Seq(M)]
    BY <1>1 DEF PathOf
  <2>3. /\ t \in [left : Nat, current : Seq(M), queue : Seq(M), flight : Seq(M)]
        /\ t.left = path.left /\ t.current = path.current
        /\ t.queue = path.queue /\ t.flight = g
    BY <2>1, <2>2
  <2> QED
    BY <1>1, <2>1, <2>3, FlightChanges
<1>5. ASSUME ~stranded
      PROVE  ~Strands(t) /\ InOrder(t, AckOrder)
  <2>1. ~Strands(path) /\ InOrder(path, AckOrder)
    BY <1>5 DEF IInv, AcknowledgedInOrder
  <2>2. Sorted(g, AckOrder)
    BY <1>2, <1>3, <2>1 DEF InOrder
  <2> QED
    BY <1>4, <2>1, <2>2 DEF Strands
<1>6. ASSUME ~stranded, cl.connected
      PROVE  t \in PathOf(Acking(cl.reliableAcknowledge, sv.lastClientCommand))
  <2>1. path \in PathOf(Acking(cl.reliableAcknowledge, sv.lastClientCommand))
    BY <1>6 DEF IInv, AcknowledgedInOrder
  <2>2. OnPath(t) \subseteq Acking(cl.reliableAcknowledge, sv.lastClientCommand)
    BY <1>4, <2>1, OnPathType
  <2> QED
    BY <1>4, <2>2, PathWithin
<1> QED
  BY <1>4, <1>5, <1>6 DEF M

(* As long as nothing was stranded, what is on its way behind a message     *)
(* that arrives acknowledges as much.                                       *)
LEMMA BehindArrival ==
    ASSUME IInv, ~stranded, NEW i \in 1 .. Len(path.flight),
           NEW m, m = path.flight[i],
           NEW t \in PathOf(Acking(0, sv.lastClientCommand)),
           t.flight = AfterArrival(path.flight, i),
           t.current = path.current, t.queue = path.queue
    PROVE  t \in PathOf(Acking(m.ack, sv.lastClientCommand))
<1> DEFINE L == sv.lastClientCommand
           M == Acking(0, L)
<1>1. path \in PathOf(M) /\ InOrder(path, AckOrder)
  BY DEF IInv, AcknowledgedInOrder
<1>2. path.flight \in Seq(M)
  BY <1>1, PathParts
<1>3. /\ m \in Elements(path.flight)
      /\ Before({m}, Elements(t.flight), AckOrder)
  <2>1. PICK f : f = path.flight
    OBVIOUS
  <2> HIDE DEF M
  <2>2. f \in Seq(M) /\ i \in 1 .. Len(f) /\ Sorted(f, AckOrder)
    BY <1>1, <1>2, <2>1 DEF InOrder
  <2>3. /\ f[i] \in Elements(f)
        /\ Before({f[i]}, Elements(AfterArrival(f, i)), AckOrder)
    BY <2>2, ArrivalKeepsOrder
  <2> QED
    BY <2>1, <2>3
<1>4. ASSUME NEW x \in OnPath(t)
      PROVE  <<m, x>> \in AckOrder
  BY <1>1, <1>3, <1>4 DEF OnPath, InOrder, Before
<1>5. OnPath(t) \subseteq M
  BY OnPathType
<1>6. OnPath(t) \subseteq Acking(m.ack, L)
  BY <1>4, <1>5 DEF AckOrder, Acking
<1> QED
  BY <1>6, PathWithin

-----------------------------------------------------------------------------
(* The steps. *)

(* CL_Disconnect from the state c of the client, which is cl with another   *)
(* acknowledgement at most.                                                 *)
LEMMA DisconnectStep ==
    ASSUME IInv, cl.connected, NEW c, ClientIsSound(c), c.connected,
           c.reliableSequence = cl.reliableSequence,
           ~stranded => c.reliableAcknowledge <= sv.lastClientCommand,
           DisconnectFrom(c),
           path' \in PathOf(Acking(0, sv.lastClientCommand)),
           ~stranded => ~Strands(path') /\ InOrder(path', AckOrder),
           UNCHANGED <<sv, gameStates, executed, stranded, lost>>
    PROVE  IInv'
<1>1. PICK last : last = Stored(c, Disconnect)
  OBVIOUS
<1>2. PICK p : p = Packet(last)
  OBVIOUS
<1>3. /\ cl' = Left(last)
      /\ toServer' = Flying(toServer, p)
  BY <1>1, <1>2 DEF DisconnectFrom, Left
<1>4. /\ ClientIsSound(cl') /\ ~cl'.connected
      /\ cl'.reliableSequence = c.reliableSequence + 1
      /\ p \in PacketsOf(cl') /\ p.first = c.reliableAcknowledge + 1
  <2>1. ClientIsSound(c) /\ c.connected
    OBVIOUS
  <2> QED
    BY <1>1, <1>2, <1>3, <2>1, DisconnectLeaves
<1>5. /\ cl.reliableSequence \in Nat /\ AddedBy(cl) = cl.reliableSequence
      /\ AddedBy(cl') = cl'.reliableSequence - 1
      /\ c.reliableAcknowledge \in Nat /\ sv.lastClientCommand \in Nat
  BY <1>4, ClientParts, InvariantParts DEF IInv
<1>6. /\ cl.reliableSequence <= cl'.reliableSequence
      /\ AddedBy(cl) <= AddedBy(cl')
      /\ ~stranded => p.first <= sv.lastClientCommand + 1
  BY <1>4, <1>5
<1>7. AcknowledgedInOrder'
  BY <1>4 DEF AcknowledgedInOrder
<1> QED
  BY <1>3, <1>4, <1>6, <1>7, ClientStep

LEMMA ReceiveStep ==
    ASSUME IInv, NEW i \in 1 .. Len(path.flight), ClReceive(i)
    PROVE  IInv'
<1>1. PICK m : m = path.flight[i]
  OBVIOUS
<1>2. PICK next : next = Acknowledged(cl, m)
  OBVIOUS
<1>3. PICK g : g = AfterArrival(path.flight, i)
  OBVIOUS
<1>4. /\ cl.connected
      /\ path' = [path EXCEPT !.flight = g]
      /\ \/ cl' = next /\ toServer' = toServer
         \/ DisconnectFrom(next)
      /\ UNCHANGED <<sv, gameStates, executed, stranded, lost>>
  BY <1>1, <1>2, <1>3 DEF ClReceive
<1> DEFINE L == sv.lastClientCommand
<1>5. /\ path' \in PathOf(Acking(0, L))
      /\ ~stranded => ~Strands(path') /\ InOrder(path', AckOrder)
  BY <1>3, <1>4, FlightStep
<1>6. m \in Acking(0, L)
  <2>1. path.flight \in Seq(Acking(0, L))
    BY PathParts DEF IInv
  <2> QED
    BY <1>1, <2>1, ElementOfSeq
<1>7. m \in ServerMessage /\ m.ack \in Nat /\ m.ack <= L
  BY <1>6 DEF Acking, ServerMessage
<1>8. /\ ClientIsSound(next) /\ next.connected
      /\ next.reliableSequence = cl.reliableSequence
      /\ cl.reliableAcknowledge <= m.ack => next.reliableAcknowledge = m.ack
  <2>1. m.ack <= cl.reliableSequence
    BY <1>7, InvariantParts
  <2> QED
    BY <1>2, <1>4, <1>7, <2>1, AcknowledgedIsSound DEF IInv
<1>9. ASSUME ~stranded
      PROVE  /\ next.reliableAcknowledge = m.ack
             /\ path' \in PathOf(Acking(m.ack, L))
  <2>1. cl.reliableAcknowledge <= m.ack
    <3>1. path \in PathOf(Acking(cl.reliableAcknowledge, L))
      BY <1>4, <1>9 DEF IInv, AcknowledgedInOrder
    <3>2. path.flight \in Seq(Acking(cl.reliableAcknowledge, L))
      BY <3>1, PathParts
    <3>3. m \in Acking(cl.reliableAcknowledge, L)
      BY <1>1, <3>2, ElementOfSeq
    <3> QED
      BY <3>3 DEF Acking
  <2>2. path \in [left : Nat, current : Seq(Acking(0, L)),
                  queue : Seq(Acking(0, L)), flight : Seq(Acking(0, L))]
    BY DEF IInv, PathOf
  <2>3. /\ path'.flight = g /\ path'.current = path.current
        /\ path'.queue = path.queue
    BY <1>4, <2>2
  <2>4. PICK t : t = path'
    OBVIOUS
  <2>5. /\ t \in PathOf(Acking(0, sv.lastClientCommand))
        /\ t.flight = AfterArrival(path.flight, i)
        /\ t.current = path.current /\ t.queue = path.queue
    BY <1>3, <1>5, <2>3, <2>4
  <2>6. t \in PathOf(Acking(m.ack, sv.lastClientCommand))
    BY <1>1, <1>9, <2>5, BehindArrival
  <2> QED
    BY <1>8, <2>1, <2>4, <2>6
<1>10. CASE cl' = next /\ toServer' = toServer
  <2>1. AcknowledgedInOrder'
    BY <1>4, <1>5, <1>7, <1>9, <1>10 DEF AcknowledgedInOrder
  <2>2. /\ AddedBy(cl) = cl.reliableSequence /\ AddedBy(next) = cl.reliableSequence
        /\ cl.reliableSequence \in Nat
    BY <1>4, <1>8, ClientParts DEF IInv
  <2>3. /\ ClientIsSound(cl') /\ cl.reliableSequence <= cl'.reliableSequence
        /\ AddedBy(cl) <= AddedBy(cl')
    BY <1>8, <1>10, <2>2
  <2> QED
    BY <1>4, <1>5, <1>10, <2>1, <2>3, ClientStep
<1>11. CASE DisconnectFrom(next)
  <2>1. ~stranded => next.reliableAcknowledge <= L
    BY <1>7, <1>9
  <2> QED
    BY <1>4, <1>5, <1>8, <1>11, <2>1, DisconnectStep
<1> QED
  BY <1>4, <1>10, <1>11

LEMMA ExecuteStep ==
    ASSUME IInv, NEW i \in 1 .. Len(toServer), SvExecute(i)
    PROVE  IInv'
<1>1. PICK p : p = toServer[i]
  OBVIOUS
<1>2. PICK texts : texts = NewTexts(p)
  OBVIOUS
<1>3. /\ ~sv.zombie /\ ~LosesCommands(p)
      /\ toServer' = AfterArrival(toServer, i)
      /\ executed' = executed \o texts
      /\ sv' = [lastClientCommand |-> sv.lastClientCommand + Len(texts),
                zombie |-> \E j \in DOMAIN texts : texts[j] = Disconnect]
      /\ cl' = cl /\ path' = path /\ gameStates' = gameStates
      /\ stranded' = stranded /\ lost' = lost
  BY <1>1, <1>2 DEF SvExecute
<1> DEFINE L == sv.lastClientCommand
           n == Len(texts)
<1>4. toServer \in Seq(Packets) /\ p \in Packets
  BY <1>1, ElementOfSeq DEF IInv
<1>5. /\ texts \in Seq(Text) /\ n \in Nat
      /\ L + n <= cl.reliableSequence
      /\ \A j \in 1 .. n : \/ texts[j] = L + j /\ L + j <= AddedBy(cl)
                           \/ texts[j] = Disconnect /\ j = n
  BY <1>2, <1>3, <1>4, NewTextsInTurn, LenProperties
<1>6. /\ L \in Nat /\ cl.reliableSequence \in Nat
      /\ cl.reliableSequence <= MaxCommands + 1 /\ MaxCommands \in Nat
  BY InvariantParts
<1>7. /\ sv'.lastClientCommand = L + n
      /\ sv'.zombie = (\E j \in 1 .. n : texts[j] = Disconnect)
      /\ sv' \in ServerHalf
  <2>1. DOMAIN texts = 1 .. n
    BY <1>5, LenProperties
  <2>2. sv'.lastClientCommand = L + n
    BY <1>3
  <2>3. sv'.zombie = (\E j \in 1 .. n : texts[j] = Disconnect)
    BY <1>3, <2>1
  <2>4. L + n \in 0 .. MaxCommands + 1
    BY <1>5, <1>6
  <2>5. sv' \in ServerHalf
    BY <1>3, <2>4 DEF ServerHalf
  <2> QED
    BY <2>2, <2>3, <2>5
<1>8. ClientIsSound(cl')
  BY <1>3 DEF IInv
<1>9. toServer' \in Seq(Packets')
  <2>1. Packets \subseteq Packets'
    <3> SUFFICES ASSUME NEW x \in Packets
                 PROVE  x \in Packets'
      OBVIOUS
    <3>1. x.first \in Nat
      BY ClientCommandsAssumption DEF Packets, PacketsOf, ClientMessage
    <3>2. ~stranded => x.first <= L + 1
      BY DEF Packets
    <3>3. L + 1 <= (L + n) + 1 /\ L + n \in Nat /\ L \in Nat
      BY <1>5, <1>6
    <3>4. ~stranded' => x.first <= sv'.lastClientCommand + 1
      BY <1>3, <1>7, <3>1, <3>2, <3>3
    <3> QED
      BY <1>3, <3>4 DEF Packets
  <2>2. toServer' \in Seq(Packets)
    BY <1>3, <1>4, ArrivalKeepsOrder
  <2> QED
    BY <2>1, <2>2, SequenceOfMore
<1>10. ASSUME NEW lo \in Nat, NEW x, x \in PathOf(Acking(lo, L))
       PROVE  x \in PathOf(Acking(lo, sv'.lastClientCommand))
  <2>1. Acking(lo, L) \subseteq Acking(lo, sv'.lastClientCommand)
    BY <1>5, <1>6, <1>7 DEF Acking, ServerMessage
  <2> QED
    BY <1>10, <2>1, PathOfMore
<1>11. path' \in PathOf(Acking(0, sv'.lastClientCommand))
  BY <1>3, <1>10 DEF IInv
<1>12. AcknowledgedInOrder'
  <2>1. cl.reliableAcknowledge \in Nat
    BY ClientParts DEF IInv
  <2>2. /\ ~stranded => ~Strands(path) /\ InOrder(path, AckOrder)
        /\ ~stranded /\ cl.connected =>
              /\ cl.reliableAcknowledge <= L
              /\ path \in PathOf(Acking(cl.reliableAcknowledge, L))
    BY DEF IInv, AcknowledgedInOrder
  <2>3. ASSUME ~stranded, cl.connected
        PROVE  /\ cl.reliableAcknowledge <= sv'.lastClientCommand
               /\ path \in PathOf(Acking(cl.reliableAcknowledge, sv'.lastClientCommand))
    BY <1>5, <1>6, <1>7, <1>10, <2>1, <2>2, <2>3
  <2> QED
    BY <1>3, <2>2, <2>3 DEF AcknowledgedInOrder
<1>13. /\ executed' \in Seq(Text) /\ Len(executed') = L + n
       /\ \A j \in 1 .. L : executed'[j] = executed[j]
       /\ \A j \in L + 1 .. L + n : executed'[j] = texts[j - L]
  <2>1. executed \in Seq(Text) /\ Len(executed) = L
    BY DEF IInv, ExecutedIsAdded
  <2>2. /\ executed \o texts \in Seq(Text)
        /\ Len(executed \o texts) = Len(executed) + Len(texts)
        /\ \A j \in 1 .. Len(executed) + Len(texts) :
              (executed \o texts)[j] = IF j <= Len(executed) THEN executed[j]
                                       ELSE texts[j - Len(executed)]
    BY <1>5, <2>1, ConcatProperties
  <2>3. \A j \in 1 .. L + n :
           executed'[j] = IF j <= L THEN executed[j] ELSE texts[j - L]
    BY <1>3, <2>1, <2>2
  <2>4. \A j \in 1 .. L : j \in 1 .. L + n /\ j <= L
    BY <1>5, <1>6
  <2>5. \A j \in L + 1 .. L + n : j \in 1 .. L + n /\ ~(j <= L)
    BY <1>5, <1>6
  <2> QED
    BY <1>3, <2>1, <2>2, <2>3, <2>4, <2>5
<1>14. ExecutedIsAdded'
  <2> SUFFICES ASSUME NEW k \in 1 .. L + n
               PROVE  \/ executed'[k] = k /\ k <= AddedBy(cl)
                      \/ executed'[k] = Disconnect /\ k = L + n /\ sv'.zombie
    BY <1>3, <1>5, <1>7, <1>13 DEF ExecutedIsAdded
  <2>1. CASE k \in 1 .. L
    <3>1. executed[k] = k /\ k <= AddedBy(cl)
      BY <1>3, <2>1 DEF IInv, ExecutedIsAdded
    <3> QED
      BY <1>13, <2>1, <3>1
  <2>2. CASE k \in L + 1 .. L + n
    <3>1. PICK j : j = k - L
      OBVIOUS
    <3>2. j \in 1 .. n /\ k = L + j
      <4>1. L \in Nat /\ n \in Nat
        BY <1>5, <1>6
      <4> QED
        BY <2>2, <3>1, <4>1
    <3>3. executed'[k] = texts[j]
      BY <1>13, <2>2, <3>1
    <3> QED
      BY <1>5, <1>7, <3>2, <3>3
  <2> QED
    BY <1>5, <1>6, <2>1, <2>2
<1>15. /\ LostOnlyIfStranded' /\ gameStates' \in 0 .. MaxGameStates
       /\ stranded' \in BOOLEAN /\ lost' \in BOOLEAN
  BY <1>3 DEF IInv, LostOnlyIfStranded
<1> QED
  BY <1>7, <1>8, <1>9, <1>11, <1>12, <1>13, <1>14, <1>15 DEF IInv

(* A step that only takes packets off the network or ends the connection    *)
(* for the server.                                                          *)
LEMMA QuietStep ==
    ASSUME IInv, toServer' \in Seq(Packets),
           sv' = sv \/ sv' = [sv EXCEPT !.zombie = TRUE],
           lost' \in BOOLEAN, LostOnlyIfStranded',
           UNCHANGED <<cl, path, gameStates, executed, stranded>>
    PROVE  IInv'
<1>1. /\ cl' = cl /\ path' = path /\ gameStates' = gameStates
      /\ executed' = executed /\ stranded' = stranded
  OBVIOUS
<1>2. /\ sv' \in ServerHalf /\ sv'.lastClientCommand = sv.lastClientCommand
      /\ sv.zombie => sv'.zombie
  BY DEF IInv, ServerHalf
<1>3. toServer' \in Seq(Packets')
  <2>1. Packets' = Packets
    BY <1>1, <1>2 DEF Packets
  <2> QED
    BY <2>1
<1>4. ExecutedIsAdded'
  BY <1>1, <1>2 DEF IInv, ExecutedIsAdded
<1>5. AcknowledgedInOrder'
  BY <1>1, <1>2 DEF IInv, AcknowledgedInOrder
<1> QED
  BY <1>1, <1>2, <1>3, <1>4, <1>5 DEF IInv

LEMMA NextIsSound == ASSUME IInv, Next PROVE IInv'
<1>1. toServer \in Seq(Packets) /\ path.flight \in Seq(Acking(0, sv.lastClientCommand))
  BY PathParts DEF IInv
<1>2. /\ DOMAIN toServer = 1 .. Len(toServer)
      /\ DOMAIN path.flight = 1 .. Len(path.flight)
  BY <1>1, LenProperties
<1>3. \A i \in 1 .. Len(toServer) : /\ toServer[i] \in Packets
                                    /\ AfterArrival(toServer, i) \in Seq(Packets)
                                    /\ AfterLoss(toServer, i) \in Seq(Packets)
  BY <1>1, ElementOfSeq, ArrivalKeepsOrder, LossKeepsOrder
<1>4. /\ path \in PathOf(Acking(0, sv.lastClientCommand))
      /\ AcknowledgedInOrder /\ LostOnlyIfStranded
      /\ gameStates \in 0 .. MaxGameStates /\ ClientIsSound(cl)
  BY DEF IInv
<1>5. ASSUME UNCHANGED <<sv, path, stranded>>,
             cl'.connected => /\ cl.connected
                              /\ cl'.reliableAcknowledge = cl.reliableAcknowledge
      PROVE  AcknowledgedInOrder' /\ path' \in PathOf(Acking(0, sv.lastClientCommand))
  BY <1>4, <1>5 DEF AcknowledgedInOrder
<1>6. ASSUME ClAddCommand
      PROVE  IInv'
  <2>1. /\ cl.connected /\ ~WindowFull(cl)
        /\ cl.reliableSequence < MaxCommands
        /\ cl' = Stored(cl, cl.reliableSequence + 1)
        /\ UNCHANGED <<sv, toServer, path, gameStates, executed, stranded, lost>>
    BY <1>6 DEF ClAddCommand
  <2>2. /\ ClientIsSound(cl') /\ cl'.connected
        /\ cl'.reliableSequence = cl.reliableSequence + 1
        /\ cl'.reliableAcknowledge = cl.reliableAcknowledge
    BY <1>4, <2>1, AddedIsSound
  <2>3. /\ AddedBy(cl) = cl.reliableSequence /\ AddedBy(cl') = cl'.reliableSequence
        /\ cl.reliableSequence \in Nat
    BY <1>4, <2>1, <2>2, ClientParts
  <2>4. cl.reliableSequence <= cl'.reliableSequence /\ AddedBy(cl) <= AddedBy(cl')
    BY <2>2, <2>3
  <2>5. AcknowledgedInOrder' /\ path' \in PathOf(Acking(0, sv.lastClientCommand))
    BY <1>5, <2>1, <2>2
  <2> QED
    BY <2>1, <2>2, <2>4, <2>5, ClientStep
<1>7. ASSUME ClOverflow \/ ClDisconnect
      PROVE  IInv'
  <2>1. /\ cl.connected /\ DisconnectFrom(cl)
        /\ UNCHANGED <<sv, path, gameStates, executed, stranded, lost>>
    BY <1>7 DEF ClOverflow, ClDisconnect
  <2>2. ~stranded => /\ cl.reliableAcknowledge <= sv.lastClientCommand
                     /\ ~Strands(path') /\ InOrder(path', AckOrder)
    BY <1>4, <2>1 DEF AcknowledgedInOrder
  <2>3. path' \in PathOf(Acking(0, sv.lastClientCommand))
    BY <1>4, <2>1
  <2>4. ClientIsSound(cl)
    BY <1>4
  <2> QED
    BY <2>1, <2>2, <2>3, <2>4, DisconnectStep
<1>8. ASSUME ClWritePacket
      PROVE  IInv'
  <2>1. /\ cl.connected /\ toServer' = Flying(toServer, Packet(cl)) /\ cl' = cl
        /\ UNCHANGED <<sv, path, gameStates, executed, stranded, lost>>
    BY <1>8 DEF ClWritePacket
  <2>2. PICK p : p = Packet(cl)
    OBVIOUS
  <2>3. p \in PacketsOf(cl) /\ p.first = cl.reliableAcknowledge + 1
    BY <1>4, <2>1, <2>2, PacketIsSound
  <2>4. ~stranded => p.first <= sv.lastClientCommand + 1
    <3>1. cl.reliableAcknowledge \in Nat /\ sv.lastClientCommand \in Nat
      BY <1>4, ClientParts, InvariantParts
    <3> QED
      BY <1>4, <2>1, <2>3, <3>1 DEF AcknowledgedInOrder
  <2>5. AcknowledgedInOrder' /\ path' \in PathOf(Acking(0, sv.lastClientCommand))
    BY <1>5, <2>1
  <2>6. cl.reliableSequence \in Nat /\ AddedBy(cl) \in Nat
    BY <1>4, ClientParts
  <2>7. /\ ClientIsSound(cl') /\ cl.reliableSequence <= cl'.reliableSequence
        /\ AddedBy(cl) <= AddedBy(cl')
    BY <1>4, <2>1, <2>6
  <2>8. \E q \in PacketsOf(cl') : /\ toServer' = Flying(toServer, q)
                                  /\ ~stranded => q.first <= sv.lastClientCommand + 1
    BY <2>1, <2>2, <2>3, <2>4
  <2> QED
    BY <2>1, <2>5, <2>7, <2>8, ClientStep
<1>9. ASSUME NEW i \in DOMAIN path.flight, ClReceive(i)
      PROVE  IInv'
  BY <1>2, <1>9, ReceiveStep
<1>10. ASSUME NEW i \in DOMAIN toServer, SvIgnore(i)
       PROVE  IInv'
  <2>1. /\ toServer' = AfterArrival(toServer, i) /\ sv' = sv /\ lost' = lost
        /\ UNCHANGED <<cl, path, gameStates, executed, stranded>>
    BY <1>10 DEF SvIgnore
  <2>2. lost' \in BOOLEAN /\ LostOnlyIfStranded'
    BY <2>1 DEF IInv, LostOnlyIfStranded
  <2> QED
    BY <1>2, <1>3, <1>10, <2>1, <2>2, QuietStep
<1>11. ASSUME NEW i \in DOMAIN toServer, SvExecute(i)
       PROVE  IInv'
  BY <1>2, <1>11, ExecuteStep
<1>12. ASSUME NEW i \in DOMAIN toServer, SvLostCommands(i)
       PROVE  IInv'
  <2>1. /\ toServer' = AfterArrival(toServer, i)
        /\ sv' = [sv EXCEPT !.zombie = TRUE] /\ lost' = TRUE
        /\ LosesCommands(toServer[i])
        /\ UNCHANGED <<cl, path, gameStates, executed, stranded>>
    BY <1>12 DEF SvLostCommands
  <2>2. stranded
    <3>1. PICK p \in Packets : p = toServer[i]
      BY <1>2, <1>3
    <3>2. p.first > sv.lastClientCommand + 1
      BY <2>1, <3>1 DEF LosesCommands
    <3>3. p.first \in Nat /\ sv.lastClientCommand \in Nat
      BY ClientCommandsAssumption, InvariantParts DEF Packets, PacketsOf, ClientMessage
    <3>4. ~stranded => p.first <= sv.lastClientCommand + 1
      BY DEF Packets
    <3> QED
      BY <3>2, <3>3, <3>4
  <2>3. lost' \in BOOLEAN /\ LostOnlyIfStranded'
    BY <2>1, <2>2 DEF LostOnlyIfStranded
  <2> QED
    BY <1>2, <1>3, <2>1, <2>3, QuietStep
<1>13. ASSUME SvDropClient
       PROVE  IInv'
  <2>1. /\ toServer' = toServer /\ sv' = [sv EXCEPT !.zombie = TRUE] /\ lost' = lost
        /\ UNCHANGED <<cl, path, gameStates, executed, stranded>>
    BY <1>13 DEF SvDropClient
  <2>2. lost' \in BOOLEAN /\ LostOnlyIfStranded'
    BY <2>1 DEF IInv, LostOnlyIfStranded
  <2> QED
    BY <1>1, <2>1, <2>2, QuietStep
<1>14. ASSUME SendFragment
       PROVE  IInv'
  <2>1. PICK next : next = SvTransmitNextFragment(path, sv.lastClientCommand)
    OBVIOUS
  <2>2. path.left > 0 /\ Sends(next) /\ gameStates' \in 0 .. MaxGameStates
    BY <1>4, <1>14, <2>1 DEF SendFragment
  <2> QED
    BY <2>1, <2>2, SendStep
<1>15. ASSUME SendSnapshot \/ SendGameState
       PROVE  IInv'
  <2>1. \E n \in SnapshotSizes \cup GameStateSizes :
           Sends(SvTransmit(path, Message(n), sv.lastClientCommand))
    BY <1>15 DEF SendSnapshot, SendGameState
  <2>2. PICK n \in SnapshotSizes \cup GameStateSizes :
           Sends(SvTransmit(path, Message(n), sv.lastClientCommand))
    BY <2>1
  <2>3. gameStates' \in 0 .. MaxGameStates
    BY <1>4, <1>15, ClientCommandsAssumption DEF SendSnapshot, SendGameState
  <2>4. PICK next : next = SvTransmit(path, Message(n), sv.lastClientCommand)
    OBVIOUS
  <2> QED
    BY <2>2, <2>3, <2>4, SendStep
<1>16. ASSUME Lose
       PROVE  IInv'
  <2>1. UNCHANGED <<cl, sv, gameStates, executed, stranded, lost>>
    BY <1>16 DEF Lose
  <2>2. ASSUME NEW i \in DOMAIN toServer, toServer' = AfterLoss(toServer, i),
               UNCHANGED path
        PROVE  IInv'
    <3>1. lost' \in BOOLEAN /\ LostOnlyIfStranded' /\ sv' = sv
      BY <2>1 DEF IInv, LostOnlyIfStranded
    <3>2. toServer' \in Seq(Packets)
      BY <1>2, <1>3, <2>2
    <3> QED
      BY <2>1, <2>2, <3>1, <3>2, QuietStep
  <2>3. ASSUME NEW i \in DOMAIN path.flight, UNCHANGED toServer,
               path' = [path EXCEPT !.flight = AfterLoss(path.flight, i)]
        PROVE  IInv'
    <3>1. PICK g : g = AfterLoss(path.flight, i)
      OBVIOUS
    <3>2. /\ path' \in PathOf(Acking(0, sv.lastClientCommand))
          /\ ~stranded => /\ ~Strands(path') /\ InOrder(path', AckOrder)
                          /\ cl.connected =>
                                path' \in PathOf(Acking(cl.reliableAcknowledge,
                                                        sv.lastClientCommand))
      BY <1>2, <2>3, <3>1, FlightStep
    <3>3. AcknowledgedInOrder'
      BY <1>4, <2>1, <3>2 DEF AcknowledgedInOrder
    <3>4. cl.reliableSequence \in Nat /\ AddedBy(cl) \in Nat /\ cl' = cl
      BY <1>4, <2>1, ClientParts
    <3>5. /\ ClientIsSound(cl') /\ cl.reliableSequence <= cl'.reliableSequence
          /\ AddedBy(cl) <= AddedBy(cl')
          /\ cl'.connected => cl.connected
      BY <1>4, <3>4
    <3>6. /\ UNCHANGED <<sv, gameStates, executed, stranded, lost>>
          /\ toServer' = toServer
      BY <2>1, <2>3
    <3> QED
      BY <3>2, <3>3, <3>5, <3>6, ClientStep
  <2> QED
    BY <1>16, <2>2, <2>3 DEF Lose
<1> QED
  BY <1>6, <1>7, <1>8, <1>9, <1>10, <1>11, <1>12, <1>13, <1>14, <1>15, <1>16
     DEF Next, SvReceive

LEMMA Invariance == Spec => []IInv
<1>1. ASSUME IInv, [Next]_vars
      PROVE  IInv'
  <2>1. CASE UNCHANGED vars
    <3>1. /\ cl' = cl /\ sv' = sv /\ path' = path /\ toServer' = toServer
          /\ gameStates' = gameStates /\ executed' = executed
          /\ stranded' = stranded /\ lost' = lost
      BY <2>1 DEF vars
    <3> QED
      BY <1>1, <3>1 DEF IInv, Packets, ExecutedIsAdded, AcknowledgedInOrder,
                        LostOnlyIfStranded
  <2> QED
    BY <1>1, <2>1, NextIsSound
<1> QED
  BY <1>1, InitIsSound, PTL DEF Spec

-----------------------------------------------------------------------------
(* The types. *)
THEOREM TypeCorrect == Spec => []TypeOK
<1>1. ASSUME IInv
      PROVE  TypeOK
  <2>1. /\ path \in PathOf(Acking(0, sv.lastClientCommand))
        /\ toServer \in Seq(Packets)
    BY <1>1 DEF IInv
  <2>2. Packets \subseteq ClientMessage
    BY DEF Packets, PacketsOf
  <2>3. toServer \in Seq(ClientMessage)
    BY <2>1, <2>2, SequenceOfMore
  <2>4. path \in PathOf(ServerMessage)
    BY <1>1, <2>1, InvariantParts, PathOfMore
  <2>5. /\ path.left \in Nat /\ path.current \in Seq(ServerMessage)
        /\ path.queue \in Seq(ServerMessage) /\ path.flight \in Seq(ServerMessage)
    BY <2>4, PathParts
  <2>6. (path.left > 0) = (Len(path.current) = 1)
    BY <2>4, <2>5 DEF PathOf
  <2> QED
    BY <1>1, <2>3, <2>5, <2>6 DEF IInv, TypeOK, ClientIsSound
<1> QED
  BY <1>1, Invariance, PTL

(* A command that is not acknowledged is still in the ring                  *)
(* (cl_main.c:462-481), however large the ring is.                          *)
THEOREM UnacknowledgedHeld == Spec => []UnacknowledgedIsHeld
<1>1. ASSUME IInv
      PROVE  UnacknowledgedIsHeld
  <2> SUFFICES ASSUME cl.connected,
                      NEW n \in cl.reliableAcknowledge + 1 .. cl.reliableSequence
               PROVE  cl.reliableCommands[Slot(n)] = n
    BY DEF UnacknowledgedIsHeld
  <2>1. ClientIsSound(cl)
    BY <1>1 DEF IInv
  <2>2. /\ cl.reliableSequence \in Nat /\ cl.reliableAcknowledge \in Nat
        /\ AddedBy(cl) = cl.reliableSequence
        /\ cl.reliableSequence - cl.reliableAcknowledge <= MaxReliable
        /\ MaxReliable \in Nat
    BY <2>1, ClientParts, ClientCommandsAssumption DEF Unacknowledged
  <2>3. /\ n \in 1 .. cl.reliableSequence /\ ~(n > AddedBy(cl))
        /\ n > cl.reliableSequence - MaxReliable
    BY <2>2
  <2> QED
    BY <2>1, <2>3 DEF ClientIsSound, RingIsHeld
<1> QED
  BY <1>1, Invariance, PTL

(* The server misses a command only after a stranded queue                  *)
(* (sv_client.c:1376-1381).                                                 *)
THEOREM LostOnlyThen == Spec => []LostOnlyIfStranded
<1>1. IInv => LostOnlyIfStranded
  BY DEF IInv
<1> QED
  BY <1>1, Invariance, PTL

-----------------------------------------------------------------------------
(* The refinement of CommandStream.                                          *)

UpTo(n) == [i \in 1 .. n |-> i]

(* What was executed, seen as a command stream: the first commands.         *)
CommandsInOrder ==
    /\ Commands = UpTo(Len(Commands))
    /\ Len(Commands) \in Nat /\ Len(Commands) <= AddedBy(cl)
    /\ Len(Commands) <= Len(executed) /\ Len(executed) <= Len(Commands) + 1
    /\ ~sv.zombie => Commands = executed

LEMMA UpToParts ==
    ASSUME NEW a \in Nat, NEW n \in Nat
    PROVE  /\ Len(UpTo(a)) = a
           /\ UpTo(a + n) = UpTo(a) \o [i \in 1 .. n |-> a + i]
<1> DEFINE s == UpTo(a)
           t == [i \in 1 .. n |-> a + i]
           u == UpTo(a + n)
<1>1. /\ s \in Seq(Nat) /\ Len(s) = a /\ \A i \in 1 .. a : s[i] = i
      /\ t \in Seq(Nat) /\ Len(t) = n /\ \A i \in 1 .. n : t[i] = a + i
      /\ u \in Seq(Nat) /\ Len(u) = a + n /\ \A i \in 1 .. a + n : u[i] = i
  BY DEF UpTo
<1>2. /\ s \o t \in Seq(Nat) /\ Len(s \o t) = a + n
      /\ \A i \in 1 .. a + n : (s \o t)[i] = IF i <= a THEN s[i] ELSE t[i - a]
  <2> HIDE DEF s, t, u
  <2>1. /\ s \o t \in Seq(Nat) /\ Len(s \o t) = Len(s) + Len(t)
        /\ \A i \in 1 .. Len(s) + Len(t) :
              (s \o t)[i] = IF i <= Len(s) THEN s[i] ELSE t[i - Len(s)]
    <3>1. s \in Seq(Nat) /\ t \in Seq(Nat)
      BY <1>1
    <3> QED
      BY <3>1, ConcatProperties
  <2>2. Len(s) = a /\ Len(t) = n
    BY <1>1
  <2> QED
    BY <2>1, <2>2
<1>3. \A i \in 1 .. a + n : (s \o t)[i] = i
  <2> HIDE DEF s, t, u
  <2>1. ASSUME NEW i \in 1 .. a + n
        PROVE  (s \o t)[i] = i
    <3>1. CASE i <= a
      BY <1>1, <1>2, <3>1
    <3>2. CASE ~(i <= a)
      <4>1. i - a \in 1 .. n /\ a + (i - a) = i
        BY <3>2
      <4>2. t[i - a] = i
        BY <1>1, <4>1
      <4> QED
        BY <1>2, <3>2, <4>2
    <3> QED
      BY <3>1, <3>2
  <2> QED
    BY <2>1
<1>4. u = s \o t
  <2> HIDE DEF s, t, u
  <2>1. PICK v : v = s \o t
    OBVIOUS
  <2>2. /\ v \in Seq(Nat) /\ Len(v) = Len(u) /\ u \in Seq(Nat)
        /\ \A i \in 1 .. Len(u) : u[i] = v[i]
    BY <1>1, <1>2, <1>3, <2>1
  <2> QED
    BY <2>1, <2>2, SeqEqual
<1> QED
  BY <1>1, <1>4

LEMMA ExecutedInOrder == IInv => CommandsInOrder
<1> SUFFICES ASSUME IInv
             PROVE  CommandsInOrder
  OBVIOUS
<1> DEFINE L == sv.lastClientCommand
           a == AddedBy(cl)
           C == Commands
<1>1. /\ executed \in Seq(Text) /\ Len(executed) = L /\ L \in Nat /\ a \in Nat
      /\ \A n \in 1 .. L :
            \/ executed[n] = n /\ n <= a
            \/ executed[n] = Disconnect /\ n = L /\ sv.zombie
  BY ClientParts, InvariantParts DEF IInv, ExecutedIsAdded
<1> HIDE DEF L, a
<1>2. ASSUME NEW n \in Nat, NEW s \in Seq(Text), Len(s) = n,
             \A i \in 1 .. n : s[i] = i
      PROVE  s = UpTo(n)
  <2>1. UpTo(n) \in Seq(Nat) /\ Len(UpTo(n)) = n /\ \A i \in 1 .. n : UpTo(n)[i] = i
    BY DEF UpTo
  <2> QED
    BY <1>2, <2>1, SeqEqual
<1>3. CASE L = 0 \/ executed[L] # Disconnect
  <2>1. C = executed
    BY <1>1, <1>3, EmptySeq DEF Commands
  <2>2. \A n \in 1 .. L : executed[n] = n /\ n <= a
    BY <1>1, <1>3
  <2>3. executed = UpTo(L) /\ L <= a
    BY <1>1, <1>2, <2>2
  <2> QED
    BY <1>1, <2>1, <2>3 DEF CommandsInOrder, a
<1>4. CASE L # 0 /\ executed[L] = Disconnect
  <2>1. PICK k : k = L - 1
    OBVIOUS
  <2>2. k \in Nat /\ k + 1 = L /\ L \in 1 .. L
    BY <1>1, <1>4, <2>1
  <2>3. C = SubSeq(executed, 1, k)
    BY <1>1, <1>4, <2>1, EmptySeq DEF Commands
  <2>4. /\ C \in Seq(Text) /\ Len(C) = k
        /\ \A n \in 1 .. k : C[n] = executed[n]
    <3>1. \A n \in 1 .. k : executed[n] \in Text
      BY <1>1, <2>2, ElementOfSeq
    <3>2. /\ C \in Seq(Text)
          /\ Len(C) = IF 1 <= k THEN k - 1 + 1 ELSE 0
          /\ \A n \in 1 .. k - 1 + 1 : C[n] = executed[1 + n - 1]
      BY <2>2, <2>3, <3>1, SubSeqProperties
    <3>3. k - 1 + 1 = k /\ \A n \in 1 .. k : 1 + n - 1 = n
      BY <2>2
    <3>4. Len(C) = k
      BY <2>2, <3>2, <3>3
    <3> QED
      BY <3>2, <3>3, <3>4
  <2>5. ASSUME NEW n \in 1 .. k
        PROVE  C[n] = n /\ n <= a
    <3>1. n \in 1 .. L /\ n # L
      BY <2>2
    <3> QED
      BY <1>1, <2>4, <3>1
  <2>6. C = UpTo(k) /\ k <= a
    <3> HIDE DEF C
    <3>1. k <= a
      BY <1>1, <2>2, <2>5
    <3> QED
      BY <1>2, <2>2, <2>4, <2>5, <3>1
  <2>7. sv.zombie
    <3>1. ~(executed[L] = L)
      BY <1>1, <1>4, ClientCommandsAssumption
    <3> QED
      BY <1>1, <2>2, <3>1
  <2> HIDE DEF C
  <2>8. /\ C = UpTo(Len(C)) /\ Len(C) \in Nat /\ Len(C) <= a
        /\ Len(C) <= Len(executed) /\ Len(executed) <= Len(C) + 1
    BY <1>1, <2>2, <2>4, <2>6
  <2> QED
    BY <2>7, <2>8 DEF CommandsInOrder, C, a
<1> QED
  BY <1>1, <1>3, <1>4

(* Every step of the client and the server is one of the stream: a command  *)
(* is added, the next commands are executed, or the server closes.          *)
LEMMA StepMapped ==
    ASSUME IInv, IInv', CommandsInOrder, CommandsInOrder', [Next]_vars
    PROVE  [Stream!Next]_(Stream!vars)
<1> DEFINE added == cl.reliableSequence - (IF cl.connected THEN 0 ELSE 1)
<1>1. ASSUME added' = added, Commands' = Commands, sv' = sv
      PROVE  UNCHANGED Stream!vars
  BY <1>1 DEF Stream!vars
<1>2. added = AddedBy(cl) /\ added' = AddedBy(cl')
  BY DEF AddedBy
<1>3. AddedBy(cl) \in Nat /\ cl.reliableSequence \in Nat /\ ClientIsSound(cl)
  BY ClientParts DEF IInv
<1>4. ASSUME executed' = executed
      PROVE  Commands' = Commands
  BY <1>4 DEF Commands
<1>5. ASSUME UNCHANGED <<cl, sv, executed>>
      PROVE  UNCHANGED Stream!vars
  BY <1>1, <1>4, <1>5
<1>6. ASSUME ~sv.zombie, added' = added, sv'.zombie \in BOOLEAN,
             Len(Commands) <= Len(Commands')
      PROVE  Stream!Next
  <2>1. PICK a : a = Len(Commands)
    OBVIOUS
  <2>2. PICK n : n = Len(Commands') - a
    OBVIOUS
  <2>3. /\ a \in Nat /\ n \in Nat /\ Len(Commands') = a + n
        /\ a + n <= AddedBy(cl) /\ n \in 0 .. added
    BY <1>2, <1>3, <1>6, <2>1, <2>2 DEF CommandsInOrder
  <2>4. Commands' = Commands \o [i \in 1 .. n |-> a + i]
    <3>1. Commands = UpTo(a) /\ Commands' = UpTo(a + n)
      BY <2>1, <2>3 DEF CommandsInOrder
    <3> QED
      BY <2>3, <3>1, UpToParts
  <2>5. Stream!Execute(n)
    <3>1. Len(Commands) + n <= added
      BY <1>2, <2>1, <2>3
    <3>2. Commands' = Commands \o [i \in 1 .. n |-> Len(Commands) + i]
      BY <2>1, <2>4
    <3> HIDE DEF added
    <3> QED
      BY <1>6, <3>1, <3>2 DEF Stream!Execute, added
  <2> QED
    BY <2>3, <2>5 DEF Stream!Next
<1>7. ASSUME ClAddCommand
      PROVE  Stream!Next
  <2>1. /\ cl.connected /\ ~WindowFull(cl)
        /\ cl.reliableSequence < MaxCommands
        /\ cl' = Stored(cl, cl.reliableSequence + 1)
        /\ executed' = executed /\ sv' = sv
    BY <1>7 DEF ClAddCommand
  <2>2. cl'.connected /\ cl'.reliableSequence = cl.reliableSequence + 1
    BY <1>3, <2>1, AddedIsSound
  <2>3. added' = added + 1
    BY <1>3, <2>1, <2>2
  <2>4. Commands' = Commands /\ sv'.zombie = sv.zombie
    BY <1>4, <2>1
  <2> HIDE DEF added
  <2>5. Stream!Add
    BY <2>3, <2>4 DEF Stream!Add, added
  <2> QED
    BY <2>5 DEF Stream!Next
<1>8. ASSUME NEW c, ClientIsSound(c), c.connected,
             c.reliableSequence = cl.reliableSequence, cl.connected,
             DisconnectFrom(c), UNCHANGED <<sv, executed>>
      PROVE  UNCHANGED Stream!vars
  <2>1. PICK last, p : last = Stored(c, Disconnect) /\ p = Packet(last)
    OBVIOUS
  <2>2. cl' = Left(last)
    BY <1>8, <2>1 DEF DisconnectFrom, Left
  <2>3. ~cl'.connected /\ cl'.reliableSequence = c.reliableSequence + 1
    BY <1>8, <2>1, <2>2, DisconnectLeaves
  <2>4. added' = added
    BY <1>3, <1>8, <2>3
  <2> QED
    BY <1>1, <1>4, <1>8, <2>4
<1>9. ASSUME ClOverflow \/ ClDisconnect
      PROVE  UNCHANGED Stream!vars
  <2>1. cl.connected /\ DisconnectFrom(cl) /\ UNCHANGED <<sv, executed>>
    BY <1>9 DEF ClOverflow, ClDisconnect
  <2> QED
    BY <1>3, <1>8, <2>1
<1>10. ASSUME NEW i \in DOMAIN path.flight, ClReceive(i)
       PROVE  UNCHANGED Stream!vars
  <2>1. PICK m, next : m = path.flight[i] /\ next = Acknowledged(cl, m)
    OBVIOUS
  <2>2. /\ cl.connected /\ (cl' = next \/ DisconnectFrom(next))
        /\ UNCHANGED <<sv, executed>>
    BY <1>10, <2>1 DEF ClReceive
  <2>3. m \in ServerMessage /\ m.ack <= cl.reliableSequence
    <3>1. path.flight \in Seq(Acking(0, sv.lastClientCommand))
      BY PathParts DEF IInv
    <3>2. i \in 1 .. Len(path.flight)
      BY <3>1, LenProperties
    <3>3. m \in Acking(0, sv.lastClientCommand)
      BY <2>1, <3>1, <3>2, ElementOfSeq
    <3>4. m \in ServerMessage /\ m.ack \in Nat /\ m.ack <= sv.lastClientCommand
      BY <3>3 DEF Acking, ServerMessage
    <3> QED
      BY <3>4, InvariantParts
  <2>4. /\ ClientIsSound(next) /\ next.connected
        /\ next.reliableSequence = cl.reliableSequence
    BY <1>3, <2>1, <2>2, <2>3, AcknowledgedIsSound
  <2>5. CASE cl' = next
    <3>1. added' = added
      BY <2>2, <2>4, <2>5
    <3> QED
      BY <1>1, <1>4, <2>2, <3>1
  <2>6. CASE DisconnectFrom(next)
    BY <1>8, <2>2, <2>4, <2>6
  <2> QED
    BY <2>2, <2>5, <2>6
<1>11. ASSUME NEW i \in DOMAIN toServer, SvExecute(i)
       PROVE  Stream!Next
  <2>1. PICK p, texts : p = toServer[i] /\ texts = NewTexts(p)
    OBVIOUS
  <2>2. /\ ~sv.zombie /\ ~LosesCommands(p) /\ cl' = cl
        /\ executed' = executed \o texts
    BY <1>11, <2>1 DEF SvExecute
  <2>3. executed \in Seq(Text) /\ texts \in Seq(Text)
    <3>1. toServer \in Seq(Packets)
      BY DEF IInv
    <3>2. i \in 1 .. Len(toServer)
      BY <3>1, LenProperties
    <3>3. p \in Packets
      BY <2>1, <3>1, <3>2, ElementOfSeq
    <3> QED
      BY <2>1, <2>2, <3>3, NewTextsInTurn DEF IInv
  <2>4. Len(Commands) = Len(executed)
    BY <2>2 DEF CommandsInOrder
  <2>5. /\ Len(executed') = Len(executed) + Len(texts)
        /\ Len(executed) \in Nat /\ Len(texts) \in Nat
    BY <2>2, <2>3, ConcatProperties, LenProperties
  <2>6. Len(Commands) <= Len(Commands')
    <3>1. CASE texts = <<>>
      <4>1. executed' = executed
        BY <2>2, <2>3, <3>1, ConcatEmptySeq
      <4> QED
        BY <1>4, <2>4, <2>5, <4>1
    <3>2. CASE texts # <<>>
      <4>1. Len(texts) >= 1
        BY <2>3, <2>5, <3>2, EmptySeq
      <4>2. Len(executed') <= Len(Commands') + 1 /\ Len(Commands') \in Nat
        BY DEF CommandsInOrder
      <4> QED
        BY <2>4, <2>5, <4>1, <4>2
    <3> QED
      BY <3>1, <3>2
  <2>7. added' = added
    BY <2>2
  <2>8. sv'.zombie \in BOOLEAN
    BY DEF IInv, ServerHalf
  <2> QED
    BY <1>6, <2>2, <2>6, <2>7, <2>8
<1>12. ASSUME ~sv.zombie, cl' = cl, executed' = executed
       PROVE  Stream!Next
  <2>1. Len(Commands) <= Len(Commands')
    BY <1>4, <1>12 DEF CommandsInOrder
  <2>2. added' = added /\ sv'.zombie \in BOOLEAN
    BY <1>12 DEF IInv, ServerHalf
  <2> QED
    BY <1>6, <1>12, <2>1, <2>2
<1>13. ASSUME NEW i \in DOMAIN toServer, SvLostCommands(i)
       PROVE  Stream!Next
  BY <1>12, <1>13 DEF SvLostCommands
<1>14. ASSUME SvDropClient
       PROVE  Stream!Next
  BY <1>12, <1>14 DEF SvDropClient
<1>15. ASSUME NEW i \in DOMAIN toServer, SvIgnore(i)
       PROVE  UNCHANGED Stream!vars
  BY <1>5, <1>15 DEF SvIgnore
<1>16. ASSUME \/ ClWritePacket \/ SendFragment \/ SendSnapshot \/ SendGameState
              \/ Lose \/ UNCHANGED vars
       PROVE  UNCHANGED Stream!vars
  <2>1. UNCHANGED <<cl, sv, executed>>
    BY <1>16 DEF ClWritePacket, SendFragment, SendSnapshot, SendGameState, Sends,
                 Lose, vars
  <2> QED
    BY <1>5, <2>1
<1> QED
  BY <1>7, <1>9, <1>10, <1>11, <1>13, <1>14, <1>15, <1>16 DEF Next, SvReceive

(* The server executes the commands the client added, each once, in order   *)
(* and with its own text (cl_main.c:462-481, sv_client.c:1360-1408).        *)
THEOREM CommandStreamRefinement == Spec => ImplementsCommandStream
<1>1. Init => Stream!Init
  BY DEF Init, Stream!Init, Commands
<1> QED
  BY <1>1, Invariance, ExecutedInOrder, StepMapped, PTL
     DEF Spec, ImplementsCommandStream
=============================================================================
