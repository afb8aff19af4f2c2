------------------------ MODULE SnapshotDeltaProofs ------------------------
(***************************************************************************)
(* What snapshots promise for every size of the rings, every number of     *)
(* messages, gamestates and map changes: a slot of the client's ring holds *)
(* the snapshot with its number, the base of a delta is there when the     *)
(* delta arrives, and what is read of it is what the server saw.           *)
(*                                                                         *)
(* The first two depend on no entity, so up to BaseHeld what the server    *)
(* puts into its ring and what the client merges stay closed: s.frames,    *)
(* s.entities and s.next are any values.  Then come the types of entities  *)
(* and rings (TypeCorrect), the merge of CL_ParsePacketEntities step by    *)
(* step, and what each end's ring still has of the other's frames.         *)
(***************************************************************************)
EXTENDS SnapshotDelta, SendPathProofs, FiniteSetTheorems

(* s and c are records with these fields.                                   *)
IsServer(s) ==
    s \in [state        : {"connected", "primed", "active"},
           map          : Nat,
           outgoing     : Nat,
           deltaMessage : Int,
           gameStateNum : Int,
           frames       : {s.frames},
           entities     : {s.entities},
           next         : {s.next}]

IsFrame(f) ==
    f \in [valid      : BOOLEAN,
           messageNum : Nat,
           active     : {f.active},
           ps         : {f.ps},
           start      : {f.start},
           count      : {f.count},
           entities   : {f.entities}]

IsClient(c) ==
    /\ c \in [map       : Nat,
              sequence  : Nat \ {0},
              snap      : Nat,
              snapshots : {c.snapshots},
              entities  : {c.entities},
              next      : {c.next}]
    /\ c.snapshots = [k \in 0 .. Backup - 1 |-> c.snapshots[k]]
    /\ \A k \in 0 .. Backup - 1 : IsFrame(c.snapshots[k])

IsMessage(m) ==
    /\ m.kind \in {"snapshot", "gamestate"}
    /\ m.sequence \in Nat /\ m.map \in Nat /\ m.delta \in Nat

Packet == [map : Nat, ack : Nat \ {0}, delta : BOOLEAN]

(* Snapshot b was a valid one, and is in its slot as long as no more than a *)
(* turn of the ring has come since.                                         *)
Holds(c, b) ==
    /\ b \in 1 .. c.snap
    /\ c.snap - b < Backup =>
          /\ c.snapshots[Slot(b)].valid
          /\ c.snapshots[Slot(b)].messageNum = b

(* The ring, over the snapshots up to the last.                             *)
RingIsSound(c) ==
    /\ \A n \in 1 .. c.snap :
          c.snap - n < Backup /\ c.snapshots[Slot(n)].valid
             => c.snapshots[Slot(n)].messageNum = n
    /\ c.snap # 0 => c.snapshots[Slot(c.snap)].valid

ClientIsSound(c) ==
    /\ IsClient(c)
    /\ c.snap <= c.sequence
    /\ RingIsSound(c)

(* The server's half, over the client's: a client that is active has the    *)
(* gamestate of the map, and what it acknowledged is a base it holds.       *)
ServerIsSound(s, c) ==
    /\ IsServer(s)
    /\ s.gameStateNum < s.outgoing
    /\ c.sequence < s.outgoing
    /\ c.map <= s.map
    /\ s.state = "active" => c.map = s.map
    /\ s.state = "active" /\ s.deltaMessage > 0 => Holds(c, s.deltaMessage)

(* A packet on its way; one that acknowledges a message behind the last     *)
(* gamestate was written in the map the client is in.                       *)
PacketIsSound(s, c, p) ==
    /\ p \in Packet
    /\ p.ack <= c.sequence /\ p.map <= c.map
    /\ p.ack > s.gameStateNum => p.map = c.map
    /\ p.delta /\ p.map = c.map => Holds(c, p.ack)

(* A message on its way; a gamestate is the last one sent, of a map the     *)
(* client is not in yet.                                                    *)
MessageIsSound(s, c, m) ==
    /\ IsMessage(m)
    /\ c.sequence < m.sequence /\ m.sequence < s.outgoing
    /\ m.kind = "gamestate" =>
          /\ m.delta = 0 /\ m.sequence = s.gameStateNum
          /\ c.map < m.map /\ m.map <= s.map
    /\ m.delta # 0 =>
          /\ m.delta < m.sequence /\ m.delta < Backup
          /\ m.map <= c.map
          /\ m.map = c.map => Holds(c, m.sequence - m.delta)

SentInOrder(f) ==
    \A i, j \in 1 .. Len(f) : i < j => f[i].sequence < f[j].sequence

IInv ==
    /\ ClientIsSound(cl)
    /\ ServerIsSound(sv, cl)
    /\ toServer \in Seq(Packet)
    /\ \A p \in Elements(toServer) : PacketIsSound(sv, cl, p)
    /\ toClient \in Seq(Elements(toClient))
    /\ SentInOrder(toClient)
    /\ \A m \in Elements(toClient) : MessageIsSound(sv, cl, m)

LEMMA Limits == /\ Backup \in Nat \ {0} /\ DeltaMargin \in Nat \ {0}
                /\ DeltaMargin < Backup
  BY SnapshotDeltaAssumption

LEMMA SlotOf ==
    ASSUME NEW n \in Nat
    PROVE  Slot(n) \in 0 .. Backup - 1
  BY SlotType, Limits DEF Slot

LEMMA SlotsApart ==
    ASSUME NEW a \in Nat, NEW b \in Nat, a < b, b - a < Backup
    PROVE  Slot(a) # Slot(b)
  BY SlotsDiffer, Limits DEF Slot

(* Two numbers of one slot are a turn of the ring apart. *)
LEMMA SameSlot ==
    ASSUME NEW a \in Nat, NEW b \in Nat, Slot(a) = Slot(b), a < b
    PROVE  b - a >= Backup
<1>1. ~(b - a < Backup)
  BY SlotsApart
<1> QED
  BY <1>1, Limits

-----------------------------------------------------------------------------
(* The client's ring.  *)

(* The records the client's half is made of, taken apart.                   *)
LEMMA ClientParts ==
    ASSUME NEW c, ClientIsSound(c)
    PROVE  /\ c.map \in Nat /\ c.sequence \in Nat \ {0} /\ c.snap \in Nat
           /\ c.snap <= c.sequence
           /\ \A k \in 0 .. Backup - 1 : /\ c.snapshots[k].valid \in BOOLEAN
                                         /\ c.snapshots[k].messageNum \in Nat
  BY DEF ClientIsSound, IsClient, IsFrame

(* CL_ParseSnapshot, as far as it does not depend on the entities.          *)
LEMMA SnapshotParsed ==
    ASSUME NEW c, IsClient(c), NEW m, IsMessage(m), m.sequence > 0,
           NEW d, d = AfterSnapshot(c, m)
    PROVE  /\ IsClient(d) /\ d.map = c.map /\ d.sequence = m.sequence
           /\ \/ d.snap = c.snap /\ d.snapshots = c.snapshots
              \/ /\ d.snap = m.sequence
                 /\ d.snapshots[Slot(m.sequence)].valid
                 /\ d.snapshots[Slot(m.sequence)].messageNum = m.sequence
                 /\ \A k \in 0 .. Backup - 1 : k # Slot(m.sequence) =>
                      IF \E n \in Skipped(c, m) : Slot(n) = k
                      THEN ~d.snapshots[k].valid
                      ELSE d.snapshots[k] = c.snapshots[k]
<1>1. PICK base, merged :
         /\ base = IF m.delta = 0 THEN NoClientFrame ELSE BaseOf(c, m)
         /\ merged = PacketEntities(c, base, m)
  OBVIOUS
<1>2. PICK parsed :
         parsed = [c EXCEPT !.entities = merged.entities, !.next = merged.next,
                            !.sequence = m.sequence]
  OBVIOUS
<1>3. /\ IsClient(parsed) /\ parsed.map = c.map /\ parsed.sequence = m.sequence
      /\ parsed.snap = c.snap /\ parsed.snapshots = c.snapshots
  <2>1. /\ parsed \in [map       : Nat,
                       sequence  : Nat \ {0},
                       snap      : Nat,
                       snapshots : {c.snapshots},
                       entities  : {merged.entities},
                       next      : {merged.next}]
        /\ parsed.map = c.map /\ parsed.sequence = m.sequence
        /\ parsed.snap = c.snap
    <3>1. c \in [map       : Nat,
                 sequence  : Nat \ {0},
                 snap      : Nat,
                 snapshots : {c.snapshots},
                 entities  : {c.entities},
                 next      : {c.next}]
      BY DEF IsClient
    <3>2. m.sequence \in Nat \ {0}
      BY DEF IsMessage
    <3> QED
      BY <1>2, <3>1, <3>2
  <2>2. parsed.snapshots = c.snapshots
    BY <2>1
  <2> QED
    BY <2>1, <2>2 DEF IsClient
<1>4. PICK frame :
         frame = [valid      |-> TRUE,
                  messageNum |-> m.sequence,
                  active     |-> m.active,
                  ps         |-> IF base.ps = m.psFrom THEN m.sequence ELSE Garbled,
                  start      |-> c.next,
                  count      |-> merged.next - c.next,
                  entities   |-> m.entities]
  OBVIOUS
<1>5. IsFrame(frame) /\ frame.valid /\ frame.messageNum = m.sequence
  BY <1>4 DEF IsFrame, IsMessage
<1>6. PICK ring : ring = [k \in DOMAIN parsed.snapshots |->
                            IF k = Slot(m.sequence) THEN frame
                            ELSE IF \E n \in Skipped(c, m) : Slot(n) = k
                                 THEN [parsed.snapshots[k] EXCEPT !.valid = FALSE]
                                 ELSE parsed.snapshots[k]]
  OBVIOUS
<1>7. d = IF ~BaseUsable(c, m) THEN parsed
          ELSE [parsed EXCEPT !.snap = m.sequence, !.snapshots = ring]
  BY <1>1, <1>2, <1>4, <1>6 DEF AfterSnapshot
<1>8. CASE ~BaseUsable(c, m)
  BY <1>3, <1>7, <1>8
<1>9. CASE BaseUsable(c, m)
  <2>1. d = [parsed EXCEPT !.snap = m.sequence, !.snapshots = ring]
    BY <1>7, <1>9
  <2>2. /\ d \in [map       : Nat,
                  sequence  : Nat \ {0},
                  snap      : Nat,
                  snapshots : {ring},
                  entities  : {parsed.entities},
                  next      : {parsed.next}]
        /\ d.map = c.map /\ d.sequence = m.sequence /\ d.snap = m.sequence
        /\ d.snapshots = ring
    BY <1>3, <2>1 DEF IsClient, IsMessage
  <2>3. Slot(m.sequence) \in 0 .. Backup - 1
    BY SlotOf DEF IsMessage
  <2>4. /\ DOMAIN parsed.snapshots = 0 .. Backup - 1
        /\ \A k \in 0 .. Backup - 1 : IsFrame(parsed.snapshots[k])
    BY <1>3 DEF IsClient
  <2>5. ring = [k \in 0 .. Backup - 1 |-> ring[k]]
    BY <1>6, <2>4
  <2>6. ring[Slot(m.sequence)] = frame
    BY <1>6, <2>3, <2>4
  <2>7. ASSUME NEW k \in 0 .. Backup - 1, k # Slot(m.sequence)
        PROVE  /\ IsFrame(ring[k])
               /\ IF \E n \in Skipped(c, m) : Slot(n) = k
                  THEN ~ring[k].valid
                  ELSE ring[k] = parsed.snapshots[k]
    <3>1. PICK old : old = parsed.snapshots[k]
      OBVIOUS
    <3>2. PICK gone : gone = [old EXCEPT !.valid = FALSE]
      OBVIOUS
    <3>3. IsFrame(old)
      BY <2>4, <3>1
    <3>4. IsFrame(gone) /\ ~gone.valid
      BY <3>2, <3>3 DEF IsFrame
    <3>5. ring[k] = IF \E n \in Skipped(c, m) : Slot(n) = k THEN gone ELSE old
      BY <1>6, <2>4, <2>7, <3>1, <3>2
    <3> QED
      BY <3>1, <3>3, <3>4, <3>5
  <2>8. IsClient(d)
    <3>1. \A k \in 0 .. Backup - 1 : IsFrame(d.snapshots[k])
      BY <1>5, <2>2, <2>6, <2>7
    <3> QED
      BY <2>2, <2>5, <3>1 DEF IsClient
  <2> QED
    BY <1>3, <1>5, <2>2, <2>6, <2>7, <2>8
<1> QED
  BY <1>8, <1>9

(* Only messages behind the last valid snapshot are skipped, and all that   *)
(* are less than a turn of the ring back.                                   *)
LEMMA SkippedParts ==
    ASSUME NEW c, c.snap \in Nat, NEW m, m.sequence \in Nat, NEW n \in Int
    PROVE  /\ n \in Skipped(c, m) => c.snap < n /\ n < m.sequence
           /\ c.snap < n /\ n < m.sequence /\ m.sequence - n < Backup
                 => n \in Skipped(c, m)
<1>1. PICK q : q = m.sequence
  OBVIOUS
<1>2. PICK a : a = c.snap
  OBVIOUS
<1>3. Skipped(c, m) = (IF q - (a + 1) >= Backup THEN q - (Backup - 1) ELSE a + 1) .. q - 1
  BY <1>1, <1>2 DEF Skipped
<1>4. q \in Nat /\ a \in Nat /\ Backup \in Nat \ {0}
  BY <1>1, <1>2, Limits
<1> QED
  BY <1>1, <1>2, <1>3, <1>4

(* A valid snapshot q is read: what the ring holds of the last turn is what *)
(* it held before, less the messages skipped.                               *)
LEMMA ValidSnapshot ==
    ASSUME NEW c, ClientIsSound(c), NEW m, IsMessage(m),
           c.sequence < m.sequence,
           NEW d, IsClient(d), d.snap = m.sequence, d.sequence = m.sequence,
           d.snapshots[Slot(m.sequence)].valid,
           d.snapshots[Slot(m.sequence)].messageNum = m.sequence,
           \A k \in 0 .. Backup - 1 : k # Slot(m.sequence) =>
              IF \E n \in Skipped(c, m) : Slot(n) = k
              THEN ~d.snapshots[k].valid
              ELSE d.snapshots[k] = c.snapshots[k]
    PROVE  /\ ClientIsSound(d)
           /\ \A b : Holds(c, b) => Holds(d, b)
<1>1. PICK q : q = m.sequence
  OBVIOUS
<1>2. PICK a : a = c.snap
  OBVIOUS
<1>3. q \in Nat /\ a \in Nat /\ a < q /\ Backup \in Nat \ {0}
  BY <1>1, <1>2, ClientParts, Limits DEF IsMessage
<1>4. ASSUME NEW n \in 1 .. q - 1, q - n < Backup
      PROVE  /\ n \in Nat /\ Slot(n) \in 0 .. Backup - 1
             /\ Slot(n) # Slot(m.sequence)
  <2>1. n \in Nat /\ n < q
    BY <1>3
  <2> QED
    BY <1>1, <1>3, <1>4, <2>1, SlotOf, SlotsApart
<1>5. RingIsSound(d)
  <2>1. ASSUME NEW n \in 1 .. q, q - n < Backup, d.snapshots[Slot(n)].valid
        PROVE  d.snapshots[Slot(n)].messageNum = n
    <3>1. CASE n = q
      BY <1>1, <3>1
    <3>2. CASE n \in 1 .. q - 1
      <4>1. /\ n \in Nat /\ Slot(n) \in 0 .. Backup - 1
            /\ Slot(n) # Slot(m.sequence)
        BY <1>4, <2>1, <3>2
      <4>2. ~(\E x \in Skipped(c, m) : Slot(x) = Slot(n))
        BY <2>1, <4>1
      <4>3. n \notin Skipped(c, m)
        BY <4>2
      <4>4. ~(a < n)
        <5>1. n \in Int /\ n < m.sequence /\ m.sequence - n < Backup
          BY <1>1, <1>3, <2>1, <3>2
        <5> QED
          BY <1>1, <1>2, <1>3, <4>3, <5>1, SkippedParts
      <4>5. n \in 1 .. c.snap /\ c.snap - n < Backup
        BY <1>2, <1>3, <2>1, <3>2, <4>4
      <4>6. d.snapshots[Slot(n)] = c.snapshots[Slot(n)]
        BY <4>1, <4>2
      <4> QED
        BY <2>1, <4>5, <4>6 DEF ClientIsSound, RingIsSound
    <3>3. n = q \/ n \in 1 .. q - 1
      BY <1>3
    <3> QED
      BY <3>1, <3>2, <3>3
  <2> QED
    BY <1>1, <2>1 DEF RingIsSound
<1>6. ASSUME NEW b, Holds(c, b)
      PROVE  Holds(d, b)
  <2>1. b \in 1 .. a
    BY <1>2, <1>6 DEF Holds
  <2>2. b \in 1 .. q /\ b \in 1 .. q - 1 /\ b \in Nat
    BY <1>3, <2>1
  <2>3. ASSUME q - b < Backup
        PROVE  d.snapshots[Slot(b)].valid /\ d.snapshots[Slot(b)].messageNum = b
    <3>1. Slot(b) \in 0 .. Backup - 1 /\ Slot(b) # Slot(m.sequence)
      BY <1>4, <2>2, <2>3
    <3>2. ASSUME NEW x \in Skipped(c, m)
          PROVE  Slot(x) # Slot(b)
      <4>1. x \in Int
        BY <1>1, <1>2, <1>3 DEF Skipped
      <4>2. a < x /\ x < q
        BY <1>1, <1>2, <1>3, <4>1, SkippedParts
      <4>3. x \in Nat /\ b < x /\ x - b < Backup
        BY <1>3, <2>1, <2>2, <2>3, <4>1, <4>2
      <4> QED
        BY <2>2, <4>3, SlotsApart
    <3>3. d.snapshots[Slot(b)] = c.snapshots[Slot(b)]
      BY <3>1, <3>2
    <3>4. c.snap - b < Backup
      BY <1>2, <1>3, <2>1, <2>3
    <3> QED
      BY <1>6, <3>3, <3>4 DEF Holds
  <2> QED
    BY <1>1, <2>2, <2>3 DEF Holds
<1>7. d.snap <= d.sequence
  BY <1>1, <1>3
<1> QED
  BY <1>5, <1>6, <1>7 DEF ClientIsSound

LEMMA SnapshotIsSound ==
    ASSUME NEW c, ClientIsSound(c), NEW m, IsMessage(m),
           c.sequence < m.sequence, NEW d, d = AfterSnapshot(c, m)
    PROVE  /\ ClientIsSound(d) /\ d.map = c.map /\ d.sequence = m.sequence
           /\ \A b : Holds(c, b) => Holds(d, b)
<1>1. /\ c.sequence \in Nat /\ m.sequence \in Nat /\ m.sequence > 0
      /\ c.snap \in Nat /\ c.snap <= c.sequence /\ IsClient(c)
  BY ClientParts DEF IsMessage, ClientIsSound
<1>2. /\ IsClient(d) /\ d.map = c.map /\ d.sequence = m.sequence
      /\ \/ d.snap = c.snap /\ d.snapshots = c.snapshots
         \/ /\ d.snap = m.sequence
            /\ d.snapshots[Slot(m.sequence)].valid
            /\ d.snapshots[Slot(m.sequence)].messageNum = m.sequence
            /\ \A k \in 0 .. Backup - 1 : k # Slot(m.sequence) =>
                 IF \E n \in Skipped(c, m) : Slot(n) = k
                 THEN ~d.snapshots[k].valid
                 ELSE d.snapshots[k] = c.snapshots[k]
  BY <1>1, SnapshotParsed
<1>3. CASE d.snap = c.snap /\ d.snapshots = c.snapshots
  <2>1. d.snap <= d.sequence
    BY <1>1, <1>2, <1>3
  <2>2. RingIsSound(d)
    BY <1>3 DEF ClientIsSound, RingIsSound
  <2>3. \A b : Holds(c, b) => Holds(d, b)
    BY <1>3 DEF Holds
  <2> QED
    BY <1>2, <2>1, <2>2, <2>3 DEF ClientIsSound
<1>4. CASE d.snap = m.sequence /\ d.snap # c.snap
  BY <1>1, <1>2, <1>4, ValidSnapshot
<1> QED
  BY <1>2, <1>3, <1>4, ValidSnapshot

LEMMA GameStateIsSound ==
    ASSUME NEW c, IsClient(c), NEW m, IsMessage(m), m.sequence > 0,
           NEW d, d = AfterGameState(c, m)
    PROVE  /\ ClientIsSound(d) /\ d.map = m.map /\ d.sequence = m.sequence
<1>1. PICK ring : ring = [k \in DOMAIN c.snapshots |-> NoClientFrame]
  OBVIOUS
<1>2. PICK blank : blank = Blank(MaxParseEntities)
  OBVIOUS
<1>3. d = [map |-> m.map, sequence |-> m.sequence, snap |-> 0,
           snapshots |-> ring, entities |-> blank, next |-> 0]
  BY <1>1, <1>2 DEF AfterGameState
<1>4. d.map = m.map /\ d.sequence = m.sequence /\ d.snap = 0 /\ d.snapshots = ring
  BY <1>3
<1>5. IsFrame(NoClientFrame)
  BY DEF IsFrame, NoClientFrame
<1>6. DOMAIN c.snapshots = 0 .. Backup - 1
  BY DEF IsClient
<1>7. /\ ring = [k \in 0 .. Backup - 1 |-> ring[k]]
      /\ \A k \in 0 .. Backup - 1 : IsFrame(ring[k])
  BY <1>1, <1>5, <1>6
<1>8. d \in [map       : Nat,
             sequence  : Nat \ {0},
             snap      : Nat,
             snapshots : {d.snapshots},
             entities  : {d.entities},
             next      : {d.next}]
  BY <1>3 DEF IsMessage
<1>9. IsClient(d)
  BY <1>4, <1>7, <1>8 DEF IsClient
<1>10. RingIsSound(d) /\ d.snap <= d.sequence
  BY <1>4 DEF RingIsSound, IsMessage
<1> QED
  BY <1>4, <1>9, <1>10 DEF ClientIsSound

-----------------------------------------------------------------------------
(* The messages on their way to the client. *)

SentBefore(M) == {p \in M \X M : p[1].sequence < p[2].sequence}

LEMMA OrderAsPairs ==
    ASSUME NEW M, NEW f \in Seq(M)
    PROVE  SentInOrder(f) <=> Sorted(f, SentBefore(M))
<1>1. \A i \in 1 .. Len(f) : f[i] \in M
  BY ElementOfSeq
<1>2. \A i, j \in 1 .. Len(f) :
         <<f[i], f[j]>> \in SentBefore(M) <=> f[i].sequence < f[j].sequence
  BY <1>1 DEF SentBefore
<1> QED
  BY <1>2 DEF SentInOrder, Sorted

LEMMA MessageFlying ==
    ASSUME NEW f, f \in Seq(Elements(f)), SentInOrder(f), NEW m,
           \A x \in Elements(f) : x.sequence < m.sequence,
           NEW g, g = Flying(f, m)
    PROVE  /\ g \in Seq(Elements(g)) /\ SentInOrder(g)
           /\ Elements(g) \subseteq Elements(f) \cup {m}
<1>1. PICK M : M = Elements(f) \cup {m}
  OBVIOUS
<1>2. f \in Seq(M) /\ m \in M /\ Elements(f) \subseteq M
  BY <1>1, SequenceOfMore
<1>3. Sorted(f, SentBefore(M))
  BY <1>2, OrderAsPairs
<1>4. Before(Elements(f), {m}, SentBefore(M))
  BY <1>2 DEF Before, SentBefore
<1>5. /\ g \in Seq(M) /\ Elements(g) \subseteq M
      /\ Sorted(g, SentBefore(M))
  BY <1>1, <1>2, <1>3, <1>4, FlyingKeepsOrder
<1>6. SentInOrder(g)
  BY <1>5, OrderAsPairs
<1> QED
  BY <1>1, <1>5, <1>6, SequenceWithin

LEMMA MessageArrived ==
    ASSUME NEW f, f \in Seq(Elements(f)), SentInOrder(f),
           NEW i \in 1 .. Len(f), NEW g, g = AfterArrival(f, i)
    PROVE  /\ g \in Seq(Elements(g)) /\ SentInOrder(g)
           /\ Elements(g) \subseteq Elements(f) /\ f[i] \in Elements(f)
           /\ \A x \in Elements(g) : f[i].sequence < x.sequence
<1>1. PICK M : M = Elements(f)
  OBVIOUS
<1>2. f \in Seq(M)
  BY <1>1
<1>3. Sorted(f, SentBefore(M))
  BY <1>2, OrderAsPairs
<1>4. /\ g \in Seq(M) /\ Elements(g) \subseteq M /\ f[i] \in M
      /\ Sorted(g, SentBefore(M))
      /\ Before({f[i]}, Elements(g), SentBefore(M))
  BY <1>1, <1>2, <1>3, ArrivalKeepsOrder
<1>5. SentInOrder(g)
  BY <1>4, OrderAsPairs
<1>6. \A x \in Elements(g) : f[i].sequence < x.sequence
  BY <1>4 DEF Before, SentBefore
<1> QED
  BY <1>1, <1>4, <1>5, <1>6, SequenceWithin

(* The packets on their way to the server. *)
LEMMA PacketFlying ==
    ASSUME NEW f \in Seq(Packet), NEW m \in Packet, NEW g, g = Flying(f, m)
    PROVE  g \in Seq(Packet) /\ Elements(g) \subseteq Elements(f) \cup {m}
  BY FlyingKeepsOrder

LEMMA PacketArrived ==
    ASSUME NEW f \in Seq(Packet), NEW i \in 1 .. Len(f),
           NEW g, g = AfterArrival(f, i)
    PROVE  /\ g \in Seq(Packet) /\ Elements(g) \subseteq Elements(f)
           /\ f[i] \in Elements(f)
  BY ArrivalKeepsOrder

-----------------------------------------------------------------------------
(* What a step of one end leaves of the other end's promises. *)

(* The server has sent further messages, of the same map and since the same *)
(* gamestate.                                                               *)
LEMMA SameGameState ==
    ASSUME NEW s, NEW t, NEW c, t.map = s.map, t.gameStateNum = s.gameStateNum,
           s.outgoing \in Nat, t.outgoing \in Nat, s.outgoing <= t.outgoing
    PROVE  /\ \A p : PacketIsSound(s, c, p) => PacketIsSound(t, c, p)
           /\ \A m : MessageIsSound(s, c, m) => MessageIsSound(t, c, m)
<1>1. ASSUME NEW p, PacketIsSound(s, c, p)
      PROVE  PacketIsSound(t, c, p)
  BY <1>1 DEF PacketIsSound
<1>2. ASSUME NEW m, MessageIsSound(s, c, m)
      PROVE  MessageIsSound(t, c, m)
  <2>1. m.sequence < t.outgoing
    BY <1>2 DEF MessageIsSound, IsMessage
  <2> QED
    BY <1>2, <2>1 DEF MessageIsSound
<1> QED
  BY <1>1, <1>2

(* What the invariant says of the two ends. *)
LEMMA Ends ==
    ASSUME IInv
    PROVE  /\ sv.map \in Nat /\ sv.outgoing \in Nat /\ sv.deltaMessage \in Int
           /\ sv.gameStateNum \in Int /\ sv.gameStateNum < sv.outgoing
           /\ sv.state \in {"connected", "primed", "active"}
           /\ cl.map \in Nat /\ cl.sequence \in Nat \ {0} /\ cl.snap \in Nat
           /\ cl.snap <= cl.sequence /\ cl.sequence < sv.outgoing
           /\ cl.map <= sv.map
           /\ IsServer(sv) /\ ClientIsSound(cl) /\ IsClient(cl)
<1>1. IsServer(sv)
  BY DEF IInv, ServerIsSound
<1>2. /\ sv.map \in Nat /\ sv.outgoing \in Nat /\ sv.deltaMessage \in Int
      /\ sv.gameStateNum \in Int
      /\ sv.state \in {"connected", "primed", "active"}
  BY <1>1 DEF IsServer
<1>3. ClientIsSound(cl)
  BY DEF IInv
<1> QED
  BY <1>1, <1>2, <1>3, ClientParts DEF IInv, ServerIsSound, ClientIsSound

(* Entities put into the shared ring change nothing else. *)
LEMMA CopiedParts ==
    ASSUME NEW s, IsServer(s), NEW seen, NEW t, t = Copied(s, seen)
    PROVE  /\ IsServer(t)
           /\ t.state = s.state /\ t.map = s.map /\ t.outgoing = s.outgoing
           /\ t.deltaMessage = s.deltaMessage
           /\ t.gameStateNum = s.gameStateNum
<1>1. PICK next, ring : t = [s EXCEPT !.next = next, !.entities = ring]
  BY DEF Copied
<1>2. s \in [state        : {"connected", "primed", "active"},
             map          : Nat,
             outgoing     : Nat,
             deltaMessage : Int,
             gameStateNum : Int,
             frames       : {s.frames},
             entities     : {s.entities},
             next         : {s.next}]
  BY DEF IsServer
<1>3. /\ t \in [state        : {"connected", "primed", "active"},
                map          : Nat,
                outgoing     : Nat,
                deltaMessage : Int,
                gameStateNum : Int,
                frames       : {s.frames},
                entities     : {ring},
                next         : {next}]
      /\ t.state = s.state /\ t.map = s.map /\ t.outgoing = s.outgoing
      /\ t.deltaMessage = s.deltaMessage
      /\ t.gameStateNum = s.gameStateNum
  BY <1>1, <1>2
<1>4. t.frames = s.frames /\ t.entities = ring /\ t.next = next
  BY <1>3
<1> QED
  BY <1>3, <1>4 DEF IsServer

LEMMA BuiltParts ==
    ASSUME NEW s, IsServer(s), NEW seen, NEW t, t = Built(s, seen)
    PROVE  /\ IsServer(t)
           /\ t.state = s.state /\ t.map = s.map /\ t.outgoing = s.outgoing
           /\ t.deltaMessage = s.deltaMessage
           /\ t.gameStateNum = s.gameStateNum
<1>1. PICK u : u = Copied(s, seen)
  OBVIOUS
<1>2. /\ IsServer(u)
      /\ u.state = s.state /\ u.map = s.map /\ u.outgoing = s.outgoing
      /\ u.deltaMessage = s.deltaMessage
      /\ u.gameStateNum = s.gameStateNum
  BY <1>1, CopiedParts
<1>3. PICK frames : t = [u EXCEPT !.frames = frames]
  BY <1>1 DEF Built
<1>4. u \in [state        : {"connected", "primed", "active"},
             map          : Nat,
             outgoing     : Nat,
             deltaMessage : Int,
             gameStateNum : Int,
             frames       : {u.frames},
             entities     : {u.entities},
             next         : {u.next}]
  BY <1>2 DEF IsServer
<1>5. /\ t \in [state        : {"connected", "primed", "active"},
                map          : Nat,
                outgoing     : Nat,
                deltaMessage : Int,
                gameStateNum : Int,
                frames       : {frames},
                entities     : {u.entities},
                next         : {u.next}]
      /\ t.state = u.state /\ t.map = u.map /\ t.outgoing = u.outgoing
      /\ t.deltaMessage = u.deltaMessage
      /\ t.gameStateNum = u.gameStateNum
  BY <1>3, <1>4
<1>6. t.frames = frames /\ t.entities = u.entities /\ t.next = u.next
  BY <1>5
<1> QED
  BY <1>2, <1>5, <1>6 DEF IsServer

(* SV_WriteSnapshotToClient: the base of a delta is a snapshot the client   *)
(* holds.                                                                   *)
LEMMA SnapshotWritten ==
    ASSUME IInv, NEW t, t.state = sv.state, t.map = sv.map,
           t.outgoing = sv.outgoing, t.deltaMessage = sv.deltaMessage,
           NEW seen, NEW m, m = Snapshot(t, seen)
    PROVE  /\ m.kind = "snapshot" /\ m.sequence = sv.outgoing /\ IsMessage(m)
           /\ m.delta # 0 =>
                 /\ m.delta < m.sequence /\ m.delta < Backup
                 /\ m.map <= cl.map
                 /\ m.map = cl.map => Holds(cl, m.sequence - m.delta)
<1>1. /\ m.kind = "snapshot" /\ m.sequence = t.outgoing /\ m.map = t.map
      /\ m.delta = IF UsesDelta(t) THEN t.outgoing - t.deltaMessage ELSE 0
  BY DEF Snapshot
<1>2. ASSUME UsesDelta(t)
      PROVE  /\ m.delta \in Nat /\ m.delta < m.sequence /\ m.delta < Backup
             /\ m.map = cl.map /\ Holds(cl, m.sequence - m.delta)
  <2>1. /\ sv.deltaMessage > 0 /\ sv.state = "active"
        /\ ~(sv.outgoing - sv.deltaMessage >= Backup - DeltaMargin)
    BY <1>2 DEF UsesDelta, OutOfDate
  <2>2. Holds(cl, sv.deltaMessage) /\ cl.map = sv.map
    BY <2>1 DEF IInv, ServerIsSound
  <2>3. sv.deltaMessage <= cl.snap
    BY <2>2, Ends DEF Holds
  <2>4. m.delta = sv.outgoing - sv.deltaMessage /\ m.sequence = sv.outgoing
    BY <1>1, <1>2
  <2>5. /\ sv.outgoing \in Nat /\ sv.deltaMessage \in Int
        /\ sv.deltaMessage < sv.outgoing
    BY <2>3, Ends
  <2>6. m.sequence - m.delta = sv.deltaMessage
    BY <2>4, <2>5
  <2>7. m.delta \in Nat /\ m.delta < m.sequence /\ m.delta < Backup
    BY <2>1, <2>4, <2>5, Limits
  <2> QED
    BY <1>1, <2>2, <2>6, <2>7
<1>3. m.delta \in Nat
  BY <1>1, <1>2
<1>4. m.delta # 0 => UsesDelta(t)
  BY <1>1
<1>5. m.map \in Nat /\ m.sequence \in Nat /\ cl.map \in Nat
  BY <1>1, Ends
<1> QED
  BY <1>1, <1>2, <1>3, <1>4, <1>5 DEF IsMessage

-----------------------------------------------------------------------------
(* The steps. *)

(* The server's half t after it has sent a message.                         *)
Further(t) == [t EXCEPT !.outgoing = @ + 1]

LEMMA ServerSends ==
    ASSUME NEW t, IsServer(t), NEW u, u = Further(t)
    PROVE  /\ IsServer(u) /\ u.outgoing = t.outgoing + 1
           /\ u.state = t.state /\ u.map = t.map
           /\ u.deltaMessage = t.deltaMessage
           /\ u.gameStateNum = t.gameStateNum
<1>1. t \in [state        : {"connected", "primed", "active"},
             map          : Nat,
             outgoing     : Nat,
             deltaMessage : Int,
             gameStateNum : Int,
             frames       : {t.frames},
             entities     : {t.entities},
             next         : {t.next}]
  BY DEF IsServer
<1>2. /\ u \in [state        : {"connected", "primed", "active"},
                map          : Nat,
                outgoing     : Nat,
                deltaMessage : Int,
                gameStateNum : Int,
                frames       : {t.frames},
                entities     : {t.entities},
                next         : {t.next}]
      /\ u.outgoing = t.outgoing + 1
      /\ u.state = t.state /\ u.map = t.map
      /\ u.deltaMessage = t.deltaMessage
      /\ u.gameStateNum = t.gameStateNum
  BY <1>1 DEF Further
<1>3. u.frames = t.frames /\ u.entities = t.entities /\ u.next = t.next
  BY <1>2
<1> QED
  BY <1>2, <1>3 DEF IsServer

LEMMA SendSnapshotStep ==
    ASSUME IInv, SvSendSnapshot
    PROVE  IInv'
<1>1. PICK seen, built : /\ built = Built(sv, seen)
                         /\ Sends(built, Snapshot(built, seen))
  BY DEF SvSendSnapshot
<1>2. PICK m : m = Snapshot(built, seen)
  OBVIOUS
<1>3. cl' = cl /\ toServer' = toServer
  BY DEF SvSendSnapshot
<1>4. /\ IsServer(built) /\ built.state = sv.state /\ built.map = sv.map
      /\ built.outgoing = sv.outgoing
      /\ built.deltaMessage = sv.deltaMessage
      /\ built.gameStateNum = sv.gameStateNum
  BY <1>1, Ends, BuiltParts
<1>5. PICK u : u = Further(built)
  OBVIOUS
<1>6. sv' = u /\ toClient' = Flying(toClient, m)
  BY <1>1, <1>2, <1>5 DEF Sends, Further
<1>7. /\ IsServer(u) /\ u.outgoing = sv.outgoing + 1
      /\ u.state = sv.state /\ u.map = sv.map
      /\ u.deltaMessage = sv.deltaMessage
      /\ u.gameStateNum = sv.gameStateNum
  BY <1>4, <1>5, ServerSends
<1>8. /\ u.outgoing \in Nat /\ sv.outgoing < u.outgoing
      /\ sv.outgoing \in Nat /\ u.gameStateNum < u.outgoing
      /\ cl.sequence < u.outgoing
  BY <1>7, Ends
<1>9. ServerIsSound(u, cl)
  BY <1>7, <1>8 DEF IInv, ServerIsSound
<1>10. /\ \A p : PacketIsSound(sv, cl, p) => PacketIsSound(u, cl, p)
       /\ \A x : MessageIsSound(sv, cl, x) => MessageIsSound(u, cl, x)
  BY <1>7, <1>8, SameGameState
<1>11. MessageIsSound(u, cl, m)
  <2>1. /\ m.kind = "snapshot" /\ m.sequence = sv.outgoing /\ IsMessage(m)
        /\ m.delta # 0 =>
              /\ m.delta < m.sequence /\ m.delta < Backup
              /\ m.map <= cl.map
              /\ m.map = cl.map => Holds(cl, m.sequence - m.delta)
    BY <1>2, <1>4, SnapshotWritten
  <2>2. cl.sequence < m.sequence /\ m.sequence < u.outgoing
    BY <1>8, <2>1, Ends
  <2> QED
    BY <2>1, <2>2 DEF MessageIsSound
<1>12. /\ toClient' \in Seq(Elements(toClient')) /\ SentInOrder(toClient')
       /\ Elements(toClient') \subseteq Elements(toClient) \cup {m}
  <2>1. \A x \in Elements(toClient) : x.sequence < m.sequence
    <3>1. m.sequence = sv.outgoing
      BY <1>2, <1>4, SnapshotWritten
    <3> QED
      BY <3>1 DEF IInv, MessageIsSound
  <2> QED
    BY <1>6, <2>1, MessageFlying DEF IInv
<1>13. \A x \in Elements(toClient') : MessageIsSound(u, cl, x)
  BY <1>10, <1>11, <1>12 DEF IInv
<1>14. \A p \in Elements(toServer) : PacketIsSound(u, cl, p)
  BY <1>10 DEF IInv
<1> QED
  BY <1>3, <1>6, <1>9, <1>12, <1>13, <1>14 DEF IInv

LEMMA BuildForOtherStep ==
    ASSUME IInv, SvBuildForOther
    PROVE  IInv'
<1>1. PICK seen : sv' = Copied(sv, seen)
  BY DEF SvBuildForOther
<1>2. cl' = cl /\ toServer' = toServer /\ toClient' = toClient
  BY DEF SvBuildForOther
<1>3. /\ IsServer(sv')
      /\ sv'.state = sv.state /\ sv'.map = sv.map /\ sv'.outgoing = sv.outgoing
      /\ sv'.deltaMessage = sv.deltaMessage
      /\ sv'.gameStateNum = sv.gameStateNum
  BY <1>1, Ends, CopiedParts
<1>4. ServerIsSound(sv', cl)
  BY <1>3 DEF IInv, ServerIsSound
<1>5. /\ \A p : PacketIsSound(sv, cl, p) => PacketIsSound(sv', cl, p)
      /\ \A x : MessageIsSound(sv, cl, x) => MessageIsSound(sv', cl, x)
  <2>1. sv.outgoing \in Nat /\ sv.outgoing <= sv'.outgoing
    BY <1>3, Ends
  <2> QED
    BY <1>3, <2>1, SameGameState
<1> QED
  BY <1>2, <1>4, <1>5 DEF IInv

(* SV_SpawnServer: nobody is active, and every packet on its way is of an   *)
(* earlier map.                                                             *)
LEMMA SpawnServerStep ==
    ASSUME IInv, SvSpawnServer
    PROVE  IInv'
<1>1. PICK blank : blank = Blank(NumSnapshotEntities)
  OBVIOUS
<1>2. /\ sv' = [sv EXCEPT !.state = "connected", !.map = @ + 1,
                          !.entities = blank, !.next = 0]
      /\ cl' = cl /\ toServer' = toServer /\ toClient' = toClient
  BY <1>1 DEF SvSpawnServer
<1>3. /\ IsServer(sv') /\ sv'.state = "connected" /\ sv'.map = sv.map + 1
      /\ sv'.outgoing = sv.outgoing /\ sv'.gameStateNum = sv.gameStateNum
  <2>1. sv \in [state        : {"connected", "primed", "active"},
                map          : Nat,
                outgoing     : Nat,
                deltaMessage : Int,
                gameStateNum : Int,
                frames       : {sv.frames},
                entities     : {sv.entities},
                next         : {sv.next}]
    BY Ends DEF IsServer
  <2>2. /\ sv' \in [state        : {"connected", "primed", "active"},
                    map          : Nat,
                    outgoing     : Nat,
                    deltaMessage : Int,
                    gameStateNum : Int,
                    frames       : {sv.frames},
                    entities     : {blank},
                    next         : {0}]
        /\ sv'.state = "connected" /\ sv'.map = sv.map + 1
        /\ sv'.outgoing = sv.outgoing /\ sv'.gameStateNum = sv.gameStateNum
    <3>1. PICK map : map = sv.map + 1
      OBVIOUS
    <3>2. map \in Nat
      BY <3>1, Ends
    <3>3. sv' = [sv EXCEPT !.state = "connected", !.map = map,
                           !.entities = blank, !.next = 0]
      BY <1>2, <3>1
    <3> QED
      BY <2>1, <3>1, <3>2, <3>3
  <2>3. sv'.frames = sv.frames /\ sv'.entities = blank /\ sv'.next = 0
    BY <2>2
  <2> QED
    BY <2>2, <2>3 DEF IsServer
<1>4. cl.map <= sv'.map /\ sv.map <= sv'.map /\ sv.map \in Nat
  BY <1>3, Ends
<1>5. ServerIsSound(sv', cl)
  BY <1>3, <1>4 DEF IInv, ServerIsSound
<1>6. ASSUME NEW p \in Elements(toServer)
      PROVE  PacketIsSound(sv', cl, p)
  BY <1>3 DEF IInv, PacketIsSound
<1>7. ASSUME NEW m \in Elements(toClient)
      PROVE  MessageIsSound(sv', cl, m)
  <2>1. MessageIsSound(sv, cl, m)
    BY DEF IInv
  <2>2. m.kind = "gamestate" => m.map <= sv'.map
    <3>1. m.map \in Nat
      BY <2>1 DEF MessageIsSound, IsMessage
    <3>2. m.kind = "gamestate" => m.map <= sv.map
      BY <2>1 DEF MessageIsSound
    <3> QED
      BY <1>3, <1>4, <3>1, <3>2
  <2> QED
    BY <1>3, <2>1, <2>2 DEF MessageIsSound
<1> QED
  BY <1>2, <1>5, <1>6, <1>7 DEF IInv

(* CL_WritePacket: a delta is asked for from a snapshot that is held.       *)
LEMMA WritePacketStep ==
    ASSUME IInv, ClWritePacket
    PROVE  IInv'
<1>1. PICK p : p = [map |-> cl.map, ack |-> cl.sequence, delta |-> WantsDelta(cl)]
  OBVIOUS
<1>2. /\ toServer' = Flying(toServer, p)
      /\ sv' = sv /\ cl' = cl /\ toClient' = toClient
  BY <1>1 DEF ClWritePacket
<1>3. p \in Packet /\ p.map = cl.map /\ p.ack = cl.sequence
  BY <1>1, Ends DEF Packet, WantsDelta
<1>4. p.delta => Holds(cl, p.ack)
  <2>1. p.delta => cl.snap # 0 /\ cl.snap = p.ack
    BY <1>1 DEF WantsDelta
  <2>2. cl.snap # 0 => cl.snap \in 1 .. cl.snap /\ cl.snap - cl.snap < Backup
    BY Ends, Limits
  <2>3. RingIsSound(cl)
    BY DEF IInv, ClientIsSound
  <2> QED
    BY <2>1, <2>2, <2>3 DEF RingIsSound, Holds
<1>5. PacketIsSound(sv, cl, p)
  BY <1>3, <1>4, Ends DEF PacketIsSound
<1>6. /\ toServer' \in Seq(Packet)
      /\ Elements(toServer') \subseteq Elements(toServer) \cup {p}
  BY <1>2, <1>3, PacketFlying DEF IInv
<1> QED
  BY <1>2, <1>5, <1>6 DEF IInv

(* The server's half s when it builds a gamestate.                          *)
Primed(s) == [s EXCEPT !.state = "primed", !.gameStateNum = s.outgoing]

(* SV_SendClientGameState, for a packet of an earlier map that acknowledges *)
(* a message behind the last gamestate: the client never got that one.      *)
LEMMA SendGameStateStep ==
    ASSUME IInv, NEW p \in Elements(toServer),
           p.map # sv.map, p.ack > sv.gameStateNum,
           NEW t, t = Primed(sv),
           Sends(t, GameState(t)),
           toServer' \in Seq(Packet),
           Elements(toServer') \subseteq Elements(toServer),
           cl' = cl
    PROVE  IInv'
<1>1. /\ IsServer(t) /\ t.state = "primed" /\ t.map = sv.map
      /\ t.outgoing = sv.outgoing /\ t.gameStateNum = sv.outgoing
  <2>1. sv \in [state        : {"connected", "primed", "active"},
                map          : Nat,
                outgoing     : Nat,
                deltaMessage : Int,
                gameStateNum : Int,
                frames       : {sv.frames},
                entities     : {sv.entities},
                next         : {sv.next}]
    BY Ends DEF IsServer
  <2>2. sv.outgoing \in Int
    BY Ends
  <2>3. /\ t \in [state        : {"connected", "primed", "active"},
                  map          : Nat,
                  outgoing     : Nat,
                  deltaMessage : Int,
                  gameStateNum : Int,
                  frames       : {sv.frames},
                  entities     : {sv.entities},
                  next         : {sv.next}]
        /\ t.state = "primed" /\ t.map = sv.map
        /\ t.outgoing = sv.outgoing /\ t.gameStateNum = sv.outgoing
    BY <2>1, <2>2 DEF Primed
  <2>4. t.frames = sv.frames /\ t.entities = sv.entities /\ t.next = sv.next
    BY <2>3
  <2> QED
    BY <2>3, <2>4 DEF IsServer
<1>2. PICK m : m = GameState(t)
  OBVIOUS
<1>3. /\ m.kind = "gamestate" /\ m.sequence = sv.outgoing /\ m.map = sv.map
      /\ m.delta = 0
  BY <1>1, <1>2 DEF GameState
<1>4. PICK u : u = Further(t)
  OBVIOUS
<1>5. sv' = u /\ toClient' = Flying(toClient, m)
  BY <1>2, <1>4 DEF Sends, Further
<1>6. /\ IsServer(u) /\ u.outgoing = sv.outgoing + 1
      /\ u.state = "primed" /\ u.map = sv.map /\ u.gameStateNum = sv.outgoing
  <2>1. IsServer(t)
    BY <1>1
  <2>2. /\ IsServer(u) /\ u.outgoing = t.outgoing + 1
        /\ u.state = t.state /\ u.map = t.map /\ u.gameStateNum = t.gameStateNum
    BY <1>4, <2>1, ServerSends
  <2> QED
    BY <1>1, <2>2
<1>7. /\ sv.outgoing \in Nat /\ u.outgoing \in Nat /\ sv.outgoing < u.outgoing
      /\ cl.sequence < sv.outgoing /\ cl.sequence < u.outgoing
      /\ cl.sequence \in Nat /\ sv.gameStateNum \in Int
  BY <1>6, Ends
<1>8. ServerIsSound(u, cl)
  BY <1>6, <1>7 DEF IInv, ServerIsSound
<1>9. ASSUME NEW x \in Elements(toServer)
      PROVE  PacketIsSound(u, cl, x)
  <2>1. PacketIsSound(sv, cl, x)
    BY DEF IInv
  <2>2. x.ack \in Nat /\ x.ack <= cl.sequence
    BY <2>1 DEF PacketIsSound, Packet
  <2>3. ~(x.ack > u.gameStateNum)
    BY <1>6, <1>7, <2>2
  <2> QED
    BY <2>1, <2>3 DEF PacketIsSound
<1>10. /\ p.ack \in Nat /\ p.ack <= cl.sequence
       /\ p.map = cl.map
  BY DEF IInv, PacketIsSound, Packet
<1>11. MessageIsSound(u, cl, m)
  <2>1. cl.map < m.map /\ m.map <= u.map
    BY <1>3, <1>6, <1>10, Ends
  <2>2. IsMessage(m)
    BY <1>3, Ends DEF IsMessage
  <2> QED
    BY <1>3, <1>6, <1>7, <2>1, <2>2 DEF MessageIsSound
<1>12. ASSUME NEW x \in Elements(toClient)
       PROVE  MessageIsSound(u, cl, x) /\ x.sequence < m.sequence
  <2>1. MessageIsSound(sv, cl, x)
    BY DEF IInv
  <2>2. /\ x.sequence \in Nat /\ cl.sequence < x.sequence
        /\ x.sequence < sv.outgoing
    BY <2>1 DEF MessageIsSound, IsMessage
  <2>3. x.sequence # sv.gameStateNum /\ x.sequence < u.outgoing
    BY <1>7, <1>10, <2>2
  <2>4. x.kind # "gamestate"
    BY <2>1, <2>3 DEF MessageIsSound
  <2> QED
    BY <1>3, <2>1, <2>2, <2>3, <2>4 DEF MessageIsSound
<1>13. /\ toClient' \in Seq(Elements(toClient')) /\ SentInOrder(toClient')
       /\ Elements(toClient') \subseteq Elements(toClient) \cup {m}
  BY <1>5, <1>12, MessageFlying DEF IInv
<1>14. \A x \in Elements(toClient') : MessageIsSound(u, cl, x)
  BY <1>11, <1>12, <1>13
<1>15. \A x \in Elements(toServer') : PacketIsSound(u, cl, x)
  BY <1>9
<1> QED
  BY <1>5, <1>8, <1>13, <1>14, <1>15 DEF IInv

(* SV_UserMove, with a packet of the map: the client is in that map, and a  *)
(* delta is taken from a snapshot it holds.                                 *)
LEMMA MoveStep ==
    ASSUME IInv, NEW p \in Elements(toServer), p.map = sv.map,
           sv' = AfterMove(sv, p),
           toServer' \in Seq(Packet),
           Elements(toServer') \subseteq Elements(toServer),
           cl' = cl, toClient' = toClient
    PROVE  IInv'
<1>1. PacketIsSound(sv, cl, p) /\ p \in Packet
  BY DEF IInv, PacketIsSound
<1>2. p.map \in Nat /\ p.ack \in Nat /\ p.map <= cl.map
  BY <1>1 DEF PacketIsSound, Packet
<1>3. cl.map = sv.map
  BY <1>2, Ends
<1>4. PICK delta :
         delta = IF sv.state = "active" /\ p.delta THEN p.ack ELSE -1
  OBVIOUS
<1>5. delta \in Int
  BY <1>2, <1>4
<1>6. sv' = [sv EXCEPT !.state = "active", !.deltaMessage = delta]
  BY <1>4 DEF AfterMove
<1>7. /\ IsServer(sv') /\ sv'.state = "active" /\ sv'.map = sv.map
      /\ sv'.outgoing = sv.outgoing /\ sv'.gameStateNum = sv.gameStateNum
      /\ sv'.deltaMessage = delta
  <2>1. sv \in [state        : {"connected", "primed", "active"},
                map          : Nat,
                outgoing     : Nat,
                deltaMessage : Int,
                gameStateNum : Int,
                frames       : {sv.frames},
                entities     : {sv.entities},
                next         : {sv.next}]
    BY Ends DEF IsServer
  <2>2. /\ sv' \in [state        : {"connected", "primed", "active"},
                    map          : Nat,
                    outgoing     : Nat,
                    deltaMessage : Int,
                    gameStateNum : Int,
                    frames       : {sv.frames},
                    entities     : {sv.entities},
                    next         : {sv.next}]
        /\ sv'.state = "active" /\ sv'.map = sv.map
        /\ sv'.outgoing = sv.outgoing /\ sv'.gameStateNum = sv.gameStateNum
        /\ sv'.deltaMessage = delta
    BY <1>5, <1>6, <2>1
  <2>3. sv'.frames = sv.frames /\ sv'.entities = sv.entities /\ sv'.next = sv.next
    BY <2>2
  <2> QED
    BY <2>2, <2>3 DEF IsServer
<1>8. sv'.deltaMessage > 0 => Holds(cl, sv'.deltaMessage)
  <2>1. CASE sv.state = "active" /\ p.delta
    BY <1>1, <1>3, <1>4, <1>7, <2>1 DEF PacketIsSound
  <2>2. CASE ~(sv.state = "active" /\ p.delta)
    BY <1>4, <1>7, <2>2
  <2> QED
    BY <2>1, <2>2
<1>9. ServerIsSound(sv', cl)
  BY <1>3, <1>7, <1>8 DEF IInv, ServerIsSound
<1>10. /\ \A x : PacketIsSound(sv, cl, x) => PacketIsSound(sv', cl, x)
       /\ \A x : MessageIsSound(sv, cl, x) => MessageIsSound(sv', cl, x)
  <2>1. sv.outgoing \in Nat /\ sv.outgoing <= sv'.outgoing
    BY <1>7, Ends
  <2> QED
    BY <1>7, <2>1, SameGameState
<1> QED
  BY <1>9, <1>10 DEF IInv

LEMMA ReceiveStep ==
    ASSUME IInv, NEW i \in 1 .. Len(toServer), SvReceive(i)
    PROVE  IInv'
<1>1. PICK p : p = toServer[i]
  OBVIOUS
<1>2. PICK t : t = Primed(sv)
  OBVIOUS
<1>3. /\ toServer' = AfterArrival(toServer, i) /\ cl' = cl
      /\ \/ p.map # sv.map /\ p.ack > sv.gameStateNum /\ Sends(t, GameState(t))
         \/ sv' = AfterMove(sv, p) /\ p.map = sv.map /\ toClient' = toClient
         \/ sv' = sv /\ toClient' = toClient
  BY <1>1, <1>2 DEF SvReceive, Primed
<1>4. /\ toServer' \in Seq(Packet)
      /\ Elements(toServer') \subseteq Elements(toServer)
      /\ p \in Elements(toServer)
  BY <1>1, <1>3, PacketArrived DEF IInv
<1>5. CASE p.map # sv.map /\ p.ack > sv.gameStateNum /\ Sends(t, GameState(t))
  BY <1>2, <1>3, <1>4, <1>5, SendGameStateStep
<1>6. CASE sv' = AfterMove(sv, p) /\ p.map = sv.map /\ toClient' = toClient
  BY <1>3, <1>4, <1>6, MoveStep
<1>7. CASE sv' = sv /\ toClient' = toClient
  BY <1>3, <1>4, <1>7 DEF IInv
<1> QED
  BY <1>3, <1>5, <1>6, <1>7

-----------------------------------------------------------------------------
(* CL_ParseSnapshot, of the oldest message that is not lost. *)
LEMMA ReadSnapshotStep ==
    ASSUME IInv, NEW m \in Elements(toClient), m.kind = "snapshot",
           cl' = AfterSnapshot(cl, m), sv' = sv, toServer' = toServer,
           toClient' \in Seq(Elements(toClient')), SentInOrder(toClient'),
           Elements(toClient') \subseteq Elements(toClient),
           \A x \in Elements(toClient') : m.sequence < x.sequence
    PROVE  IInv'
<1>1. MessageIsSound(sv, cl, m) /\ IsMessage(m)
  BY DEF IInv, MessageIsSound
<1>2. /\ cl.sequence < m.sequence /\ m.sequence < sv.outgoing
      /\ m.sequence \in Nat /\ cl.sequence \in Nat
  BY <1>1, Ends DEF MessageIsSound, IsMessage
<1>3. /\ ClientIsSound(cl') /\ cl'.map = cl.map /\ cl'.sequence = m.sequence
      /\ \A b : Holds(cl, b) => Holds(cl', b)
  BY <1>1, <1>2, Ends, SnapshotIsSound
<1>4. ServerIsSound(sv, cl')
  BY <1>2, <1>3 DEF IInv, ServerIsSound
<1>5. ASSUME NEW p \in Elements(toServer)
      PROVE  PacketIsSound(sv, cl', p)
  <2>1. PacketIsSound(sv, cl, p)
    BY DEF IInv
  <2>2. p.ack \in Nat /\ p.ack <= cl.sequence
    BY <2>1 DEF PacketIsSound, Packet
  <2>3. p.ack <= cl'.sequence
    BY <1>2, <1>3, <2>2
  <2> QED
    BY <1>3, <2>1, <2>3 DEF PacketIsSound
<1>6. ASSUME NEW x \in Elements(toClient')
      PROVE  MessageIsSound(sv, cl', x)
  <2>1. MessageIsSound(sv, cl, x)
    BY DEF IInv
  <2>2. cl'.sequence < x.sequence
    BY <1>3
  <2> QED
    BY <1>3, <2>1, <2>2 DEF MessageIsSound
<1> QED
  BY <1>3, <1>4, <1>5, <1>6 DEF IInv

(* CL_ParseGamestate: what is on its way now is of an earlier map, or was   *)
(* sent after the gamestate.                                                *)
LEMMA ReadGameStateStep ==
    ASSUME IInv, NEW m \in Elements(toClient), m.kind = "gamestate",
           cl' = AfterGameState(cl, m), sv' = sv, toServer' = toServer,
           toClient' \in Seq(Elements(toClient')), SentInOrder(toClient'),
           Elements(toClient') \subseteq Elements(toClient),
           \A x \in Elements(toClient') : m.sequence < x.sequence
    PROVE  IInv'
<1>1. MessageIsSound(sv, cl, m) /\ IsMessage(m)
  BY DEF IInv, MessageIsSound
<1>2. /\ cl.sequence < m.sequence /\ m.sequence < sv.outgoing
      /\ m.sequence \in Nat /\ m.sequence > 0 /\ cl.sequence \in Nat
      /\ m.sequence = sv.gameStateNum
      /\ m.map \in Nat /\ cl.map \in Nat /\ sv.map \in Nat
      /\ cl.map < m.map /\ m.map <= sv.map
  BY <1>1, Ends DEF MessageIsSound, IsMessage
<1>3. ClientIsSound(cl') /\ cl'.map = m.map /\ cl'.sequence = m.sequence
  BY <1>1, <1>2, Ends, GameStateIsSound
<1>4. sv.state # "active"
  <2>1. cl.map # sv.map
    BY <1>2
  <2> QED
    BY <2>1 DEF IInv, ServerIsSound
<1>5. ServerIsSound(sv, cl')
  BY <1>2, <1>3, <1>4 DEF IInv, ServerIsSound
<1>6. ASSUME NEW p \in Elements(toServer)
      PROVE  PacketIsSound(sv, cl', p)
  <2>1. PacketIsSound(sv, cl, p)
    BY DEF IInv
  <2>2. /\ p.ack \in Nat /\ p.ack <= cl.sequence
        /\ p.map \in Nat /\ p.map <= cl.map
    BY <2>1 DEF PacketIsSound, Packet
  <2>3. /\ p.ack <= cl'.sequence /\ p.map <= cl'.map /\ p.map # cl'.map
        /\ ~(p.ack > sv.gameStateNum)
    BY <1>2, <1>3, <2>2
  <2> QED
    BY <2>1, <2>3 DEF PacketIsSound
<1>7. ASSUME NEW x \in Elements(toClient')
      PROVE  MessageIsSound(sv, cl', x)
  <2>1. MessageIsSound(sv, cl, x)
    BY DEF IInv
  <2>2. m.sequence < x.sequence /\ x.sequence \in Nat /\ x.map \in Nat
    BY <2>1 DEF MessageIsSound, IsMessage
  <2>3. x.kind # "gamestate"
    <3>1. x.sequence # sv.gameStateNum
      BY <1>2, <2>2
    <3> QED
      BY <2>1, <3>1 DEF MessageIsSound
  <2>4. x.delta # 0 => x.map <= cl'.map /\ x.map # cl'.map
    <3>1. x.delta # 0 => x.map <= cl.map
      BY <2>1 DEF MessageIsSound
    <3> QED
      BY <1>2, <1>3, <2>2, <3>1
  <2> QED
    BY <1>3, <2>1, <2>2, <2>3, <2>4 DEF MessageIsSound
<1> QED
  BY <1>3, <1>5, <1>6, <1>7 DEF IInv

LEMMA ClientReceiveStep ==
    ASSUME IInv, NEW i \in 1 .. Len(toClient), ClReceive(i)
    PROVE  IInv'
<1>1. PICK m : m = toClient[i]
  OBVIOUS
<1>2. /\ toClient' = AfterArrival(toClient, i)
      /\ sv' = sv /\ toServer' = toServer
      /\ cl' = IF m.kind = "gamestate" THEN AfterGameState(cl, m)
               ELSE AfterSnapshot(cl, m)
  BY <1>1 DEF ClReceive
<1>3. /\ toClient' \in Seq(Elements(toClient')) /\ SentInOrder(toClient')
      /\ Elements(toClient') \subseteq Elements(toClient)
      /\ m \in Elements(toClient)
      /\ \A x \in Elements(toClient') : m.sequence < x.sequence
  BY <1>1, <1>2, MessageArrived DEF IInv
<1>4. m.kind \in {"snapshot", "gamestate"}
  BY <1>3 DEF IInv, MessageIsSound, IsMessage
<1>5. CASE m.kind = "gamestate"
  BY <1>2, <1>3, <1>5, ReadGameStateStep
<1>6. CASE m.kind = "snapshot"
  BY <1>2, <1>3, <1>6, ReadSnapshotStep
<1> QED
  BY <1>4, <1>5, <1>6

-----------------------------------------------------------------------------
LEMMA InitialState ==
    ASSUME Init
    PROVE  IInv
<1>1. PICK svFrames, svBlank, clBlank, frames :
         /\ svFrames = [k \in 0 .. Backup - 1 |-> NoServerFrame]
         /\ svBlank = Blank(NumSnapshotEntities)
         /\ clBlank = Blank(MaxParseEntities)
         /\ frames = [k \in 0 .. Backup - 1 |-> NoClientFrame]
  OBVIOUS
<1>2. /\ sv = [state |-> "primed", map |-> 1, outgoing |-> 2,
               deltaMessage |-> -1, gameStateNum |-> 1,
               frames |-> svFrames, entities |-> svBlank, next |-> 0]
      /\ cl = [map |-> 1, sequence |-> 1, snap |-> 0, snapshots |-> frames,
               entities |-> clBlank, next |-> 0]
      /\ toServer = <<>> /\ toClient = <<>>
  BY <1>1 DEF Init
<1>3. IsServer(sv) /\ sv.state = "primed" /\ sv.map = 1 /\ sv.outgoing = 2
      /\ sv.gameStateNum = 1
  BY <1>2 DEF IsServer
<1>4. /\ cl.map = 1 /\ cl.sequence = 1 /\ cl.snap = 0 /\ cl.snapshots = frames
      /\ cl \in [map       : Nat,
                 sequence  : Nat \ {0},
                 snap      : Nat,
                 snapshots : {cl.snapshots},
                 entities  : {cl.entities},
                 next      : {cl.next}]
  BY <1>2
<1>5. IsFrame(NoClientFrame)
  BY DEF IsFrame, NoClientFrame
<1>6. /\ frames = [k \in 0 .. Backup - 1 |-> frames[k]]
      /\ \A k \in 0 .. Backup - 1 : IsFrame(frames[k])
  BY <1>1, <1>5
<1>7. IsClient(cl)
  BY <1>4, <1>6 DEF IsClient
<1>8. ClientIsSound(cl)
  BY <1>4, <1>7 DEF ClientIsSound, RingIsSound
<1>9. ServerIsSound(sv, cl)
  BY <1>3, <1>4 DEF ServerIsSound
<1>10. Elements(toServer) = {} /\ Elements(toClient) = {}
  BY <1>2 DEF Elements
<1>11. /\ toServer \in Seq(Packet)
       /\ toClient \in Seq(Elements(toClient)) /\ SentInOrder(toClient)
  BY <1>2 DEF SentInOrder
<1> QED
  BY <1>8, <1>9, <1>10, <1>11 DEF IInv

LEMMA Invariance == Spec => []IInv
<1>1. Init => IInv
  BY InitialState
<1>2. IInv /\ [Next]_vars => IInv'
  <2> SUFFICES ASSUME IInv, [Next]_vars
               PROVE  IInv'
    OBVIOUS
  <2>1. CASE SvSendSnapshot
    BY <2>1, SendSnapshotStep
  <2>2. CASE SvBuildForOther
    BY <2>2, BuildForOtherStep
  <2>3. CASE SvSpawnServer
    BY <2>3, SpawnServerStep
  <2>4. CASE \E i \in DOMAIN toClient : ClReceive(i)
    <3>1. DOMAIN toClient = 1 .. Len(toClient)
      BY LenProperties DEF IInv
    <3> QED
      BY <2>4, <3>1, ClientReceiveStep
  <2>5. CASE ClWritePacket
    BY <2>5, WritePacketStep
  <2>6. CASE \E i \in DOMAIN toServer : SvReceive(i)
    <3>1. DOMAIN toServer = 1 .. Len(toServer)
      BY LenProperties DEF IInv
    <3> QED
      BY <2>6, <3>1, ReceiveStep
  <2>7. CASE UNCHANGED vars
    BY <2>7 DEF vars, IInv
  <2> QED
    BY <2>1, <2>2, <2>3, <2>4, <2>5, <2>6, <2>7 DEF Next
<1> QED
  BY <1>1, <1>2, PTL DEF Spec

(* "so if there was a dropped packet it won't look like something valid"    *)
(* (cl_parse.c:292-303): CL_GetSnapshot gives the snapshot with the number  *)
(* it is asked for or none, for every size of the ring, however many        *)
(* messages are lost or invalid and however often the map changes.          *)
THEOREM SlotsCorrect == Spec => []SlotsHoldTheirNumber
<1>1. IInv => SlotsHoldTheirNumber
  BY DEF IInv, ClientIsSound, RingIsSound, SlotsHoldTheirNumber
<1> QED
  BY <1>1, Invariance, PTL

(* "Delta from invalid frame (not supposed to happen!)"                     *)
(* (cl_parse.c:249-255): when a delta arrives in the map it was built in,   *)
(* its base is in the client's ring, by the acknowledgement the server      *)
(* took it from (sv_snapshot.c:137-160).                                    *)
THEOREM BaseHeld == Spec => []BaseIsHeld
<1>1. ASSUME IInv
      PROVE  BaseIsHeld
  <2> SUFFICES ASSUME NEW i \in DOMAIN toClient,
                      toClient[i].delta # 0, toClient[i].map = cl.map
               PROVE  /\ BaseOf(cl, toClient[i]).valid
                      /\ BaseOf(cl, toClient[i]).messageNum
                            = toClient[i].sequence - toClient[i].delta
    BY DEF BaseIsHeld
  <2>1. PICK m : m = toClient[i]
    OBVIOUS
  <2>2. MessageIsSound(sv, cl, m)
    <3>1. DOMAIN toClient = 1 .. Len(toClient)
      BY <1>1, LenProperties DEF IInv
    <3>2. m \in Elements(toClient)
      BY <2>1, <3>1 DEF Elements
    <3> QED
      BY <1>1, <3>2 DEF IInv
  <2>3. PICK b : b = m.sequence - m.delta
    OBVIOUS
  <2>4. Holds(cl, b) /\ m.delta < Backup
    BY <2>1, <2>2, <2>3 DEF MessageIsSound
  <2>5. cl.snap - b < Backup
    <3>1. /\ m.sequence \in Nat /\ m.delta \in Nat /\ cl.sequence < m.sequence
      BY <2>2 DEF MessageIsSound, IsMessage
    <3>2. cl.snap \in Nat /\ cl.sequence \in Nat /\ cl.snap <= cl.sequence
      BY <1>1, Ends
    <3> QED
      BY <2>3, <2>4, <3>1, <3>2, Limits
  <2>6. cl.snapshots[Slot(b)].valid /\ cl.snapshots[Slot(b)].messageNum = b
    BY <2>4, <2>5 DEF Holds
  <2> QED
    BY <2>1, <2>3, <2>6 DEF BaseOf
<1> QED
  BY <1>1, Invariance, PTL

-----------------------------------------------------------------------------
(* Numbers in their order. *)

IsAscending(s, S) ==
    /\ s \in [1 .. Cardinality(S) -> S]
    /\ \A n \in S : \E i \in DOMAIN s : s[i] = n
    /\ \A i, j \in DOMAIN s : i < j => s[i] < s[j]

LEMMA AscendingOne ==
    ASSUME NEW k \in Nat \ {0}, NEW S \in SUBSET (1 .. k), k \in S,
           NEW t, IsAscending(t, S \ {k})
    PROVE  \E s : IsAscending(s, S)
<1>1. PICK T : T = S \ {k}
  OBVIOUS
<1>2. IsFiniteSet(S) /\ IsFiniteSet(T)
  <2>1. IsFiniteSet(1 .. k)
    BY FS_Interval
  <2> QED
    BY <1>1, <2>1, FS_Subset
<1>3. PICK c : c = Cardinality(T)
  OBVIOUS
<1>4. c \in Nat /\ Cardinality(S) = c + 1
  <2>1. Cardinality(T) = Cardinality(S) - 1 /\ Cardinality(S) \in Nat /\ Cardinality(T) \in Nat
    BY <1>1, <1>2, FS_RemoveElement, FS_CardinalityType
  <2> QED
    BY <1>3, <2>1
<1>5. PICK s : s = [i \in 1 .. c + 1 |-> IF i = c + 1 THEN k ELSE t[i]]
  OBVIOUS
<1>6. /\ t \in [1 .. c -> T]
      /\ \A n \in T : \E i \in 1 .. c : t[i] = n
      /\ \A i, j \in 1 .. c : i < j => t[i] < t[j]
  BY <1>1, <1>3 DEF IsAscending
<1>7. \A i \in 1 .. c + 1 : i = c + 1 \/ i \in 1 .. c
  BY <1>4
<1>8. \A i \in 1 .. c : /\ i # c + 1 /\ i \in 1 .. c + 1
                        /\ s[i] = t[i] /\ s[i] \in T
  BY <1>4, <1>5, <1>6
<1>9. s[c + 1] = k /\ c + 1 \in 1 .. c + 1
  BY <1>4, <1>5
<1>10. s \in [1 .. Cardinality(S) -> S]
  BY <1>1, <1>4, <1>5, <1>7, <1>8, <1>9
<1>11. \A n \in S : \E i \in 1 .. c + 1 : s[i] = n
  <2> SUFFICES ASSUME NEW n \in S
               PROVE  \E i \in 1 .. c + 1 : s[i] = n
    OBVIOUS
  <2>1. CASE n = k
    BY <1>9, <2>1
  <2>2. CASE n # k
    <3>1. PICK i \in 1 .. c : t[i] = n
      BY <1>1, <1>6, <2>2
    <3> QED
      BY <1>8, <3>1
  <2> QED
    BY <2>1, <2>2
<1>12. \A i, j \in 1 .. c + 1 : i < j => s[i] < s[j]
  <2> SUFFICES ASSUME NEW i \in 1 .. c + 1, NEW j \in 1 .. c + 1, i < j
               PROVE  s[i] < s[j]
    OBVIOUS
  <2>1. i \in 1 .. c
    BY <1>4
  <2>2. CASE j = c + 1
    <3>1. s[i] \in 1 .. k /\ s[i] # k
      BY <1>1, <1>8, <2>1
    <3>2. s[i] < k
      BY <3>1
    <3> QED
      BY <1>9, <2>2, <3>2
  <2>3. CASE j \in 1 .. c
    BY <1>6, <1>8, <2>1, <2>3
  <2> QED
    BY <1>7, <2>2, <2>3
<1>13. DOMAIN s = 1 .. c + 1
  BY <1>5
<1>14. IsAscending(s, S)
  BY <1>10, <1>11, <1>12, <1>13 DEF IsAscending
<1> QED
  BY <1>14

(* Numbers can be put in their order. *)
LEMMA AscendingExists ==
    ASSUME NEW n \in Nat, NEW S \in SUBSET (1 .. n)
    PROVE  IsAscending(Ascending(S), S)
<1>1. PICK K : K = {k \in 0 .. n : \A A \in SUBSET (1 .. k) : \E s : IsAscending(s, A)}
  OBVIOUS
<1>2. 0 \in K
  <2> SUFFICES ASSUME NEW A \in SUBSET (1 .. 0)
               PROVE  \E s : IsAscending(s, A)
    BY <1>1
  <2>1. A = {} /\ Cardinality(A) = 0
    <3>1. A = {}
      OBVIOUS
    <3> QED
      BY <3>1, FS_EmptySet
  <2>2. PICK s : s = [i \in 1 .. 0 |-> i]
    OBVIOUS
  <2>3. IsAscending(s, A)
    BY <2>1, <2>2 DEF IsAscending
  <2> QED
    BY <2>3
<1>3. ASSUME NEW k \in 1 .. n, k - 1 \in K
      PROVE  k \in K
  <2> SUFFICES ASSUME NEW A \in SUBSET (1 .. k)
               PROVE  \E s : IsAscending(s, A)
    BY <1>1
  <2>1. A \ {k} \in SUBSET (1 .. k - 1) /\ k \in Nat \ {0}
    OBVIOUS
  <2>2. PICK t : IsAscending(t, A \ {k})
    BY <1>1, <1>3, <2>1
  <2>3. CASE k \in A
    BY <2>1, <2>2, <2>3, AscendingOne
  <2>4. CASE k \notin A
    <3>1. A \ {k} = A
      BY <2>4
    <3> QED
      BY <2>2, <3>1
  <2> QED
    BY <2>3, <2>4
<1>4. n \in K
  <2>1. \A k \in 0 .. n : k \in K
    BY <1>2, <1>3, IntervalInduction
  <2> QED
    BY <2>1
<1>5. PICK s : IsAscending(s, S)
  BY <1>1, <1>4
<1> DEFINE P(u) == /\ \A m \in S : \E i \in DOMAIN u : u[i] = m
                   /\ \A i, j \in DOMAIN u : i < j => u[i] < u[j]
<1>6. s \in [1 .. Cardinality(S) -> S] /\ P(s)
  BY <1>5 DEF IsAscending
<1>7. Ascending(S) = CHOOSE u \in [1 .. Cardinality(S) -> S] : P(u)
  BY DEF Ascending
<1> HIDE DEF P
<1>8. Ascending(S) \in [1 .. Cardinality(S) -> S] /\ P(Ascending(S))
  BY <1>6, <1>7
<1> QED
  BY <1>8 DEF P, IsAscending

(* The order, as a sequence. *)
LEMMA AscendingParts ==
    ASSUME NEW n \in Nat, NEW S \in SUBSET (1 .. n)
    PROVE  /\ Cardinality(S) \in Nat
           /\ Ascending(S) \in Seq(S) /\ Len(Ascending(S)) = Cardinality(S)
           /\ DOMAIN Ascending(S) = 1 .. Cardinality(S)
           /\ \A i \in 1 .. Cardinality(S) : Ascending(S)[i] \in S
           /\ \A m \in S : \E i \in 1 .. Cardinality(S) : Ascending(S)[i] = m
           /\ \A i, j \in 1 .. Cardinality(S) :
                 i < j => Ascending(S)[i] < Ascending(S)[j]
<1>1. IsAscending(Ascending(S), S)
  BY AscendingExists
<1>2. IsFiniteSet(S)
  <2>1. IsFiniteSet(1 .. n)
    BY FS_Interval
  <2> QED
    BY <2>1, FS_Subset
<1>3. Cardinality(S) \in Nat
  BY <1>2, FS_CardinalityType
<1>4. Ascending(S) \in Seq(S)
  BY <1>1, <1>3, SeqDef DEF IsAscending
<1> QED
  BY <1>1, <1>3, <1>4, LenProperties DEF IsAscending

-----------------------------------------------------------------------------
(* What a snapshot and its delta are made of. *)

LEMMA Sizes ==
    /\ NumSnapshotEntities \in Nat \ {0} /\ MaxParseEntities \in Nat \ {0}
    /\ ParseMargin \in Nat \ {0} /\ EndOfEntities \in Nat \ {0}
    /\ MaxSequence \in Nat \ {0} /\ MaxSpawns \in Nat /\ MaxEvents \in Nat
    /\ MaxInFlight \in Nat \ {0}
  BY SnapshotDeltaAssumption, SendPathAssumption

LEMMA VersionParts ==
    /\ 0 \in Versions
    /\ \A n \in 0 .. MaxSequence : n \in Versions
    /\ \A map \in 1 .. MaxSpawns + 1 : -map \in Versions
    /\ Garbled \in Versions /\ NoEntity \in Entity
<1>1. /\ 0 \in -MaxSpawns - 1 .. MaxSequence
      /\ \A n \in 0 .. MaxSequence : n \in -MaxSpawns - 1 .. MaxSequence
      /\ \A map \in 1 .. MaxSpawns + 1 : -map \in -MaxSpawns - 1 .. MaxSequence
  BY Sizes
<1> QED
  BY <1>1 DEF Versions, NoEntity, Entity

(* A function from 1 .. n is a sequence.                                    *)
LEMMA SequenceMade ==
    ASSUME NEW S, NEW n \in Nat, NEW f \in [1 .. n -> S]
    PROVE  f \in Seq(S) /\ Len(f) = n /\ DOMAIN f = 1 .. n
<1>1. f \in Seq(S)
  BY SeqDef
<1> QED
  BY <1>1, LenProperties

LEMMA SequenceTaken ==
    ASSUME NEW S, NEW f \in Seq(S)
    PROVE  /\ Len(f) \in Nat /\ DOMAIN f = 1 .. Len(f)
           /\ f \in [1 .. Len(f) -> S]
           /\ \A i \in 1 .. Len(f) : f[i] \in S
  BY LenProperties, ElementOfSeq

LEMMA ViewParts ==
    ASSUME NEW view \in Views
    PROVE  /\ EndOfEntities - 1 \in Nat /\ view \in SUBSET (1 .. EndOfEntities - 1)
           /\ Cardinality(view) \in Nat /\ IsFiniteSet(view)
           /\ DOMAIN Ascending(view) = 1 .. Cardinality(view)
           /\ \A i \in 1 .. Cardinality(view) :
                 Ascending(view)[i] \in view /\ Ascending(view)[i] \in Nat \ {0}
<1>1. EndOfEntities - 1 \in Nat /\ view \in SUBSET (1 .. EndOfEntities - 1)
  BY Sizes, SnapshotDeltaAssumption
<1>2. IsFiniteSet(view)
  <2>1. IsFiniteSet(1 .. EndOfEntities - 1)
    BY <1>1, FS_Interval
  <2> QED
    BY <1>1, <2>1, FS_Subset
<1>3. /\ Cardinality(view) \in Nat
      /\ DOMAIN Ascending(view) = 1 .. Cardinality(view)
      /\ \A i \in 1 .. Cardinality(view) : Ascending(view)[i] \in view
  BY <1>1, AscendingParts
<1>4. \A n \in view : n \in Nat \ {0}
  BY <1>1
<1> QED
  BY <1>1, <1>2, <1>3, <1>4

LEMMA SeenParts ==
    ASSUME NEW view \in Views, NEW n \in 0 .. MaxSequence,
           NEW e, e = Seen(view, n)
    PROVE  /\ e \in Seq(Entity) /\ Len(e) = Cardinality(view)
           /\ \A i \in 1 .. Cardinality(view) : e[i].number = Ascending(view)[i]
<1>1. PICK numbers : numbers = Ascending(view)
  OBVIOUS
<1>2. /\ DOMAIN numbers = 1 .. Cardinality(view) /\ Cardinality(view) \in Nat
      /\ \A i \in 1 .. Cardinality(view) : numbers[i] \in Nat
  BY <1>1, ViewParts
<1>3. e = [i \in 1 .. Cardinality(view) |->
             [number  |-> numbers[i],
              version |-> IF numbers[i] \in Unchanging THEN 0 ELSE n]]
  BY <1>1, <1>2 DEF Seen
<1>4. \A i \in 1 .. Cardinality(view) : e[i] \in Entity /\ e[i].number = numbers[i]
  BY <1>2, <1>3, VersionParts DEF Entity
<1>5. e \in [1 .. Cardinality(view) -> Entity]
  BY <1>3, <1>4
<1> QED
  BY <1>1, <1>2, <1>4, <1>5, SequenceMade

LEMMA Found ==
    ASSUME NEW e \in Seq(Entity), NEW n, HasNumber(e, n)
    PROVE  \E i \in 1 .. Len(e) : e[i].number = n /\ WithNumber(e, n) = e[i]
<1>1. DOMAIN e = 1 .. Len(e)
  BY SequenceTaken
<1>2. PICK i : i = CHOOSE j \in 1 .. Len(e) : e[j].number = n
  OBVIOUS
<1>3. i \in 1 .. Len(e) /\ e[i].number = n
  BY <1>1, <1>2 DEF HasNumber
<1>4. WithNumber(e, n) = e[i]
  BY <1>1, <1>2 DEF WithNumber
<1> QED
  BY <1>3, <1>4

LEMMA FoundType ==
    ASSUME NEW e \in Seq(Entity), NEW n, HasNumber(e, n)
    PROVE  WithNumber(e, n).version \in Versions
<1>1. PICK i \in 1 .. Len(e) : WithNumber(e, n) = e[i]
  BY Found
<1>2. e[i] \in Entity
  BY SequenceTaken
<1> QED
  BY <1>1, <1>2 DEF Entity

(* SV_EmitPacketEntities writes the changes by number.                      *)
Mentioned(old, new) ==
    {n \in 1 .. EndOfEntities - 1 : IsMentioned(old, new, n)}

LEMMA ChangesParts ==
    ASSUME NEW old \in Seq(Entity), NEW new \in Seq(Entity),
           NEW map \in 1 .. MaxSpawns + 1,
           NEW U, U = Mentioned(old, new)
    PROVE  /\ Changes(old, new, map) \in Seq(Change)
           /\ Cardinality(U) \in Nat /\ U \in SUBSET (1 .. EndOfEntities - 1)
           /\ Len(Changes(old, new, map)) = Cardinality(U)
           /\ \A i \in 1 .. Cardinality(U) :
                 Changes(old, new, map)[i] = ChangeOf(old, new, map, Ascending(U)[i])
<1>1. EndOfEntities - 1 \in Nat /\ U \in SUBSET (1 .. EndOfEntities - 1)
  BY Sizes DEF Mentioned
<1>2. PICK numbers : numbers = Ascending(U)
  OBVIOUS
<1>3. /\ Cardinality(U) \in Nat /\ DOMAIN numbers = 1 .. Cardinality(U)
      /\ \A i \in 1 .. Cardinality(U) : numbers[i] \in 1 .. EndOfEntities - 1
  BY <1>1, <1>2, AscendingParts
<1>4. Changes(old, new, map) =
         [i \in 1 .. Cardinality(U) |-> ChangeOf(old, new, map, numbers[i])]
  BY <1>2, <1>3 DEF Changes, Mentioned
<1>5. ASSUME NEW n \in 1 .. EndOfEntities - 1
      PROVE  ChangeOf(old, new, map, n) \in Change
  <2>1. PICK from :
           from = IF HasNumber(old, n) THEN WithNumber(old, n).version ELSE -map
    OBVIOUS
  <2>2. from \in Versions
    BY <2>1, FoundType, VersionParts
  <2>3. n \in Nat \ {0}
    OBVIOUS
  <2>4. CASE HasNumber(new, n)
    <3>1. WithNumber(new, n).version \in Versions
      BY <2>4, FoundType
    <3> QED
      BY <2>1, <2>2, <2>3, <2>4, <3>1 DEF ChangeOf, Change
  <2>5. CASE ~HasNumber(new, n)
    BY <2>1, <2>2, <2>3, <2>5, VersionParts DEF ChangeOf, Change
  <2> QED
    BY <2>4, <2>5
<1>6. Changes(old, new, map) \in [1 .. Cardinality(U) -> Change]
  BY <1>3, <1>4, <1>5
<1> QED
  BY <1>1, <1>2, <1>3, <1>4, <1>6, SequenceMade

-----------------------------------------------------------------------------
(* Types: the server. *)

(* The ring after it has taken these entities, from number next on.          *)
RingTakes(old, new, next, seen) ==
    /\ \A k \in 0 .. NumSnapshotEntities - 1 :
          (\A i \in 1 .. Len(seen) : SvSlot(next + i - 1) # k) => new[k] = old[k]
    /\ Len(seen) <= NumSnapshotEntities =>
          \A i \in 1 .. Len(seen) : new[SvSlot(next + i - 1)] = seen[i]

LEMMA CopiedType ==
    ASSUME NEW s \in ServerHalf, NEW seen \in Seq(Entity),
           NEW t, t = Copied(s, seen)
    PROVE  /\ t \in ServerHalf /\ t.next = s.next + Len(seen)
           /\ t.frames = s.frames
           /\ t.state = s.state /\ t.map = s.map /\ t.outgoing = s.outgoing
           /\ t.deltaMessage = s.deltaMessage
           /\ t.gameStateNum = s.gameStateNum
           /\ RingTakes(s.entities, t.entities, s.next, seen)
<1>1. /\ Len(seen) \in Nat /\ DOMAIN seen = 1 .. Len(seen)
      /\ \A i \in 1 .. Len(seen) : seen[i] \in Entity
  BY SequenceTaken
<1>2. /\ s.next \in Nat /\ s.entities \in [0 .. NumSnapshotEntities - 1 -> Entity]
      /\ DOMAIN s.entities = 0 .. NumSnapshotEntities - 1
  BY DEF ServerHalf
<1> DEFINE Last(k) == CHOOSE i \in 1 .. Len(seen) :
                         /\ SvSlot(s.next + i - 1) = k
                         /\ \A j \in i + 1 .. Len(seen) : SvSlot(s.next + j - 1) # k
           Taken(k) == \E i \in 1 .. Len(seen) : SvSlot(s.next + i - 1) = k
<1>3. PICK ring : ring = [k \in 0 .. NumSnapshotEntities - 1 |->
                            IF Taken(k) THEN seen[Last(k)] ELSE s.entities[k]]
  OBVIOUS
<1>4. t = [s EXCEPT !.next = s.next + Len(seen), !.entities = ring]
  BY <1>1, <1>2, <1>3 DEF Copied
<1>5. ASSUME NEW k, Taken(k)
      PROVE  Last(k) \in 1 .. Len(seen) /\ SvSlot(s.next + Last(k) - 1) = k
  <2>1. PICK I : I = {i \in 1 .. Len(seen) : SvSlot(s.next + i - 1) = k}
    OBVIOUS
  <2>2. PICK i \in I : \A j \in I : j <= i
    <3>1. I \in SUBSET Nat /\ I # {} /\ \A j \in I : j <= Len(seen)
      BY <1>1, <1>5, <2>1
    <3> QED
      BY <1>1, <3>1, GreatestExists
  <2>3. \A j \in i + 1 .. Len(seen) : SvSlot(s.next + j - 1) # k
    <3> SUFFICES ASSUME NEW j \in i + 1 .. Len(seen), SvSlot(s.next + j - 1) = k
                 PROVE  FALSE
      OBVIOUS
    <3>1. i \in 1 .. Len(seen)
      BY <2>1, <2>2
    <3>2. j \in 1 .. Len(seen) /\ ~(j <= i)
      BY <1>1, <3>1
    <3> QED
      BY <2>1, <2>2, <3>2
  <2>4. \E j \in 1 .. Len(seen) :
           /\ SvSlot(s.next + j - 1) = k
           /\ \A x \in j + 1 .. Len(seen) : SvSlot(s.next + x - 1) # k
    BY <2>1, <2>2, <2>3
  <2> QED
    BY <2>4
<1>6. ring \in [0 .. NumSnapshotEntities - 1 -> Entity]
  <2> SUFFICES ASSUME NEW k \in 0 .. NumSnapshotEntities - 1
               PROVE  (IF Taken(k) THEN seen[Last(k)] ELSE s.entities[k]) \in Entity
    BY <1>3
  <2>1. CASE Taken(k)
    <3>1. Last(k) \in 1 .. Len(seen)
      BY <1>5, <2>1
    <3> HIDE DEF Last, Taken
    <3> QED
      BY <1>1, <2>1, <3>1
  <2>2. CASE ~Taken(k)
    BY <1>2, <2>2
  <2> QED
    BY <2>1, <2>2
<1>7. s.next + Len(seen) \in Nat
  BY <1>1, <1>2
<1>8. RingTakes(s.entities, ring, s.next, seen)
  <2>1. ASSUME NEW k \in 0 .. NumSnapshotEntities - 1,
               \A i \in 1 .. Len(seen) : SvSlot(s.next + i - 1) # k
        PROVE  ring[k] = s.entities[k]
    <3>1. ~Taken(k)
      BY <2>1
    <3> HIDE DEF Last, Taken
    <3> QED
      BY <1>3, <3>1
  <2>2. ASSUME Len(seen) <= NumSnapshotEntities, NEW i \in 1 .. Len(seen)
        PROVE  ring[SvSlot(s.next + i - 1)] = seen[i]
    <3>1. PICK k : k = SvSlot(s.next + i - 1)
      OBVIOUS
    <3>2. s.next + i - 1 \in Nat
      BY <1>1, <1>2
    <3>3. k \in 0 .. NumSnapshotEntities - 1
      BY <3>1, <3>2, SlotType, Sizes DEF SvSlot
    <3>4. Taken(k)
      BY <3>1
    <3>5. \A j \in 1 .. Len(seen) : SvSlot(s.next + j - 1) = k => j = i
      <4> SUFFICES ASSUME NEW j \in 1 .. Len(seen), SvSlot(s.next + j - 1) = k, j # i
                   PROVE  FALSE
        OBVIOUS
      <4>1. PICK a, b : a = s.next + i - 1 /\ b = s.next + j - 1
        OBVIOUS
      <4>2. /\ a \in Nat /\ b \in Nat
            /\ \/ a < b /\ b - a < NumSnapshotEntities
               \/ b < a /\ a - b < NumSnapshotEntities
        <5>1. PICK n, l, K : n = s.next /\ l = Len(seen) /\ K = NumSnapshotEntities
          OBVIOUS
        <5>2. /\ n \in Nat /\ l \in Nat /\ K \in Nat /\ l <= K
              /\ i \in 1 .. l /\ j \in 1 .. l /\ i # j
              /\ a = n + i - 1 /\ b = n + j - 1
          BY <1>1, <1>2, <2>2, <4>1, <5>1, Sizes
        <5>3. /\ a \in Nat /\ b \in Nat
              /\ \/ a < b /\ b - a < K
                 \/ b < a /\ a - b < K
          BY <5>2
        <5> QED
          BY <5>1, <5>3
      <4>3. a % NumSnapshotEntities = b % NumSnapshotEntities
        BY <3>1, <4>1 DEF SvSlot
      <4> QED
        BY <4>2, <4>3, SlotsDiffer, Sizes
    <3>6. Last(k) = i
      BY <1>5, <3>4, <3>5
    <3> HIDE DEF Last, Taken
    <3> QED
      BY <1>3, <3>1, <3>3, <3>4, <3>6
  <2> QED
    BY <2>1, <2>2 DEF RingTakes
<1> HIDE DEF Last, Taken
<1>9. /\ t \in ServerHalf /\ t.next = s.next + Len(seen)
      /\ t.frames = s.frames
      /\ t.state = s.state /\ t.map = s.map /\ t.outgoing = s.outgoing
      /\ t.deltaMessage = s.deltaMessage
      /\ t.gameStateNum = s.gameStateNum /\ t.entities = ring
  BY <1>4, <1>6, <1>7 DEF ServerHalf
<1> QED
  BY <1>8, <1>9

(* SV_BuildClientSnapshot *)
LEMMA BuiltType ==
    ASSUME NEW s \in ServerHalf, s.outgoing <= MaxSequence,
           NEW seen \in Seq(Entity), NEW t, t = Built(s, seen)
    PROVE  /\ t \in ServerHalf /\ t.next = s.next + Len(seen)
           /\ t.state = s.state /\ t.map = s.map /\ t.outgoing = s.outgoing
           /\ t.deltaMessage = s.deltaMessage
           /\ t.gameStateNum = s.gameStateNum
           /\ RingTakes(s.entities, t.entities, s.next, seen)
           /\ t.frames[Slot(s.outgoing)] =
                 [ps |-> s.outgoing, first |-> s.next, count |-> Len(seen)]
           /\ \A k \in 0 .. Backup - 1 :
                 k # Slot(s.outgoing) => t.frames[k] = s.frames[k]
<1>1. PICK u : u = Copied(s, seen)
  OBVIOUS
<1>2. /\ u \in ServerHalf /\ u.next = s.next + Len(seen)
      /\ u.frames = s.frames
      /\ u.state = s.state /\ u.map = s.map /\ u.outgoing = s.outgoing
      /\ u.deltaMessage = s.deltaMessage
      /\ u.gameStateNum = s.gameStateNum
      /\ RingTakes(s.entities, u.entities, s.next, seen)
  BY <1>1, CopiedType
<1>3. /\ s.outgoing \in 1 .. MaxSequence + 1 /\ s.next \in Nat
      /\ s.frames \in [0 .. Backup - 1 -> ServerFrame]
  BY DEF ServerHalf
<1>4. PICK frame : frame = [ps |-> s.outgoing, first |-> s.next, count |-> Len(seen)]
  OBVIOUS
<1>5. frame \in ServerFrame
  <2>1. s.outgoing \in 0 .. MaxSequence /\ Len(seen) \in Nat
    BY <1>3, Sizes, SequenceTaken
  <2> QED
    BY <1>3, <1>4, <2>1 DEF ServerFrame
<1>6. PICK frames : frames = [s.frames EXCEPT ![Slot(s.outgoing)] = frame]
  OBVIOUS
<1>7. frames \in [0 .. Backup - 1 -> ServerFrame]
  BY <1>3, <1>5, <1>6
<1>8. t = [u EXCEPT !.frames = frames]
  BY <1>1, <1>2, <1>4, <1>6 DEF Built
<1>9. /\ t \in ServerHalf /\ t.next = u.next /\ t.entities = u.entities
      /\ t.state = u.state /\ t.map = u.map /\ t.outgoing = u.outgoing
      /\ t.deltaMessage = u.deltaMessage
      /\ t.gameStateNum = u.gameStateNum /\ t.frames = frames
  BY <1>2, <1>7, <1>8 DEF ServerHalf
<1>10. Slot(s.outgoing) \in 0 .. Backup - 1
  <2>1. s.outgoing \in Nat
    BY <1>3
  <2> QED
    BY <2>1, SlotOf
<1>11. /\ frames[Slot(s.outgoing)] = frame
       /\ \A k \in 0 .. Backup - 1 :
             k # Slot(s.outgoing) => frames[k] = s.frames[k]
  BY <1>3, <1>6, <1>10
<1> QED
  BY <1>1, <1>2, <1>4, <1>9, <1>11

LEMMA BaseEntitiesType ==
    ASSUME NEW s \in ServerHalf
    PROVE  /\ BaseEntities(s) \in Seq(Entity)
           /\ UsesDelta(s) =>
                 /\ BaseFrame(s) \in ServerFrame
                 /\ Slot(s.deltaMessage) \in 0 .. Backup - 1
                 /\ DOMAIN BaseEntities(s) = 1 .. BaseFrame(s).count
                 /\ Len(BaseEntities(s)) = BaseFrame(s).count
<1>1. CASE ~UsesDelta(s)
  BY <1>1 DEF BaseEntities
<1>2. CASE UsesDelta(s)
  <2>1. Slot(s.deltaMessage) \in 0 .. Backup - 1
    <3>1. s.deltaMessage \in Nat
      BY <1>2, Sizes DEF UsesDelta, ServerHalf
    <3> QED
      BY <3>1, SlotOf
  <2>2. BaseFrame(s) \in ServerFrame
    BY <2>1 DEF BaseFrame, ServerHalf
  <2>3. PICK f : f = BaseFrame(s)
    OBVIOUS
  <2>4. f.first \in Nat /\ f.count \in Nat
    BY <2>2, <2>3 DEF ServerFrame
  <2>5. BaseEntities(s) = [i \in 1 .. f.count |-> s.entities[SvSlot(f.first + i - 1)]]
    BY <1>2, <2>3 DEF BaseEntities
  <2>6. ASSUME NEW i \in 1 .. f.count
        PROVE  s.entities[SvSlot(f.first + i - 1)] \in Entity
    <3>1. f.first + i - 1 \in Nat
      BY <2>4
    <3>2. SvSlot(f.first + i - 1) \in 0 .. NumSnapshotEntities - 1
      BY <3>1, SlotType, Sizes DEF SvSlot
    <3> QED
      BY <3>2 DEF ServerHalf
  <2>7. BaseEntities(s) \in [1 .. f.count -> Entity]
    BY <2>5, <2>6
  <2> QED
    BY <2>1, <2>2, <2>3, <2>4, <2>7, SequenceMade
<1> QED
  BY <1>1, <1>2

(* SV_WriteSnapshotToClient; that the base is not a later message is part of *)
(* IInv.                                                                     *)
LEMMA SnapshotType ==
    ASSUME NEW s \in ServerHalf, s.outgoing <= MaxSequence,
           UsesDelta(s) => s.deltaMessage < s.outgoing,
           NEW seen \in Seq(Entity), NEW m, m = Snapshot(s, seen)
    PROVE  m \in ServerMessage
<1>1. /\ s.map \in 1 .. MaxSpawns + 1 /\ s.outgoing \in 1 .. MaxSequence
      /\ s.deltaMessage \in -1 .. MaxSequence
  BY Sizes DEF ServerHalf
<1>2. PICK delta, psFrom, changes :
         /\ delta = IF UsesDelta(s) THEN s.outgoing - s.deltaMessage ELSE 0
         /\ psFrom = IF UsesDelta(s) THEN BaseFrame(s).ps ELSE 0
         /\ changes = Changes(BaseEntities(s), seen, s.map)
  OBVIOUS
<1>3. delta \in 0 .. Backup
  <2>1. CASE UsesDelta(s)
    <3>1. ~(s.outgoing - s.deltaMessage >= Backup - DeltaMargin)
      BY <2>1 DEF UsesDelta, OutOfDate
    <3> QED
      BY <1>1, <1>2, <2>1, <3>1, Limits, Sizes
  <2>2. CASE ~UsesDelta(s)
    BY <1>2, <2>2, Limits
  <2> QED
    BY <2>1, <2>2
<1>4. psFrom \in 0 .. MaxSequence
  <2>1. UsesDelta(s) => BaseFrame(s).ps \in 0 .. MaxSequence
    BY BaseEntitiesType DEF ServerFrame
  <2> QED
    BY <1>2, <2>1, Sizes
<1>5. changes \in Seq(Change)
  BY <1>1, <1>2, BaseEntitiesType, ChangesParts
<1>6. (s.state = "active") \in BOOLEAN
  OBVIOUS
<1>7. m = [kind |-> "snapshot", sequence |-> s.outgoing, map |-> s.map,
           active |-> s.state = "active", delta |-> delta, psFrom |-> psFrom,
           changes |-> changes, entities |-> seen]
  BY <1>2 DEF Snapshot
<1> QED
  BY <1>1, <1>3, <1>4, <1>5, <1>6, <1>7 DEF ServerMessage

(* The network takes messages of any type, and no more than it may. *)
LEMMA FlyingType ==
    ASSUME NEW M, NEW f \in Seq(M), Len(f) <= MaxInFlight, NEW m \in M,
           NEW g, g = Flying(f, m)
    PROVE  g \in Seq(M) /\ Len(g) <= MaxInFlight
<1>1. Len(f) \in Nat /\ MaxInFlight \in Nat \ {0}
  BY SequenceTaken, Sizes
<1>2. CASE Len(f) < MaxInFlight
  <2>1. g = Append(f, m)
    BY <1>2 DEF Flying
  <2>2. Append(f, m) \in Seq(M) /\ Len(Append(f, m)) = Len(f) + 1
    BY AppendProperties
  <2> QED
    BY <1>1, <1>2, <2>1, <2>2
<1>3. CASE ~(Len(f) < MaxInFlight)
  <2>1. f # <<>>
    BY <1>1, <1>3
  <2>2. Tail(f) \in Seq(M) /\ Len(Tail(f)) = Len(f) - 1
    BY <2>1, HeadTailProperties
  <2>3. g = Append(Tail(f), m)
    BY <1>3 DEF Flying
  <2>4. Append(Tail(f), m) \in Seq(M) /\ Len(Append(Tail(f), m)) = Len(Tail(f)) + 1
    BY <2>2, AppendProperties
  <2> QED
    BY <1>1, <2>2, <2>3, <2>4
<1> QED
  BY <1>2, <1>3

LEMMA ArrivalType ==
    ASSUME NEW M, NEW f \in Seq(M), Len(f) <= MaxInFlight,
           NEW i \in 1 .. Len(f), NEW g, g = AfterArrival(f, i)
    PROVE  g \in Seq(M) /\ Len(g) <= MaxInFlight /\ f[i] \in M
<1>1. Len(f) \in Nat /\ MaxInFlight \in Nat /\ f[i] \in M
  BY SequenceTaken, Sizes
<1>2. g = SubSeq(f, i + 1, Len(f))
  BY DEF AfterArrival
<1>3. g \in Seq(M)
  BY ArrivalKeepsOrder
<1>4. Len(g) = Len(f) - i
  BY <1>1, <1>2, SubSeqProperties
<1> QED
  BY <1>1, <1>3, <1>4

-----------------------------------------------------------------------------
(* CL_ParsePacketEntities: its states, and what it may change of the ring.  *)

MergeState == [entities : [0 .. MaxParseEntities - 1 -> Entity],
               next : Nat, i : Nat, number : Nat]

IsBase(base) == base.start \in Nat /\ base.count \in Nat

(* From the client's half c on, only the slots up to the next free one were *)
(* written; a removed entity leaves its mark in that one.                   *)
Grown(c, g) ==
    /\ g \in MergeState
    /\ c.next <= g.next
    /\ \A k \in 0 .. MaxParseEntities - 1 :
          g.entities[k] = c.entities[k]
             \/ \E p \in c.next .. g.next : k = ClSlot(p)

LEMMA ClSlotOf ==
    ASSUME NEW n \in Nat
    PROVE  ClSlot(n) \in 0 .. MaxParseEntities - 1
  BY SlotType, Sizes DEF ClSlot

LEMMA MergeParts ==
    ASSUME NEW g \in MergeState
    PROVE  /\ g.next \in Nat /\ g.i \in Nat /\ g.number \in Nat
           /\ g.entities \in [0 .. MaxParseEntities - 1 -> Entity]
  BY DEF MergeState

(* Past the last entity of a base, no number is below the one that is read. *)
LEMMA BehindLastIs ==
    /\ BehindLast \in Nat /\ EndOfEntities \in Nat
    /\ EndOfEntities < BehindLast
    /\ \A n \in 1 .. EndOfEntities - 1 : n < BehindLast /\ n # EndOfEntities
  BY Sizes DEF BehindLast

LEMMA GoneParts == Gone \in Entity /\ Gone.number = EndOfEntities
<1>1. EndOfEntities \in Nat /\ 0 \in Versions
  BY Sizes, VersionParts DEF NoEntity, Entity
<1> QED
  BY <1>1 DEF Gone, Entity

LEMMA AdvancedParts ==
    ASSUME NEW g \in MergeState, NEW base, IsBase(base),
           NEW h, h = Advanced(g, base)
    PROVE  /\ h \in MergeState /\ h.next = g.next /\ h.entities = g.entities
           /\ h.i = g.i + 1
           /\ h.number = IF g.i + 1 < base.count
                         THEN g.entities[ClSlot(base.start + (g.i + 1))].number
                         ELSE BehindLast
<1>1. PICK number : number = IF g.i + 1 < base.count
                             THEN g.entities[ClSlot(base.start + (g.i + 1))].number
                             ELSE BehindLast
  OBVIOUS
<1>2. h = [entities |-> g.entities, next |-> g.next, i |-> g.i + 1,
           number |-> number]
  BY <1>1 DEF Advanced, Merging
<1>3. number \in Nat
  <2>1. base.start + (g.i + 1) \in Nat
    BY MergeParts DEF IsBase
  <2>2. g.entities[ClSlot(base.start + (g.i + 1))] \in Entity
    BY <2>1, ClSlotOf, MergeParts
  <2> QED
    BY <1>1, <2>2, BehindLastIs DEF Entity
<1> QED
  BY <1>1, <1>2, <1>3, MergeParts DEF MergeState

LEMMA WrittenParts ==
    ASSUME NEW g \in MergeState, NEW e \in Entity, NEW h, h = Written(g, e)
    PROVE  /\ h \in MergeState /\ h.i = g.i /\ h.number = g.number
           /\ h.next = IF e.number = EndOfEntities THEN g.next ELSE g.next + 1
           /\ h.entities = [g.entities EXCEPT ![ClSlot(g.next)] = e]
<1>1. PICK ring, next : /\ ring = [g.entities EXCEPT ![ClSlot(g.next)] = e]
                        /\ next = IF e.number = EndOfEntities THEN g.next
                                  ELSE g.next + 1
  OBVIOUS
<1>2. ring \in [0 .. MaxParseEntities - 1 -> Entity] /\ next \in Nat
  <2>1. ring \in [0 .. MaxParseEntities - 1 -> Entity]
    BY <1>1, MergeParts
  <2>2. g.next \in Nat
    BY MergeParts
  <2> QED
    BY <1>1, <2>1, <2>2
<1>3. h = [g EXCEPT !.entities = ring, !.next = next]
  BY <1>1 DEF Written
<1>4. h = [entities |-> ring, next |-> next, i |-> g.i, number |-> g.number]
  BY <1>3 DEF MergeState
<1>5. h \in MergeState
  BY <1>2, <1>4, MergeParts DEF MergeState
<1> QED
  BY <1>1, <1>4, <1>5

LEMMA ErasedParts ==
    ASSUME NEW g \in MergeState, NEW h, h = Erased(g)
    PROVE  /\ h \in MergeState /\ h.next = g.next /\ h.i = g.i
           /\ h.number = g.number
           /\ h.entities = [g.entities EXCEPT ![ClSlot(g.next)] = Gone]
<1>1. h = Written(g, Gone)
  BY DEF Erased
<1> QED
  BY <1>1, GoneParts, WrittenParts

(* What was written to the slot behind the last entity. *)
LEMMA GrownBy ==
    ASSUME NEW c, c.next \in Nat, NEW g, Grown(c, g), NEW h \in MergeState,
           g.next <= h.next, NEW e,
           h.entities = [g.entities EXCEPT ![ClSlot(g.next)] = e]
    PROVE  Grown(c, h)
<1>1. g \in MergeState /\ g.next \in Nat /\ h.next \in Nat /\ c.next <= g.next
  BY MergeParts DEF Grown
<1>2. ASSUME NEW k \in 0 .. MaxParseEntities - 1
      PROVE  h.entities[k] = c.entities[k] \/ \E p \in c.next .. h.next : k = ClSlot(p)
  <2>1. CASE k = ClSlot(g.next)
    <3>1. g.next \in c.next .. h.next
      BY <1>1
    <3> QED
      BY <2>1, <3>1
  <2>2. CASE k # ClSlot(g.next)
    <3>1. h.entities[k] = g.entities[k]
      BY <1>1, <2>2, MergeParts
    <3>2. c.next .. g.next \subseteq c.next .. h.next
      BY <1>1
    <3> QED
      BY <3>1, <3>2 DEF Grown
  <2> QED
    BY <2>1, <2>2
<1> QED
  BY <1>1, <1>2 DEF Grown

LEMMA GrownSteps ==
    ASSUME NEW c, c.next \in Nat, NEW g, Grown(c, g), NEW base, IsBase(base)
    PROVE  /\ Grown(c, Advanced(g, base))
           /\ \A e \in Entity : Grown(c, Written(g, e))
           /\ Grown(c, Erased(g))
           /\ Current(g, base) \in Entity
<1>1. g \in MergeState /\ g.next \in Nat /\ g.i \in Nat
  BY MergeParts DEF Grown
<1>2. Grown(c, Advanced(g, base))
  BY <1>1, AdvancedParts DEF Grown
<1>3. ASSUME NEW e \in Entity
      PROVE  Grown(c, Written(g, e))
  <2>1. PICK h : h = Written(g, e)
    OBVIOUS
  <2>2. /\ h \in MergeState
        /\ h.next = IF e.number = EndOfEntities THEN g.next ELSE g.next + 1
        /\ h.entities = [g.entities EXCEPT ![ClSlot(g.next)] = e]
    BY <1>1, <2>1, WrittenParts
  <2>3. g.next <= h.next
    BY <1>1, <2>2
  <2> QED
    BY <2>1, <2>2, <2>3, GrownBy
<1>4. Grown(c, Erased(g))
  BY <1>3, GoneParts DEF Erased
<1>5. Current(g, base) \in Entity
  <2>1. base.start + g.i \in Nat
    BY <1>1 DEF IsBase
  <2> QED
    BY <1>1, <2>1, ClSlotOf, MergeParts DEF Current
<1> QED
  BY <1>2, <1>3, <1>4, <1>5

LEMMA GrownCopy ==
    ASSUME NEW c, c.next \in Nat, NEW g, Grown(c, g), NEW base, IsBase(base),
           NEW n
    PROVE  Grown(c, CopyNext(g, base, n))
<1>1. Grown(c, Written(g, Current(g, base)))
  BY GrownSteps
<1>2. Grown(c, Advanced(Written(g, Current(g, base)), base))
  BY <1>1, GrownSteps
<1> QED
  BY <1>2 DEF CopyNext

(* A state of the merge grows from itself, so a step keeps to the type.     *)
LEMMA GrownSelf ==
    ASSUME NEW g \in MergeState
    PROVE  Grown(g, g)
  BY MergeParts DEF Grown

(* f has the states of the merge while base entities below n are copied.    *)
CopyRun(f, g, base, n) ==
    /\ \A k \in 0 .. base.count : f[k] \in MergeState
    /\ f[0] = g
    /\ \A k \in 1 .. base.count : f[k] = CopyNext(f[k - 1], base, n)
    /\ CopiedBelow(g, base, n) = f[base.count]

LEMMA CopyRunExists ==
    ASSUME NEW g \in MergeState, NEW base, IsBase(base), NEW n
    PROVE  \E f : CopyRun(f, g, base, n)
<1>1. PICK N : N = base.count /\ N \in Nat
  BY DEF IsBase
<1> DEFINE F == [p \in (1 .. N) \X MergeState |-> CopyNext(p[2], base, n)]
<1>2. F \in [(1 .. N) \X MergeState -> MergeState]
  <2>1. ASSUME NEW p \in (1 .. N) \X MergeState
        PROVE  CopyNext(p[2], base, n) \in MergeState
    <3>1. p[2] \in MergeState /\ p[2].next \in Nat
      BY MergeParts
    <3>2. Grown(p[2], CopyNext(p[2], base, n))
      BY <3>1, GrownSelf, GrownCopy
    <3> QED
      BY <3>2 DEF Grown
  <2> QED
    BY <2>1
<1> HIDE DEF F
<1>3. PICK f : Iterates(f, N, MergeState, g, F)
  BY <1>1, <1>2, RecursionExists
<1>4. /\ f \in [0 .. N -> MergeState] /\ f[0] = g
      /\ \A k \in 1 .. N : f[k] = CopyNext(f[k - 1], base, n)
  <2>1. ASSUME NEW k \in 1 .. N
        PROVE  f[k] = CopyNext(f[k - 1], base, n)
    <3>1. k - 1 \in 0 .. N
      BY <1>1
    <3>2. f[k - 1] \in MergeState
      BY <1>3, <3>1 DEF Iterates
    <3>3. f[k] = F[<<k, f[k - 1]>>]
      BY <1>3 DEF Iterates
    <3> QED
      BY <3>2, <3>3 DEF F
  <2> QED
    BY <1>3, <2>1 DEF Iterates
<1> DEFINE Body(h) == [k \in 0 .. N |-> IF k = 0 THEN g ELSE CopyNext(h[k - 1], base, n)]
           after == CHOOSE h : h = Body(h)
<1>5. f = Body(f)
  <2>1. f = [k \in 0 .. N |-> f[k]]
    BY <1>4
  <2>2. \A k \in 0 .. N : k = 0 \/ k \in 1 .. N
    BY <1>1
  <2> QED
    BY <1>4, <2>1, <2>2
<1>6. after = Body(after)
  BY <1>5
<1> HIDE DEF after
<1>7. after[N] = f[N]
  <2>1. PICK T : T = {k \in 0 .. N : after[k] = f[k]}
    OBVIOUS
  <2>2. 0 \in T
    BY <1>1, <1>4, <1>6, <2>1
  <2>3. ASSUME NEW k \in 1 .. N, k - 1 \in T
        PROVE  k \in T
    <3>1. k \in 0 .. N /\ k # 0
      BY <1>1
    <3>2. after[k] = CopyNext(after[k - 1], base, n)
      BY <1>6, <3>1
    <3> QED
      BY <1>4, <2>1, <2>3, <3>1, <3>2
  <2>4. \A k \in 0 .. N : k \in T
    BY <1>1, <2>2, <2>3, IntervalInduction
  <2> QED
    BY <1>1, <2>1, <2>4
<1>8. CopiedBelow(g, base, n) = after[N]
  BY <1>1 DEF CopiedBelow, after
<1>9. CopyRun(f, g, base, n)
  BY <1>1, <1>4, <1>7, <1>8 DEF CopyRun
<1> QED
  BY <1>9

LEMMA GrownCopied ==
    ASSUME NEW c, c.next \in Nat, NEW g, Grown(c, g), NEW base, IsBase(base),
           NEW n
    PROVE  Grown(c, CopiedBelow(g, base, n))
<1>1. g \in MergeState /\ base.count \in Nat
  BY DEF Grown, IsBase
<1>2. PICK f : CopyRun(f, g, base, n)
  BY <1>1, CopyRunExists
<1>3. PICK T : T = {k \in 0 .. base.count : Grown(c, f[k])}
  OBVIOUS
<1>4. 0 \in T
  BY <1>1, <1>2, <1>3 DEF CopyRun
<1>5. ASSUME NEW k \in 1 .. base.count, k - 1 \in T
      PROVE  k \in T
  <2>1. Grown(c, CopyNext(f[k - 1], base, n))
    BY <1>3, <1>5, GrownCopy
  <2>2. k \in 0 .. base.count
    BY <1>1
  <2> QED
    BY <1>2, <1>3, <2>1, <2>2 DEF CopyRun
<1>6. \A k \in 0 .. base.count : k \in T
  BY <1>1, <1>4, <1>5, IntervalInduction
<1> QED
  BY <1>1, <1>2, <1>3, <1>6 DEF CopyRun

LEMMA AppliedParts ==
    ASSUME NEW g \in MergeState, NEW change \in Change, NEW version
    PROVE  \/ /\ change.kind = "remove"
              /\ Applied(g, change, version) = Erased(g)
           \/ /\ change.kind = "update"
              /\ \E e \in Entity :
                    /\ Applied(g, change, version) = Written(g, e)
                    /\ e.number = change.number
                    /\ version = change.from => e.version = change.to
<1>1. /\ change.number \in Nat /\ change.to \in Versions
      /\ change.kind \in {"update", "remove"}
  BY DEF Change
<1>2. CASE change.kind = "remove"
  BY <1>2 DEF Applied
<1>3. CASE change.kind = "update"
  <2>1. PICK e : e = [number |-> change.number,
                      version |-> IF version = change.from THEN change.to ELSE Garbled]
    OBVIOUS
  <2>2. e \in Entity
    BY <1>1, <2>1, VersionParts DEF Entity
  <2>3. Applied(g, change, version) = Written(g, e)
    BY <1>3, <2>1 DEF Applied
  <2> QED
    BY <1>3, <2>1, <2>2, <2>3
<1> QED
  BY <1>1, <1>2, <1>3

LEMMA GrownApplied ==
    ASSUME NEW c, c.next \in Nat, NEW g, Grown(c, g),
           NEW change \in Change, NEW version
    PROVE  Grown(c, Applied(g, change, version))
<1>1. IsBase([start |-> 0, count |-> 0])
  BY DEF IsBase
<1>2. Grown(c, Erased(g)) /\ \A e \in Entity : Grown(c, Written(g, e))
  BY <1>1, GrownSteps
<1>3. g \in MergeState
  BY DEF Grown
<1> QED
  BY <1>2, <1>3, AppliedParts

LEMMA GrownChange ==
    ASSUME NEW c, c.next \in Nat, NEW g, Grown(c, g), NEW base, IsBase(base),
           NEW change \in Change, NEW map
    PROVE  Grown(c, ChangeRead(g, base, change, map))
<1>1. PICK h : h = CopiedBelow(g, base, change.number)
  OBVIOUS
<1>2. Grown(c, h)
  BY <1>1, GrownCopied
<1>3. \A version : Grown(c, Applied(h, change, version))
  BY <1>2, GrownApplied
<1>4. \A version : Grown(c, Advanced(Applied(h, change, version), base))
  BY <1>3, GrownSteps
<1> QED
  BY <1>1, <1>3, <1>4 DEF ChangeRead

LEMMA MergingParts ==
    ASSUME NEW c \in ClientHalf, NEW base, IsBase(base)
    PROVE  /\ Grown(c, Merging(c, base, 0))
           /\ Merging(c, base, 0).next = c.next
           /\ Merging(c, base, 0).entities = c.entities
           /\ Merging(c, base, 0).i = 0
           /\ Merging(c, base, 0).number =
                 IF 0 < base.count THEN c.entities[ClSlot(base.start + 0)].number ELSE BehindLast
<1>1. c.next \in Nat /\ c.entities \in [0 .. MaxParseEntities - 1 -> Entity]
  BY DEF ClientHalf
<1>2. PICK number : number = IF 0 < base.count
                             THEN c.entities[ClSlot(base.start + 0)].number ELSE BehindLast
  OBVIOUS
<1>3. number \in Nat
  <2>1. base.start + 0 \in Nat
    BY DEF IsBase
  <2>2. c.entities[ClSlot(base.start + 0)] \in Entity
    BY <1>1, <2>1, ClSlotOf
  <2> QED
    BY <1>2, <2>2, BehindLastIs DEF Entity
<1>4. PICK g : g = Merging(c, base, 0)
  OBVIOUS
<1>5. g = [entities |-> c.entities, next |-> c.next, i |-> 0, number |-> number]
  BY <1>2, <1>4 DEF Merging
<1>6. g \in MergeState
  BY <1>1, <1>3, <1>5 DEF MergeState
<1>7. Grown(c, g)
  BY <1>1, <1>5, <1>6 DEF Grown
<1> QED
  BY <1>2, <1>4, <1>5, <1>7

(* f has the states of the merge while the changes of a message are read.   *)
MergeRun(f, c, base, m) ==
    /\ \A k \in 0 .. Len(m.changes) : f[k] \in MergeState
    /\ f[0] = Merging(c, base, 0)
    /\ \A k \in 1 .. Len(m.changes) :
          f[k] = ChangeRead(f[k - 1], base, m.changes[k], c.map)
    /\ PacketEntities(c, base, m)
          = CopiedBelow(f[Len(m.changes)], base, BehindLast)

LEMMA MergeRunExists ==
    ASSUME NEW c \in ClientHalf, NEW base, IsBase(base),
           NEW m, m.changes \in Seq(Change)
    PROVE  \E f : MergeRun(f, c, base, m)
<1>1. PICK N, changes, g :
         N = Len(m.changes) /\ changes = m.changes /\ g = Merging(c, base, 0)
  OBVIOUS
<1>2. N \in Nat /\ \A k \in 1 .. N : changes[k] \in Change
  BY <1>1, SequenceTaken
<1>3. g \in MergeState
  BY <1>1, MergingParts DEF Grown
<1> DEFINE F == [p \in (1 .. N) \X MergeState |->
                    ChangeRead(p[2], base, changes[p[1]], c.map)]
<1>4. F \in [(1 .. N) \X MergeState -> MergeState]
  <2>1. ASSUME NEW p \in (1 .. N) \X MergeState
        PROVE  ChangeRead(p[2], base, changes[p[1]], c.map) \in MergeState
    <3>1. p[1] \in 1 .. N /\ p[2] \in MergeState /\ p[2].next \in Nat
      BY MergeParts
    <3>2. changes[p[1]] \in Change
      BY <1>2, <3>1
    <3>3. Grown(p[2], ChangeRead(p[2], base, changes[p[1]], c.map))
      BY <3>1, <3>2, GrownSelf, GrownChange
    <3> QED
      BY <3>3 DEF Grown
  <2> QED
    BY <2>1
<1> HIDE DEF F
<1>5. PICK f : Iterates(f, N, MergeState, g, F)
  BY <1>2, <1>3, <1>4, RecursionExists
<1>6. /\ f \in [0 .. N -> MergeState] /\ f[0] = g
      /\ \A k \in 1 .. N : f[k] = ChangeRead(f[k - 1], base, changes[k], c.map)
  <2>1. ASSUME NEW k \in 1 .. N
        PROVE  f[k] = ChangeRead(f[k - 1], base, changes[k], c.map)
    <3>1. k - 1 \in 0 .. N
      BY <1>2
    <3>2. f[k - 1] \in MergeState
      BY <1>5, <3>1 DEF Iterates
    <3>3. f[k] = F[<<k, f[k - 1]>>]
      BY <1>5 DEF Iterates
    <3> QED
      BY <3>2, <3>3 DEF F
  <2> QED
    BY <1>5, <2>1 DEF Iterates
<1> DEFINE Body(h) == [k \in 0 .. N |->
                          IF k = 0 THEN g
                          ELSE ChangeRead(h[k - 1], base, changes[k], c.map)]
           after == CHOOSE h : h = Body(h)
<1>7. f = Body(f)
  <2>1. f = [k \in 0 .. N |-> f[k]]
    BY <1>6
  <2>2. \A k \in 0 .. N : k = 0 \/ k \in 1 .. N
    BY <1>2
  <2> QED
    BY <1>6, <2>1, <2>2
<1>8. after = Body(after)
  BY <1>7
<1> HIDE DEF after
<1>9. after[N] = f[N]
  <2>1. PICK T : T = {k \in 0 .. N : after[k] = f[k]}
    OBVIOUS
  <2>2. 0 \in T
    BY <1>2, <1>6, <1>8, <2>1
  <2>3. ASSUME NEW k \in 1 .. N, k - 1 \in T
        PROVE  k \in T
    <3>1. k \in 0 .. N /\ k # 0
      BY <1>2
    <3>2. after[k] = ChangeRead(after[k - 1], base, changes[k], c.map)
      BY <1>8, <3>1
    <3> QED
      BY <1>6, <2>1, <2>3, <3>1, <3>2
  <2>4. \A k \in 0 .. N : k \in T
    BY <1>2, <2>2, <2>3, IntervalInduction
  <2> QED
    BY <1>2, <2>1, <2>4
<1>10. PacketEntities(c, base, m) = CopiedBelow(after[N], base, BehindLast)
  BY <1>1 DEF PacketEntities, after
<1>11. MergeRun(f, c, base, m)
  BY <1>1, <1>6, <1>9, <1>10 DEF MergeRun
<1> QED
  BY <1>11

(* However the base has changed, the merge writes from the next free slot   *)
(* on.                                                                      *)
LEMMA GrownMerged ==
    ASSUME NEW c \in ClientHalf, NEW base, IsBase(base),
           NEW m, m.changes \in Seq(Change)
    PROVE  Grown(c, PacketEntities(c, base, m))
<1>1. PICK N, changes : N = Len(m.changes) /\ changes = m.changes
  OBVIOUS
<1>2. N \in Nat /\ \A k \in 1 .. N : changes[k] \in Change
  BY <1>1, SequenceTaken
<1>3. PICK f : MergeRun(f, c, base, m)
  BY MergeRunExists
<1>4. c.next \in Nat
  BY DEF ClientHalf
<1>5. PICK T : T = {k \in 0 .. N : Grown(c, f[k])}
  OBVIOUS
<1>6. 0 \in T
  BY <1>2, <1>3, <1>5, MergingParts DEF MergeRun
<1>7. ASSUME NEW k \in 1 .. N, k - 1 \in T
      PROVE  k \in T
  <2>1. Grown(c, f[k - 1]) /\ changes[k] \in Change
    BY <1>2, <1>5, <1>7
  <2>2. Grown(c, ChangeRead(f[k - 1], base, changes[k], c.map))
    BY <1>4, <2>1, GrownChange
  <2>3. k \in 0 .. N
    BY <1>2
  <2> QED
    BY <1>1, <1>3, <1>5, <2>2, <2>3 DEF MergeRun
<1>8. \A k \in 0 .. N : k \in T
  BY <1>2, <1>6, <1>7, IntervalInduction
<1>9. Grown(c, f[N])
  BY <1>2, <1>5, <1>8
<1> QED
  BY <1>1, <1>3, <1>4, <1>9, GrownCopied DEF MergeRun

-----------------------------------------------------------------------------
(* Types: the client, and the whole. *)

LEMMA ClientFrames ==
    /\ NoClientFrame \in ClientFrame /\ IsBase(NoClientFrame)
    /\ \A f \in ClientFrame : IsBase(f)
<1>1. /\ <<>> \in Seq(Entity) /\ 0 \in 0 .. MaxSequence /\ 0 \in Nat
      /\ FALSE \in BOOLEAN
  BY Sizes
<1>2. NoClientFrame \in ClientFrame
  BY <1>1 DEF NoClientFrame, ClientFrame
<1>3. \A f \in ClientFrame : IsBase(f)
  BY DEF ClientFrame, IsBase
<1> QED
  BY <1>2, <1>3

LEMMA BaseOfType ==
    ASSUME NEW c \in ClientHalf, NEW m \in ServerMessage
    PROVE  LET base == IF m.delta = 0 THEN NoClientFrame ELSE BaseOf(c, m)
           IN  m.delta <= m.sequence => base \in ClientFrame /\ IsBase(base)
<1>1. m.delta \in Nat /\ m.sequence \in Nat
  BY DEF ServerMessage
<1>2. ASSUME m.delta <= m.sequence
      PROVE  BaseOf(c, m) \in ClientFrame
  <2>1. m.sequence - m.delta \in Nat
    BY <1>1, <1>2
  <2>2. Slot(m.sequence - m.delta) \in 0 .. Backup - 1
    BY <2>1, SlotOf
  <2> QED
    BY <2>2 DEF BaseOf, ClientHalf
<1> QED
  BY <1>2, ClientFrames

(* CL_ParseSnapshot *)
LEMMA AfterSnapshotParts ==
    ASSUME NEW c \in ClientHalf, NEW m \in ServerMessage, m.delta <= m.sequence,
           NEW d, d = AfterSnapshot(c, m),
           NEW base, base = IF m.delta = 0 THEN NoClientFrame ELSE BaseOf(c, m),
           NEW g, g = PacketEntities(c, base, m)
    PROVE  /\ d \in ClientHalf /\ IsBase(base) /\ base \in ClientFrame
           /\ Grown(c, g)
           /\ d.map = c.map /\ d.sequence = m.sequence
           /\ d.entities = g.entities /\ d.next = g.next
           /\ ~BaseUsable(c, m) => d.snap = c.snap /\ d.snapshots = c.snapshots
           /\ BaseUsable(c, m) =>
                 /\ d.snap = m.sequence
                 /\ d.snapshots[Slot(m.sequence)] =
                       [valid      |-> TRUE,
                        messageNum |-> m.sequence,
                        active     |-> m.active,
                        ps         |-> IF base.ps = m.psFrom THEN m.sequence
                                       ELSE Garbled,
                        start      |-> c.next,
                        count      |-> g.next - c.next,
                        entities   |-> m.entities]
                 /\ \A k \in 0 .. Backup - 1 : k # Slot(m.sequence) =>
                       \/ d.snapshots[k] = c.snapshots[k]
                       \/ ~d.snapshots[k].valid
<1>1. IsBase(base) /\ base \in ClientFrame
  BY BaseOfType
<1>2. /\ m.sequence \in 1 .. MaxSequence /\ m.active \in BOOLEAN
      /\ m.entities \in Seq(Entity) /\ m.changes \in Seq(Change)
  BY DEF ServerMessage
<1>3. Grown(c, g)
  BY <1>1, <1>2, GrownMerged
<1>4. /\ g.entities \in [0 .. MaxParseEntities - 1 -> Entity] /\ g.next \in Nat
      /\ c.next \in Nat /\ c.next <= g.next
  BY <1>3, MergeParts DEF Grown, ClientHalf
<1>5. PICK parsed :
         parsed = [c EXCEPT !.entities = g.entities, !.next = g.next,
                            !.sequence = m.sequence]
  OBVIOUS
<1>6. /\ parsed \in ClientHalf /\ parsed.map = c.map
      /\ parsed.sequence = m.sequence /\ parsed.snap = c.snap
      /\ parsed.snapshots = c.snapshots
      /\ parsed.entities = g.entities /\ parsed.next = g.next
  BY <1>2, <1>4, <1>5 DEF ClientHalf
<1>7. PICK frame :
         frame = [valid      |-> TRUE,
                  messageNum |-> m.sequence,
                  active     |-> m.active,
                  ps         |-> IF base.ps = m.psFrom THEN m.sequence ELSE Garbled,
                  start      |-> c.next,
                  count      |-> g.next - c.next,
                  entities   |-> m.entities]
  OBVIOUS
<1>8. frame \in ClientFrame
  <2>1. m.sequence \in 0 .. MaxSequence /\ g.next - c.next \in Nat
    <3>1. PICK q, a, b : q = m.sequence /\ a = c.next /\ b = g.next
      OBVIOUS
    <3>2. q \in 1 .. MaxSequence /\ a \in Nat /\ b \in Nat /\ a <= b
      BY <1>2, <1>4, <3>1
    <3>3. q \in 0 .. MaxSequence /\ b - a \in Nat
      BY <3>2, Sizes
    <3> QED
      BY <3>1, <3>3
  <2>2. PICK ps : ps = IF base.ps = m.psFrom THEN m.sequence ELSE Garbled
    OBVIOUS
  <2>3. ps \in (0 .. MaxSequence) \cup {Garbled}
    BY <2>1, <2>2
  <2>4. TRUE \in BOOLEAN
    OBVIOUS
  <2>5. frame = [valid |-> TRUE, messageNum |-> m.sequence, active |-> m.active,
                 ps |-> ps, start |-> c.next, count |-> g.next - c.next,
                 entities |-> m.entities]
    BY <1>7, <2>2
  <2> QED
    BY <1>2, <1>4, <2>1, <2>3, <2>4, <2>5 DEF ClientFrame
<1>9. PICK ring : ring = [k \in DOMAIN parsed.snapshots |->
                            IF k = Slot(m.sequence) THEN frame
                            ELSE IF \E n \in Skipped(c, m) : Slot(n) = k
                                 THEN [parsed.snapshots[k] EXCEPT !.valid = FALSE]
                                 ELSE parsed.snapshots[k]]
  OBVIOUS
<1>10. d = IF ~BaseUsable(c, m) THEN parsed
           ELSE [parsed EXCEPT !.snap = m.sequence, !.snapshots = ring]
  BY <1>5, <1>7, <1>9 DEF AfterSnapshot
<1>11. CASE ~BaseUsable(c, m)
  BY <1>1, <1>3, <1>6, <1>10, <1>11
<1>12. CASE BaseUsable(c, m)
  <2>1. d = [parsed EXCEPT !.snap = m.sequence, !.snapshots = ring]
    BY <1>10, <1>12
  <2>2. c.snapshots \in [0 .. Backup - 1 -> ClientFrame]
    BY DEF ClientHalf
  <2>3. Slot(m.sequence) \in 0 .. Backup - 1
    <3>1. m.sequence \in Nat
      BY <1>2
    <3> QED
      BY <3>1, SlotOf
  <2>4. ring[Slot(m.sequence)] = frame
    BY <1>6, <1>9, <2>2, <2>3
  <2>5. ASSUME NEW k \in 0 .. Backup - 1, k # Slot(m.sequence)
        PROVE  /\ ring[k] \in ClientFrame
               /\ ring[k] = c.snapshots[k] \/ ~ring[k].valid
    <3>1. PICK old, gone : /\ old = c.snapshots[k]
                           /\ gone = [old EXCEPT !.valid = FALSE]
      OBVIOUS
    <3>2. old \in ClientFrame
      BY <2>2, <3>1
    <3>3. gone \in ClientFrame /\ ~gone.valid
      BY <3>1, <3>2 DEF ClientFrame
    <3>4. ring[k] = IF \E n \in Skipped(c, m) : Slot(n) = k THEN gone ELSE old
      BY <1>6, <1>9, <2>2, <2>5, <3>1
    <3> QED
      BY <3>1, <3>2, <3>3, <3>4
  <2>6. ring \in [0 .. Backup - 1 -> ClientFrame]
    <3>1. DOMAIN parsed.snapshots = 0 .. Backup - 1
      BY <1>6, <2>2
    <3>2. \A k \in 0 .. Backup - 1 : ring[k] \in ClientFrame
      BY <1>8, <2>4, <2>5
    <3>3. ring = [k \in 0 .. Backup - 1 |-> ring[k]]
      BY <1>9, <3>1
    <3> QED
      BY <3>2, <3>3
  <2>7. m.sequence \in 0 .. MaxSequence
    BY <1>2
  <2>8. /\ d \in ClientHalf /\ d.map = parsed.map
        /\ d.sequence = parsed.sequence /\ d.snap = m.sequence
        /\ d.snapshots = ring
        /\ d.entities = parsed.entities /\ d.next = parsed.next
    BY <1>6, <2>1, <2>6, <2>7 DEF ClientHalf
  <2> QED
    BY <1>1, <1>3, <1>6, <1>7, <1>12, <2>4, <2>5, <2>8
<1> QED
  BY <1>11, <1>12

LEMMA GameStateType ==
    ASSUME NEW c \in ClientHalf, NEW m \in ServerMessage
    PROVE  AfterGameState(c, m) \in ClientHalf
<1>1. /\ m.map \in 1 .. MaxSpawns + 1 /\ m.sequence \in 1 .. MaxSequence
      /\ 0 \in 0 .. MaxSequence /\ 0 \in Nat
      /\ c.snapshots \in [0 .. Backup - 1 -> ClientFrame]
  BY Sizes DEF ServerMessage, ClientHalf
<1>2. PICK frames, ring : /\ frames = [k \in DOMAIN c.snapshots |-> NoClientFrame]
                          /\ ring = Blank(MaxParseEntities)
  OBVIOUS
<1>3. frames \in [0 .. Backup - 1 -> ClientFrame]
  BY <1>1, <1>2, ClientFrames
<1>4. ring \in [0 .. MaxParseEntities - 1 -> Entity]
  BY <1>2, VersionParts DEF Blank
<1>5. AfterGameState(c, m) = [map |-> m.map, sequence |-> m.sequence, snap |-> 0,
                              snapshots |-> frames, entities |-> ring, next |-> 0]
  BY <1>2 DEF AfterGameState
<1> QED
  BY <1>1, <1>3, <1>4, <1>5 DEF ClientHalf

LEMMA TypeInit ==
    ASSUME Init
    PROVE  TypeOK
<1>1. PICK svFrames, svBlank, clBlank, frames :
         /\ svFrames = [k \in 0 .. Backup - 1 |-> NoServerFrame]
         /\ svBlank = Blank(NumSnapshotEntities)
         /\ clBlank = Blank(MaxParseEntities)
         /\ frames = [k \in 0 .. Backup - 1 |-> NoClientFrame]
  OBVIOUS
<1>2. /\ sv = [state |-> "primed", map |-> 1, outgoing |-> 2,
               deltaMessage |-> -1, gameStateNum |-> 1,
               frames |-> svFrames, entities |-> svBlank, next |-> 0]
      /\ cl = [map |-> 1, sequence |-> 1, snap |-> 0, snapshots |-> frames,
               entities |-> clBlank, next |-> 0]
      /\ toServer = <<>> /\ toClient = <<>> /\ events = 0
  BY <1>1 DEF Init
<1>3. /\ 1 \in 1 .. MaxSpawns + 1 /\ 2 \in 1 .. MaxSequence + 1
      /\ -1 \in -1 .. MaxSequence /\ 1 \in -1 .. MaxSequence
      /\ 1 \in 1 .. MaxSequence /\ 0 \in 0 .. MaxSequence /\ 0 \in Nat
      /\ 0 \in 0 .. MaxEvents
  BY Sizes
<1>4. NoServerFrame \in ServerFrame
  BY <1>3 DEF NoServerFrame, ServerFrame
<1>5. /\ svFrames \in [0 .. Backup - 1 -> ServerFrame]
      /\ frames \in [0 .. Backup - 1 -> ClientFrame]
      /\ svBlank \in [0 .. NumSnapshotEntities - 1 -> Entity]
      /\ clBlank \in [0 .. MaxParseEntities - 1 -> Entity]
  BY <1>1, <1>4, ClientFrames, VersionParts DEF Blank
<1>6. sv \in ServerHalf
  BY <1>2, <1>3, <1>5 DEF ServerHalf
<1>7. cl \in ClientHalf
  BY <1>2, <1>3, <1>5 DEF ClientHalf
<1>8. /\ toServer \in Seq(ClientMessage) /\ toClient \in Seq(ServerMessage)
      /\ Len(toServer) <= MaxInFlight /\ Len(toClient) <= MaxInFlight
  BY <1>2, Sizes
<1> QED
  BY <1>2, <1>3, <1>6, <1>7, <1>8 DEF TypeOK

LEMMA TypeSends ==
    ASSUME TypeOK, NEW s \in ServerHalf, s.outgoing <= MaxSequence,
           NEW m \in ServerMessage, Sends(s, m)
    PROVE  /\ sv' \in ServerHalf /\ toClient' \in Seq(ServerMessage)
           /\ Len(toClient') <= MaxInFlight
           /\ sv'.outgoing = s.outgoing + 1
           /\ sv'.state = s.state /\ sv'.map = s.map
           /\ sv'.deltaMessage = s.deltaMessage
           /\ sv'.gameStateNum = s.gameStateNum
           /\ sv'.frames = s.frames /\ sv'.entities = s.entities
           /\ sv'.next = s.next
<1>1. /\ toClient \in Seq(ServerMessage) /\ Len(toClient) <= MaxInFlight
      /\ toClient' = Flying(toClient, m)
  BY DEF TypeOK, Sends
<1>2. sv' = [s EXCEPT !.outgoing = s.outgoing + 1]
  BY DEF Sends, ServerHalf
<1>3. s.outgoing + 1 \in 1 .. MaxSequence + 1
  BY Sizes DEF ServerHalf
<1>4. /\ sv' \in ServerHalf /\ sv'.outgoing = s.outgoing + 1
      /\ sv'.state = s.state /\ sv'.map = s.map
      /\ sv'.deltaMessage = s.deltaMessage
      /\ sv'.gameStateNum = s.gameStateNum
      /\ sv'.frames = s.frames /\ sv'.entities = s.entities
      /\ sv'.next = s.next
  BY <1>2, <1>3 DEF ServerHalf
<1> QED
  BY <1>1, <1>4, FlyingType

(* The base of a delta is an earlier message. *)
LEMMA BaseIsEarlier ==
    ASSUME IInv, sv.deltaMessage > 0, sv.state = "active"
    PROVE  Holds(cl, sv.deltaMessage) /\ sv.deltaMessage < sv.outgoing
<1>1. Holds(cl, sv.deltaMessage)
  BY DEF IInv, ServerIsSound
<1>2. sv.deltaMessage \in 1 .. cl.snap
  BY <1>1 DEF Holds
<1> QED
  BY <1>1, <1>2, Ends

LEMMA TypeStep ==
    ASSUME IInv, TypeOK, [Next]_vars
    PROVE  TypeOK'
<1>1. /\ sv \in ServerHalf /\ cl \in ClientHalf
      /\ toServer \in Seq(ClientMessage) /\ Len(toServer) <= MaxInFlight
      /\ toClient \in Seq(ServerMessage) /\ Len(toClient) <= MaxInFlight
      /\ events \in 0 .. MaxEvents
      /\ DOMAIN toServer = 1 .. Len(toServer)
      /\ DOMAIN toClient = 1 .. Len(toClient)
  BY LenProperties DEF TypeOK
<1>2. CASE SvSendSnapshot
  <2>0. PICK view \in Views :
           LET e == Seen(view, sv.outgoing)
               b == Built(sv, e)
           IN  Sends(b, Snapshot(b, e))
    BY <1>2 DEF SvSendSnapshot
  <2>1. PICK seen, built :
           /\ seen = Seen(view, sv.outgoing) /\ built = Built(sv, seen)
           /\ Sends(built, Snapshot(built, seen))
    BY <2>0
  <2>2. /\ cl' = cl /\ toServer' = toServer /\ events' = events
        /\ sv.outgoing <= MaxSequence /\ sv.outgoing \in 0 .. MaxSequence
    BY <1>1, <1>2, Sizes DEF SvSendSnapshot, CanSend, ServerHalf
  <2>3. seen \in Seq(Entity)
    BY <2>1, <2>2, SeenParts
  <2>4. /\ built \in ServerHalf /\ built.state = sv.state
        /\ built.outgoing = sv.outgoing
        /\ built.deltaMessage = sv.deltaMessage
    <3>1. sv \in ServerHalf /\ sv.outgoing <= MaxSequence /\ built = Built(sv, seen)
      BY <1>1, <2>1, <2>2
    <3> QED
      BY <2>3, <3>1, BuiltType
  <2>5. UsesDelta(built) => built.deltaMessage < built.outgoing
    BY <2>4, BaseIsEarlier DEF UsesDelta
  <2>6. Snapshot(built, seen) \in ServerMessage
    BY <2>2, <2>3, <2>4, <2>5, SnapshotType
  <2> QED
    BY <1>1, <2>1, <2>2, <2>4, <2>6, TypeSends DEF TypeOK
<1>3. CASE SvBuildForOther
  <2> PICK view \in Views :
         sv' = Copied(sv, [i \in 1 .. Cardinality(view) |-> NoEntity])
    BY <1>3 DEF SvBuildForOther
  <2>1. PICK seen : /\ seen = [i \in 1 .. Cardinality(view) |-> NoEntity]
                    /\ sv' = Copied(sv, seen)
    OBVIOUS
  <2>2. seen \in Seq(Entity)
    <3>1. Cardinality(view) \in Nat
      BY ViewParts
    <3>2. seen \in [1 .. Cardinality(view) -> Entity]
      BY <2>1, VersionParts
    <3> QED
      BY <3>1, <3>2, SequenceMade
  <2>3. sv' \in ServerHalf
    BY <1>1, <2>1, <2>2, CopiedType
  <2>4. events' \in 0 .. MaxEvents
    BY <1>1, <1>3, Sizes DEF SvBuildForOther
  <2> QED
    BY <1>1, <1>3, <2>3, <2>4 DEF SvBuildForOther, TypeOK
<1>4. CASE SvSpawnServer
  <2>1. PICK blank, map : blank = Blank(NumSnapshotEntities) /\ map = sv.map + 1
    OBVIOUS
  <2>2. blank \in [0 .. NumSnapshotEntities - 1 -> Entity]
    BY <2>1, VersionParts DEF Blank
  <2>3. map \in 1 .. MaxSpawns + 1
    <3>1. sv.map \in 1 .. MaxSpawns + 1
      BY <1>1 DEF ServerHalf
    <3>2. sv.map <= MaxSpawns
      BY <1>4 DEF SvSpawnServer
    <3> QED
      BY <2>1, <3>1, <3>2, Sizes
  <2>4. sv' = [sv EXCEPT !.state = "connected", !.map = map,
                         !.entities = blank, !.next = 0]
    BY <1>4, <2>1 DEF SvSpawnServer
  <2>5. sv' \in ServerHalf
    BY <1>1, <2>2, <2>3, <2>4 DEF ServerHalf
  <2>6. events' \in 0 .. MaxEvents
    BY <1>1, <1>4, Sizes DEF SvSpawnServer
  <2> QED
    BY <1>1, <1>4, <2>5, <2>6 DEF SvSpawnServer, TypeOK
<1>5. CASE \E i \in DOMAIN toClient : ClReceive(i)
  <2>1. PICK i \in 1 .. Len(toClient) : ClReceive(i)
    BY <1>1, <1>5
  <2>2. PICK m : m = toClient[i]
    OBVIOUS
  <2>3. /\ m \in ServerMessage /\ toClient' \in Seq(ServerMessage)
        /\ Len(toClient') <= MaxInFlight
    BY <1>1, <2>1, <2>2, ArrivalType DEF ClReceive
  <2>4. m.delta <= m.sequence
    <3>1. MessageIsSound(sv, cl, m)
      BY <2>2 DEF IInv, Elements
    <3>2. m.delta \in Nat /\ m.sequence \in Nat
      BY <2>3 DEF ServerMessage
    <3> QED
      BY <3>1, <3>2 DEF MessageIsSound
  <2>5. cl' \in ClientHalf
    BY <1>1, <2>1, <2>2, <2>3, <2>4, GameStateType, AfterSnapshotParts DEF ClReceive
  <2> QED
    BY <1>1, <2>1, <2>3, <2>5 DEF ClReceive, TypeOK
<1>6. CASE ClWritePacket
  <2>1. PICK p : p = [map |-> cl.map, ack |-> cl.sequence, delta |-> WantsDelta(cl)]
    OBVIOUS
  <2>2. p \in ClientMessage
    BY <1>1, <2>1 DEF ClientMessage, ClientHalf, WantsDelta
  <2>3. toServer' = Flying(toServer, p)
    BY <1>6, <2>1 DEF ClWritePacket
  <2>4. toServer' \in Seq(ClientMessage) /\ Len(toServer') <= MaxInFlight
    BY <1>1, <2>2, <2>3, FlyingType
  <2> QED
    BY <1>1, <1>6, <2>4 DEF ClWritePacket, TypeOK
<1>7. CASE \E i \in DOMAIN toServer : SvReceive(i)
  <2>1. PICK i \in 1 .. Len(toServer) : SvReceive(i)
    BY <1>1, <1>7
  <2>2. PICK p, t : /\ p = toServer[i]
                    /\ t = [sv EXCEPT !.state = "primed", !.gameStateNum = sv.outgoing]
    OBVIOUS
  <2>3. /\ p \in ClientMessage /\ toServer' \in Seq(ClientMessage)
        /\ Len(toServer') <= MaxInFlight
    BY <1>1, <2>1, <2>2, ArrivalType DEF SvReceive
  <2>4. /\ cl' = cl /\ events' = events
        /\ \/ CanSend /\ Sends(t, GameState(t))
           \/ toClient' = toClient /\ sv' = AfterMove(sv, p)
           \/ toClient' = toClient /\ sv' = sv
    BY <2>1, <2>2 DEF SvReceive
  <2>5. CASE CanSend /\ Sends(t, GameState(t))
    <3>1. sv.outgoing \in -1 .. MaxSequence /\ sv.outgoing \in 1 .. MaxSequence
      BY <1>1, <2>5, Sizes DEF CanSend, ServerHalf
    <3>2. t \in ServerHalf /\ t.outgoing = sv.outgoing /\ t.map = sv.map
      BY <1>1, <2>2, <3>1 DEF ServerHalf
    <3>3. /\ t.map \in 1 .. MaxSpawns + 1 /\ 0 \in 0 .. Backup
          /\ 0 \in 0 .. MaxSequence /\ <<>> \in Seq(Change) /\ <<>> \in Seq(Entity)
      BY <3>2, Limits, Sizes DEF ServerHalf
    <3>4. GameState(t) \in ServerMessage
      BY <3>1, <3>2, <3>3 DEF GameState, ServerMessage
    <3>5. t.outgoing <= MaxSequence
      BY <3>1, <3>2
    <3> QED
      BY <1>1, <2>3, <2>4, <2>5, <3>2, <3>4, <3>5, TypeSends DEF TypeOK
  <2>6. CASE toClient' = toClient /\ sv' = AfterMove(sv, p)
    <3>1. PICK delta : delta = IF sv.state = "active" /\ p.delta THEN p.ack ELSE -1
      OBVIOUS
    <3>2. delta \in -1 .. MaxSequence
      <4>1. p.ack \in 1 .. MaxSequence
        BY <2>3 DEF ClientMessage
      <4> QED
        BY <3>1, <4>1, Sizes
    <3>3. sv' = [sv EXCEPT !.state = "active", !.deltaMessage = delta]
      BY <2>6, <3>1 DEF AfterMove
    <3>4. sv' \in ServerHalf
      BY <1>1, <3>2, <3>3 DEF ServerHalf
    <3> QED
      BY <1>1, <2>3, <2>4, <2>6, <3>4 DEF TypeOK
  <2>7. CASE toClient' = toClient /\ sv' = sv
    BY <1>1, <2>3, <2>4, <2>7 DEF TypeOK
  <2> QED
    BY <2>4, <2>5, <2>6, <2>7
<1>8. CASE UNCHANGED vars
  BY <1>1, <1>8 DEF vars, TypeOK
<1> QED
  BY <1>2, <1>3, <1>4, <1>5, <1>6, <1>7, <1>8 DEF Next

(* Frames, entities, deltas and versions keep their types: the merge of     *)
(* CL_ParsePacketEntities is typed whatever base it is given, and a delta   *)
(* is always from an earlier message, so it fits in its range.              *)
THEOREM TypeCorrect == Spec => []TypeOK
<1>1. Init => TypeOK
  BY TypeInit
<1>2. IInv /\ TypeOK /\ [Next]_vars => TypeOK'
  BY TypeStep
<1> QED
  BY <1>1, <1>2, Invariance, PTL DEF Spec

-----------------------------------------------------------------------------
(* Snapshots in the order of their entities, as the merge reads them. *)

Ordered(e) ==
    /\ e \in Seq(Entity)
    /\ \A i \in 1 .. Len(e) : e[i].number \in 1 .. EndOfEntities - 1
    /\ \A i, j \in 1 .. Len(e) : i < j => e[i].number < e[j].number

(* The entities below number x are the first a.                             *)
Split(e, a, x) == \A q \in 1 .. Len(e) : q <= a <=> e[q].number < x

(* The entities that have come.                                             *)
Fresh(old, new) ==
    {n \in 1 .. EndOfEntities - 1 : HasNumber(new, n) /\ ~HasNumber(old, n)}

LEMMA OrderedParts ==
    ASSUME NEW e, Ordered(e)
    PROVE  /\ e \in Seq(Entity) /\ Len(e) \in Nat /\ DOMAIN e = 1 .. Len(e)
           /\ \A i \in 1 .. Len(e) :
                 /\ e[i] \in Entity /\ e[i].number \in 1 .. EndOfEntities - 1
                 /\ e[i].number \in Nat \ {0} /\ e[i].number < EndOfEntities
                 /\ HasNumber(e, e[i].number) /\ WithNumber(e, e[i].number) = e[i]
<1>1. /\ e \in Seq(Entity) /\ Len(e) \in Nat /\ DOMAIN e = 1 .. Len(e)
      /\ \A i \in 1 .. Len(e) : e[i] \in Entity
  BY SequenceTaken DEF Ordered
<1>2. ASSUME NEW i \in 1 .. Len(e)
      PROVE  /\ e[i].number \in 1 .. EndOfEntities - 1
             /\ e[i].number \in Nat \ {0} /\ e[i].number < EndOfEntities
             /\ HasNumber(e, e[i].number) /\ WithNumber(e, e[i].number) = e[i]
  <2>1. e[i].number \in 1 .. EndOfEntities - 1
    BY DEF Ordered
  <2>2. e[i].number \in Nat \ {0} /\ e[i].number < EndOfEntities
    <3>1. PICK x : x = e[i].number
      OBVIOUS
    <3>2. x \in 1 .. EndOfEntities - 1
      BY <2>1, <3>1
    <3>3. x \in Nat \ {0} /\ x < EndOfEntities
      BY <3>2, Sizes
    <3> QED
      BY <3>1, <3>3
  <2>3. HasNumber(e, e[i].number)
    BY <1>1 DEF HasNumber
  <2>4. PICK j \in 1 .. Len(e) :
           e[j].number = e[i].number /\ WithNumber(e, e[i].number) = e[j]
    BY <1>1, <2>3, Found
  <2>5. j = i
    <3>1. e[i].number \in Int /\ e[j].number \in Int
      BY <2>2, <2>4
    <3>2. ~(i < j) /\ ~(j < i)
      BY <2>4, <3>1 DEF Ordered
    <3> QED
      BY <1>1, <3>2
  <2> QED
    BY <2>1, <2>2, <2>3, <2>4, <2>5
<1> QED
  BY <1>1, <1>2

LEMMA SeenOrdered ==
    ASSUME NEW view \in Views, NEW n \in 0 .. MaxSequence,
           NEW e, e = Seen(view, n)
    PROVE  /\ Ordered(e)
           /\ \A x : HasNumber(e, x) <=> x \in view
<1>1. PICK numbers, K : numbers = Ascending(view) /\ K = Cardinality(view)
  OBVIOUS
<1>2. /\ e \in Seq(Entity) /\ Len(e) = K /\ DOMAIN e = 1 .. K
      /\ \A i \in 1 .. K : e[i].number = numbers[i]
  BY <1>1, SeenParts, SequenceTaken
<1>3. EndOfEntities - 1 \in Nat /\ view \in SUBSET (1 .. EndOfEntities - 1)
  BY ViewParts
<1>4. /\ \A i \in 1 .. K : numbers[i] \in view
      /\ \A m \in view : \E i \in 1 .. K : numbers[i] = m
      /\ \A i, j \in 1 .. K : i < j => numbers[i] < numbers[j]
  BY <1>1, <1>3, AscendingParts
<1>5. Ordered(e)
  <2>1. \A i \in 1 .. K : e[i].number \in 1 .. EndOfEntities - 1
    BY <1>2, <1>3, <1>4
  <2>2. \A i, j \in 1 .. K : i < j => e[i].number < e[j].number
    BY <1>2, <1>4
  <2> QED
    BY <1>2, <2>1, <2>2 DEF Ordered
<1>6. \A x : HasNumber(e, x) <=> x \in view
  BY <1>2, <1>4 DEF HasNumber
<1> QED
  BY <1>5, <1>6

LEMMA SplitStep ==
    ASSUME NEW e, Ordered(e), NEW a \in 0 .. Len(e), a < Len(e)
    PROVE  Split(e, a + 1, e[a + 1].number + 1)
<1>1. /\ Len(e) \in Nat /\ a + 1 \in 1 .. Len(e)
      /\ \A i \in 1 .. Len(e) : e[i].number \in Nat
  BY OrderedParts
<1> SUFFICES ASSUME NEW q \in 1 .. Len(e)
             PROVE  q <= a + 1 <=> e[q].number < e[a + 1].number + 1
  BY DEF Split
<1>2. CASE q < a + 1
  <2>1. e[q].number < e[a + 1].number
    BY <1>1, <1>2 DEF Ordered
  <2> QED
    BY <1>1, <1>2, <2>1
<1>3. CASE q = a + 1
  BY <1>1, <1>3
<1>4. CASE a + 1 < q
  <2>1. e[a + 1].number < e[q].number
    BY <1>1, <1>4 DEF Ordered
  <2> QED
    BY <1>1, <1>4, <2>1
<1> QED
  BY <1>1, <1>2, <1>3, <1>4

(* What is next is the first that is not below x. *)
LEMMA SplitNext ==
    ASSUME NEW e, Ordered(e), NEW a \in 0 .. Len(e), NEW x \in Nat, Split(e, a, x),
           NEW q \in 1 .. Len(e), e[q].number >= x
    PROVE  /\ a < Len(e) /\ a + 1 \in 1 .. Len(e)
           /\ e[a + 1].number >= x /\ e[a + 1].number <= e[q].number
<1>1. Len(e) \in Nat /\ \A i \in 1 .. Len(e) : e[i].number \in Nat
  BY OrderedParts
<1>2. ~(e[q].number < x)
  BY <1>1
<1>3. a < q
  BY <1>1, <1>2 DEF Split
<1>4. a + 1 \in 1 .. Len(e) /\ ~(a + 1 <= a)
  BY <1>1, <1>3
<1>5. ~(e[a + 1].number < x)
  BY <1>4 DEF Split
<1>6. a + 1 < q \/ a + 1 = q
  BY <1>3
<1>7. e[a + 1].number <= e[q].number
  <2>1. CASE a + 1 < q
    <3>1. e[a + 1].number < e[q].number
      BY <1>4, <2>1 DEF Ordered
    <3> QED
      BY <1>1, <1>4, <3>1
  <2>2. CASE a + 1 = q
    BY <1>1, <2>2
  <2> QED
    BY <1>6, <2>1, <2>2
<1> QED
  BY <1>1, <1>4, <1>5, <1>7

LEMMA SplitSkip ==
    ASSUME NEW e, Ordered(e), NEW a \in 0 .. Len(e), NEW x \in Nat, NEW y \in Nat,
           Split(e, a, x), x <= y, a < Len(e) => e[a + 1].number >= y
    PROVE  Split(e, a, y)
<1>1. Len(e) \in Nat /\ \A i \in 1 .. Len(e) : e[i].number \in Nat
  BY OrderedParts
<1> SUFFICES ASSUME NEW q \in 1 .. Len(e)
             PROVE  q <= a <=> e[q].number < y
  BY DEF Split
<1>2. CASE q <= a
  <2>1. e[q].number < x
    BY <1>2 DEF Split
  <2> QED
    BY <1>1, <1>2, <2>1
<1>3. CASE a < q
  <2>1. a + 1 \in 1 .. Len(e) /\ e[a + 1].number >= y
    BY <1>1, <1>3
  <2>2. a + 1 = q \/ a + 1 < q
    BY <1>3
  <2>3. e[q].number >= e[a + 1].number
    BY <1>1, <2>1, <2>2 DEF Ordered
  <2> QED
    BY <1>1, <1>3, <2>1, <2>3
<1> QED
  BY <1>2, <1>3

(* g goes through no more numbers than f does and F has. *)
LEMMA CountBound ==
    ASSUME NEW a \in Nat, NEW b \in Nat, NEW f \in [1 .. a -> Nat],
           NEW g \in [1 .. b -> Nat],
           \A i, j \in 1 .. b : i < j => g[i] < g[j],
           NEW F \in SUBSET Nat, IsFiniteSet(F),
           \A j \in 1 .. b : (\E q \in 1 .. a : f[q] = g[j]) \/ g[j] \in F
    PROVE  b <= a + Cardinality(F)
<1>1. PICK A : A = {f[q] : q \in 1 .. a}
  OBVIOUS
<1>2. IsFiniteSet(1 .. a) /\ Cardinality(1 .. a) = a
  BY FS_Interval
<1>3. IsFiniteSet(1 .. b) /\ Cardinality(1 .. b) = b
  BY FS_Interval
<1>4. f \in Surjection(1 .. a, A)
  BY <1>1 DEF Surjection
<1>5. IsFiniteSet(A) /\ Cardinality(A) <= a
  BY <1>2, <1>4, FS_Surjection
<1>6. PICK T : T = A \cup F
  OBVIOUS
<1>7. IsFiniteSet(T) /\ Cardinality(T) = Cardinality(A) + Cardinality(F) - Cardinality(A \cap F)
  BY <1>5, <1>6, FS_Union
<1>8. IsFiniteSet(A \cap F)
  <2>1. A \cap F \in SUBSET A
    OBVIOUS
  <2> QED
    BY <1>5, <2>1, FS_Subset
<1>9. /\ Cardinality(T) \in Nat /\ Cardinality(A) \in Nat
      /\ Cardinality(F) \in Nat /\ Cardinality(A \cap F) \in Nat
  BY <1>5, <1>7, <1>8, FS_CardinalityType
<1>10. g \in Injection(1 .. b, T)
  <2>1. g \in [1 .. b -> T]
    BY <1>1, <1>6
  <2>2. ASSUME NEW i \in 1 .. b, NEW j \in 1 .. b, g[i] = g[j]
        PROVE  i = j
    <3>1. g[i] \in Nat /\ g[j] \in Nat
      OBVIOUS
    <3>2. ~(i < j) /\ ~(j < i)
      BY <2>2, <3>1
    <3> QED
      BY <3>2
  <2> QED
    BY <2>1, <2>2 DEF Injection, IsInjective
<1>11. Cardinality(1 .. b) <= Cardinality(T)
  BY <1>7, <1>10, FS_Injection
<1> QED
  BY <1>3, <1>5, <1>7, <1>9, <1>11

(* Up to a number, no more entities have been written than the base has     *)
(* been read, and those that have come.                                     *)
LEMMA WrittenAhead ==
    ASSUME NEW old, Ordered(old), NEW new, Ordered(new),
           Cardinality(Fresh(old, new)) <= ParseMargin,
           NEW x \in Nat, NEW a \in 0 .. Len(old), NEW b \in 0 .. Len(new),
           Split(old, a, x), Split(new, b, x)
    PROVE  /\ b <= a + ParseMargin
           /\ \A n \in Fresh(old, new) : n >= x => b < a + ParseMargin
<1>1. /\ Len(old) \in Nat /\ Len(new) \in Nat
      /\ DOMAIN old = 1 .. Len(old) /\ DOMAIN new = 1 .. Len(new)
      /\ \A q \in 1 .. Len(old) : old[q].number \in Nat
      /\ \A j \in 1 .. Len(new) : /\ new[j].number \in Nat
                                  /\ new[j].number \in 1 .. EndOfEntities - 1
                                  /\ HasNumber(new, new[j].number)
  BY OrderedParts
<1>2. PICK f, g : /\ f = [q \in 1 .. a |-> old[q].number]
                  /\ g = [j \in 1 .. b |-> new[j].number]
  OBVIOUS
<1>3. a \in Nat /\ b \in Nat /\ f \in [1 .. a -> Nat] /\ g \in [1 .. b -> Nat]
  BY <1>1, <1>2
<1>4. \A i, j \in 1 .. b : i < j => g[i] < g[j]
  <2>1. \A i \in 1 .. b : i \in 1 .. Len(new) /\ g[i] = new[i].number
    BY <1>1, <1>2
  <2> QED
    BY <2>1 DEF Ordered
<1>5. ASSUME NEW j \in 1 .. b
      PROVE  /\ g[j] < x
             /\ (\E q \in 1 .. a : f[q] = g[j]) \/ g[j] \in Fresh(old, new)
  <2>1. j \in 1 .. Len(new) /\ j <= b /\ g[j] = new[j].number
    BY <1>1, <1>2
  <2>2. g[j] < x
    BY <2>1 DEF Split
  <2>3. CASE ~HasNumber(old, g[j])
    BY <1>1, <2>1, <2>2, <2>3 DEF Fresh
  <2>4. CASE HasNumber(old, g[j])
    <3>1. PICK q \in 1 .. Len(old) : old[q].number = g[j]
      BY <1>1, <2>4 DEF HasNumber
    <3>2. q <= a
      BY <2>2, <3>1 DEF Split
    <3>3. q \in 1 .. a /\ f[q] = g[j]
      BY <1>1, <1>2, <3>1, <3>2
    <3> QED
      BY <2>2, <3>3
  <2> QED
    BY <2>3, <2>4
<1>6. PICK F : F = Fresh(old, new)
  OBVIOUS
<1>7. F \in SUBSET Nat /\ IsFiniteSet(F) /\ Cardinality(F) \in Nat
  <2>1. F \in SUBSET (1 .. EndOfEntities - 1) /\ EndOfEntities - 1 \in Int
    BY <1>6, Sizes DEF Fresh
  <2>2. IsFiniteSet(1 .. EndOfEntities - 1)
    BY <2>1, FS_Interval
  <2>3. IsFiniteSet(F)
    BY <2>1, <2>2, FS_Subset
  <2> QED
    BY <2>1, <2>3, FS_CardinalityType
<1>8. b <= a + Cardinality(F)
  BY <1>3, <1>4, <1>5, <1>6, <1>7, CountBound
<1>9. ASSUME NEW n \in F, n >= x
      PROVE  b < a + ParseMargin
  <2>1. PICK G : G = F \ {n}
    OBVIOUS
  <2>2. G \in SUBSET Nat /\ IsFiniteSet(G) /\ Cardinality(G) = Cardinality(F) - 1
    BY <1>7, <1>9, <2>1, FS_RemoveElement
  <2>3. ASSUME NEW j \in 1 .. b
        PROVE  (\E q \in 1 .. a : f[q] = g[j]) \/ g[j] \in G
    <3>1. g[j] \in Nat /\ n \in Nat /\ g[j] # n
      BY <1>3, <1>5, <1>7, <1>9
    <3> QED
      BY <1>5, <1>6, <2>1, <3>1
  <2>4. b <= a + Cardinality(G)
    BY <1>3, <1>4, <2>2, <2>3, CountBound
  <2> QED
    BY <1>3, <1>6, <1>7, <2>2, <2>4, Sizes
<1> QED
  BY <1>3, <1>6, <1>7, <1>8, <1>9, Sizes

-----------------------------------------------------------------------------
(* The merge of a delta from old to new, where the ring still has old.      *)

Merges(c, base, old, new) ==
    /\ c \in ClientHalf /\ IsBase(base)
    /\ Ordered(old) /\ Ordered(new)
    /\ base.count = Len(old)
    /\ base.start + Len(old) <= c.next
    /\ \A q \in 1 .. Len(old) : c.entities[ClSlot(base.start + q - 1)] = old[q]
    /\ Len(old) # 0 =>
          /\ c.next - base.start <= MaxParseEntities - ParseMargin
          /\ Cardinality(Fresh(old, new)) <= ParseMargin

(* a entities of the base are read and b of the snapshot are written; those *)
(* that are still to be read are intact, and those written too, as long as  *)
(* the snapshot does not fill the ring.                                     *)
At(g, c, base, old, new, a, b) ==
    /\ g \in MergeState
    /\ g.i = a /\ g.next = c.next + b
    /\ g.number = IF a < Len(old) THEN old[a + 1].number ELSE BehindLast
    /\ \A q \in a + 1 .. Len(old) : g.entities[ClSlot(base.start + q - 1)] = old[q]
    /\ Len(new) < MaxParseEntities =>
          \A j \in 1 .. b : g.entities[ClSlot(c.next + j - 1)] = new[j]

(* All numbers below x are done.                                            *)
Stage(g, c, base, old, new, x) ==
    \E a \in 0 .. Len(old), b \in 0 .. Len(new) :
       At(g, c, base, old, new, a, b) /\ Split(old, a, x) /\ Split(new, b, x)

LEMMA MergesParts ==
    ASSUME NEW c, NEW base, NEW old, NEW new, Merges(c, base, old, new)
    PROVE  /\ c \in ClientHalf /\ c.next \in Nat /\ IsBase(base)
           /\ base.start \in Nat /\ base.count = Len(old)
           /\ Len(old) \in Nat /\ Len(new) \in Nat
           /\ base.start + Len(old) <= c.next
           /\ \A j \in 1 .. Len(new) : new[j] \in Entity
           /\ Ordered(old) /\ Ordered(new)
  BY OrderedParts DEF Merges, IsBase, ClientHalf

(* The entities of a snapshot have numbers below the one that ends them.    *)
LEMMA NumbersBelow ==
    ASSUME NEW c, NEW base, NEW old, NEW new, Merges(c, base, old, new)
    PROVE  \A j \in 1 .. Len(new) : new[j].number # EndOfEntities
<1>1. \A j \in 1 .. Len(new) : new[j].number \in 1 .. EndOfEntities - 1
  BY OrderedParts DEF Merges
<1> QED
  BY <1>1, BehindLastIs

(* Which slots the next entity leaves alone. *)
LEMMA SlotsLeft ==
    ASSUME NEW c, NEW base, NEW old, NEW new, Merges(c, base, old, new),
           NEW b \in 0 .. Len(new)
    PROVE  /\ ClSlot(c.next + b) \in 0 .. MaxParseEntities - 1
           /\ \A q \in 1 .. Len(old) :
                 b < q - 1 + ParseMargin
                    => /\ ClSlot(base.start + q - 1) # ClSlot(c.next + b)
                       /\ ClSlot(base.start + q - 1) \in 0 .. MaxParseEntities - 1
           /\ Len(new) < MaxParseEntities =>
                 \A j \in 1 .. b :
                    /\ ClSlot(c.next + j - 1) # ClSlot(c.next + b)
                    /\ ClSlot(c.next + j - 1) \in 0 .. MaxParseEntities - 1
<1>1. PICK n, s, lo, ln, M, P :
         /\ n = c.next /\ s = base.start /\ lo = Len(old) /\ ln = Len(new)
         /\ M = MaxParseEntities /\ P = ParseMargin
  OBVIOUS
<1>2. /\ n \in Nat /\ s \in Nat /\ lo \in Nat /\ ln \in Nat
      /\ M \in Nat \ {0} /\ P \in Nat \ {0} /\ s + lo <= n /\ b \in 0 .. ln
  BY <1>1, MergesParts, Sizes
<1>3. ClSlot(c.next + b) \in 0 .. MaxParseEntities - 1
  <2>1. n + b \in Nat
    BY <1>2
  <2> QED
    BY <1>1, <2>1, ClSlotOf
<1>4. ASSUME NEW q \in 1 .. Len(old), b < q - 1 + ParseMargin
      PROVE  /\ ClSlot(base.start + q - 1) # ClSlot(c.next + b)
             /\ ClSlot(base.start + q - 1) \in 0 .. MaxParseEntities - 1
  <2>1. n - s <= M - P
    <3>1. Len(old) # 0
      BY <1>1, <1>2
    <3> QED
      BY <1>1, <3>1 DEF Merges
  <2>2. q \in 1 .. lo /\ b < q - 1 + P
    BY <1>1, <1>4
  <2>3. PICK x, y : x = s + q - 1 /\ y = n + b
    OBVIOUS
  <2>4. x \in Nat /\ y \in Nat /\ x < y /\ y - x < M
    BY <1>2, <2>1, <2>2, <2>3
  <2>5. x % M # y % M
    BY <1>2, <2>4, SlotsDiffer
  <2>6. ClSlot(x) \in 0 .. MaxParseEntities - 1
    BY <2>4, ClSlotOf
  <2> QED
    BY <1>1, <2>3, <2>5, <2>6 DEF ClSlot
<1>5. ASSUME Len(new) < MaxParseEntities, NEW j \in 1 .. b
      PROVE  /\ ClSlot(c.next + j - 1) # ClSlot(c.next + b)
             /\ ClSlot(c.next + j - 1) \in 0 .. MaxParseEntities - 1
  <2>1. ln < M /\ j \in 1 .. b
    BY <1>1, <1>5
  <2>2. PICK x, y : x = n + j - 1 /\ y = n + b
    OBVIOUS
  <2>3. x \in Nat /\ y \in Nat /\ x < y /\ y - x < M
    BY <1>2, <2>1, <2>2
  <2>4. x % M # y % M
    BY <1>2, <2>3, SlotsDiffer
  <2>5. ClSlot(x) \in 0 .. MaxParseEntities - 1
    BY <2>3, ClSlotOf
  <2> QED
    BY <1>1, <2>2, <2>4, <2>5 DEF ClSlot
<1> QED
  BY <1>3, <1>4, <1>5

LEMMA AtParts ==
    ASSUME NEW c, NEW base, NEW old, NEW new, Merges(c, base, old, new),
           NEW a \in 0 .. Len(old), NEW b \in 0 .. Len(new),
           NEW g, At(g, c, base, old, new, a, b)
    PROVE  /\ a \in Nat /\ b \in Nat /\ g \in MergeState /\ g.i = a
           /\ a < Len(old) =>
                 /\ a + 1 \in 1 .. Len(old) /\ g.number = old[a + 1].number
                 /\ Current(g, base) = old[a + 1]
           /\ ~(a < Len(old)) => g.number = BehindLast
<1>1. /\ a \in Nat /\ b \in Nat /\ g \in MergeState /\ g.i = a
      /\ Len(old) \in Nat /\ base.start \in Nat
  BY MergesParts DEF At
<1>2. ASSUME a < Len(old)
      PROVE  a + 1 \in 1 .. Len(old) /\ Current(g, base) = old[a + 1]
  <2>1. a + 1 \in a + 1 .. Len(old) /\ a + 1 \in 1 .. Len(old)
    BY <1>1, <1>2
  <2>2. g.entities[ClSlot(base.start + (a + 1) - 1)] = old[a + 1]
    BY <2>1 DEF At
  <2>3. base.start + (a + 1) - 1 = base.start + a
    BY <1>1
  <2> QED
    BY <1>1, <2>1, <2>2, <2>3 DEF Current
<1> QED
  BY <1>1, <1>2 DEF At

Wrote(r, g, e) == r = [g.entities EXCEPT ![ClSlot(g.next)] = e]

(* Entity e is written; what is to be read from base entity q0 + 1 on, and  *)
(* what was written before, stays.                                          *)
LEMMA WriteAt ==
    ASSUME NEW c, NEW base, NEW old, NEW new, Merges(c, base, old, new),
           NEW a \in 0 .. Len(old), NEW b \in 0 .. Len(new),
           NEW g, At(g, c, base, old, new, a, b),
           NEW r, NEW e, Wrote(r, g, e),
           NEW q0 \in a .. Len(old), q0 < Len(old) => b < q0 + ParseMargin
    PROVE  /\ r[ClSlot(c.next + b)] = e
           /\ \A q \in q0 + 1 .. Len(old) : r[ClSlot(base.start + q - 1)] = old[q]
           /\ Len(new) < MaxParseEntities =>
                 \A j \in 1 .. b : r[ClSlot(c.next + j - 1)] = new[j]
<1>1. /\ a \in Nat /\ b \in Nat /\ Len(old) \in Nat /\ q0 \in Nat /\ a <= q0
      /\ g.next = c.next + b /\ ParseMargin \in Nat
      /\ g.entities \in [0 .. MaxParseEntities - 1 -> Entity]
  BY AtParts, MergesParts, MergeParts, Sizes DEF At
<1>2. r[ClSlot(c.next + b)] = e
  BY <1>1, SlotsLeft DEF Wrote
<1>3. ASSUME NEW q \in q0 + 1 .. Len(old)
      PROVE  r[ClSlot(base.start + q - 1)] = old[q]
  <2>1. q \in a + 1 .. Len(old) /\ q \in 1 .. Len(old) /\ q0 < Len(old)
    BY <1>1
  <2>2. b < q - 1 + ParseMargin
    BY <1>1, <2>1
  <2>3. g.entities[ClSlot(base.start + q - 1)] = old[q]
    BY <2>1 DEF At
  <2> QED
    BY <1>1, <2>1, <2>2, <2>3, SlotsLeft DEF Wrote
<1>4. ASSUME Len(new) < MaxParseEntities, NEW j \in 1 .. b
      PROVE  r[ClSlot(c.next + j - 1)] = new[j]
  <2>1. g.entities[ClSlot(c.next + j - 1)] = new[j]
    BY <1>4 DEF At
  <2> QED
    BY <1>1, <1>4, <2>1, SlotsLeft DEF Wrote
<1> QED
  BY <1>2, <1>3, <1>4

(* The next entity of the snapshot is the next one of the base, copied or   *)
(* changed.                                                                 *)
LEMMA TakeAt ==
    ASSUME NEW c, NEW base, NEW old, NEW new, Merges(c, base, old, new),
           NEW a \in 0 .. Len(old), NEW b \in 0 .. Len(new),
           NEW g, At(g, c, base, old, new, a, b),
           a < Len(old), b < Len(new), b <= a + ParseMargin
    PROVE  /\ a + 1 \in 0 .. Len(old) /\ b + 1 \in 0 .. Len(new)
           /\ At(Advanced(Written(g, new[b + 1]), base), c, base, old, new,
                 a + 1, b + 1)
<1>1. /\ a \in Nat /\ b \in Nat /\ Len(old) \in Nat /\ Len(new) \in Nat
      /\ g \in MergeState /\ g.i = a /\ IsBase(base) /\ base.count = Len(old)
      /\ base.start \in Nat /\ c.next \in Nat
      /\ ParseMargin \in Nat /\ g.next = c.next + b
      /\ new[b + 1] \in Entity /\ new[b + 1].number # EndOfEntities
  <2>1. b + 1 \in 1 .. Len(new)
    BY MergesParts
  <2> QED
    BY <2>1, AtParts, MergesParts, NumbersBelow, Sizes DEF At
<1>2. PICK e, w, r : e = new[b + 1] /\ w = Written(g, e) /\ r = w.entities
  OBVIOUS
<1>3. /\ w \in MergeState /\ w.next = g.next + 1 /\ w.i = g.i
      /\ r = [g.entities EXCEPT ![ClSlot(g.next)] = e]
  <2>1. g \in MergeState /\ e \in Entity /\ w = Written(g, e)
        /\ e.number # EndOfEntities
    BY <1>1, <1>2
  <2> QED
    BY <1>2, <2>1, WrittenParts
<1>4. PICK h : h = Advanced(w, base)
  OBVIOUS
<1>5. /\ h \in MergeState /\ h.next = w.next /\ h.entities = w.entities
      /\ h.i = w.i + 1
      /\ h.number = IF w.i + 1 < base.count
                    THEN w.entities[ClSlot(base.start + (w.i + 1))].number
                    ELSE BehindLast
  <2>1. w \in MergeState /\ IsBase(base) /\ h = Advanced(w, base)
    BY <1>1, <1>3, <1>4
  <2> QED
    BY <2>1, AdvancedParts
<1>6. /\ w.entities[ClSlot(c.next + b)] = new[b + 1]
      /\ \A q \in (a + 1) + 1 .. Len(old) :
            w.entities[ClSlot(base.start + q - 1)] = old[q]
      /\ Len(new) < MaxParseEntities =>
            \A j \in 1 .. b : w.entities[ClSlot(c.next + j - 1)] = new[j]
  <2>1. PICK q0 : q0 = a + 1
    OBVIOUS
  <2>2. q0 \in a .. Len(old) /\ b < q0 + ParseMargin
    BY <1>1, <2>1
  <2>4. Wrote(r, g, e)
    BY <1>3 DEF Wrote
  <2>3. /\ r[ClSlot(c.next + b)] = e
        /\ \A q \in q0 + 1 .. Len(old) : r[ClSlot(base.start + q - 1)] = old[q]
        /\ Len(new) < MaxParseEntities =>
              \A j \in 1 .. b : r[ClSlot(c.next + j - 1)] = new[j]
    BY <2>2, <2>4, WriteAt
  <2> QED
    BY <1>2, <2>1, <2>3
<1>7. h.i = a + 1 /\ h.next = c.next + (b + 1)
  <2>1. PICK n : n = c.next
    OBVIOUS
  <2>2. h.next = (n + b) + 1 /\ h.i = a + 1 /\ n \in Nat /\ b \in Nat
    BY <1>1, <1>3, <1>5, <2>1
  <2> QED
    BY <2>1, <2>2
<1>8. h.number = IF a + 1 < Len(old) THEN old[(a + 1) + 1].number ELSE BehindLast
  <2>1. CASE a + 1 < Len(old)
    <3>1. (a + 1) + 1 \in (a + 1) + 1 .. Len(old)
      BY <1>1, <2>1
    <3>2. base.start + ((a + 1) + 1) - 1 = base.start + (a + 1)
      BY <1>1
    <3>3. w.entities[ClSlot(base.start + (a + 1))] = old[(a + 1) + 1]
      BY <1>6, <3>1, <3>2
    <3> QED
      BY <1>1, <1>3, <1>5, <2>1, <3>3
  <2>2. CASE ~(a + 1 < Len(old))
    BY <1>1, <1>3, <1>5, <2>2
  <2> QED
    BY <2>1, <2>2
<1>9. Len(new) < MaxParseEntities =>
         \A j \in 1 .. b + 1 : h.entities[ClSlot(c.next + j - 1)] = new[j]
  <2> SUFFICES ASSUME Len(new) < MaxParseEntities, NEW j \in 1 .. b + 1
               PROVE  h.entities[ClSlot(c.next + j - 1)] = new[j]
    OBVIOUS
  <2>1. CASE j = b + 1
    <3>1. c.next + j - 1 = c.next + b
      BY <1>1, <2>1
    <3> QED
      BY <1>5, <1>6, <2>1, <3>1
  <2>2. CASE j \in 1 .. b
    BY <1>5, <1>6, <2>2
  <2> QED
    BY <1>1, <2>1, <2>2
<1>10. At(h, c, base, old, new, a + 1, b + 1)
  BY <1>5, <1>6, <1>7, <1>8, <1>9 DEF At
<1> QED
  BY <1>1, <1>2, <1>4, <1>10

(* The next one of the base is removed: its mark is behind what is written. *)
LEMMA DropAt ==
    ASSUME NEW c, NEW base, NEW old, NEW new, Merges(c, base, old, new),
           NEW a \in 0 .. Len(old), NEW b \in 0 .. Len(new),
           NEW g, At(g, c, base, old, new, a, b),
           a < Len(old), b <= a + ParseMargin
    PROVE  /\ a + 1 \in 0 .. Len(old)
           /\ At(Advanced(Erased(g), base), c, base, old, new, a + 1, b)
<1>1. /\ a \in Nat /\ b \in Nat /\ Len(old) \in Nat
      /\ g \in MergeState /\ g.i = a /\ IsBase(base) /\ base.count = Len(old)
      /\ base.start \in Nat /\ c.next \in Nat
      /\ ParseMargin \in Nat /\ g.next = c.next + b
  BY AtParts, MergesParts, Sizes DEF At
<1>2. PICK w, r : w = Erased(g) /\ r = w.entities
  OBVIOUS
<1>3. /\ w \in MergeState /\ w.next = g.next /\ w.i = g.i
      /\ r = [g.entities EXCEPT ![ClSlot(g.next)] = Gone]
  BY <1>1, <1>2, ErasedParts
<1>4. PICK h : h = Advanced(w, base)
  OBVIOUS
<1>5. /\ h \in MergeState /\ h.next = w.next /\ h.entities = w.entities
      /\ h.i = w.i + 1
      /\ h.number = IF w.i + 1 < base.count
                    THEN w.entities[ClSlot(base.start + (w.i + 1))].number
                    ELSE BehindLast
  BY <1>1, <1>3, <1>4, AdvancedParts
<1>6. /\ \A q \in (a + 1) + 1 .. Len(old) :
            w.entities[ClSlot(base.start + q - 1)] = old[q]
      /\ Len(new) < MaxParseEntities =>
            \A j \in 1 .. b : w.entities[ClSlot(c.next + j - 1)] = new[j]
  <2>1. PICK q0 : q0 = a + 1
    OBVIOUS
  <2>2. q0 \in a .. Len(old) /\ b < q0 + ParseMargin
    BY <1>1, <2>1
  <2>4. Wrote(r, g, Gone)
    BY <1>3 DEF Wrote
  <2>3. /\ \A q \in q0 + 1 .. Len(old) : r[ClSlot(base.start + q - 1)] = old[q]
        /\ Len(new) < MaxParseEntities =>
              \A j \in 1 .. b : r[ClSlot(c.next + j - 1)] = new[j]
    BY <2>2, <2>4, WriteAt
  <2> QED
    BY <1>2, <2>1, <2>3
<1>7. h.i = a + 1 /\ h.next = c.next + b
  BY <1>1, <1>3, <1>5
<1>8. h.number = IF a + 1 < Len(old) THEN old[(a + 1) + 1].number ELSE BehindLast
  <2>1. CASE a + 1 < Len(old)
    <3>1. (a + 1) + 1 \in (a + 1) + 1 .. Len(old)
      BY <1>1, <2>1
    <3>2. base.start + ((a + 1) + 1) - 1 = base.start + (a + 1)
      BY <1>1
    <3>3. w.entities[ClSlot(base.start + (a + 1))] = old[(a + 1) + 1]
      BY <1>6, <3>1, <3>2
    <3> QED
      BY <1>1, <1>3, <1>5, <2>1, <3>3
  <2>2. CASE ~(a + 1 < Len(old))
    BY <1>1, <1>3, <1>5, <2>2
  <2> QED
    BY <2>1, <2>2
<1>9. At(h, c, base, old, new, a + 1, b)
  BY <1>5, <1>6, <1>7, <1>8 DEF At
<1> QED
  BY <1>1, <1>2, <1>4, <1>9

(* The next one of the snapshot is not in the base. *)
LEMMA InsertAt ==
    ASSUME NEW c, NEW base, NEW old, NEW new, Merges(c, base, old, new),
           NEW a \in 0 .. Len(old), NEW b \in 0 .. Len(new),
           NEW g, At(g, c, base, old, new, a, b),
           b < Len(new), a < Len(old) => b < a + ParseMargin
    PROVE  /\ b + 1 \in 0 .. Len(new)
           /\ At(Written(g, new[b + 1]), c, base, old, new, a, b + 1)
<1>1. /\ a \in Nat /\ b \in Nat /\ Len(old) \in Nat /\ Len(new) \in Nat
      /\ g \in MergeState /\ g.i = a
      /\ c.next \in Nat /\ g.next = c.next + b /\ new[b + 1] \in Entity
      /\ new[b + 1].number # EndOfEntities
      /\ g.number = IF a < Len(old) THEN old[a + 1].number ELSE BehindLast
  <2>1. b + 1 \in 1 .. Len(new)
    BY MergesParts
  <2> QED
    BY <2>1, AtParts, MergesParts, NumbersBelow DEF At
<1>2. PICK e, h, r : e = new[b + 1] /\ h = Written(g, e) /\ r = h.entities
  OBVIOUS
<1>3. /\ h \in MergeState /\ h.next = g.next + 1 /\ h.i = g.i
      /\ h.number = g.number
      /\ r = [g.entities EXCEPT ![ClSlot(g.next)] = e]
  <2>1. g \in MergeState /\ e \in Entity /\ h = Written(g, e)
        /\ e.number # EndOfEntities
    BY <1>1, <1>2
  <2> QED
    BY <1>2, <2>1, WrittenParts
<1>4. /\ h.entities[ClSlot(c.next + b)] = new[b + 1]
      /\ \A q \in a + 1 .. Len(old) :
            h.entities[ClSlot(base.start + q - 1)] = old[q]
      /\ Len(new) < MaxParseEntities =>
            \A j \in 1 .. b : h.entities[ClSlot(c.next + j - 1)] = new[j]
  <2>1. /\ a \in a .. Len(old)
        /\ Wrote(r, g, e)
    BY <1>1, <1>3 DEF Wrote
  <2>2. /\ r[ClSlot(c.next + b)] = e
        /\ \A q \in a + 1 .. Len(old) : r[ClSlot(base.start + q - 1)] = old[q]
        /\ Len(new) < MaxParseEntities =>
              \A j \in 1 .. b : r[ClSlot(c.next + j - 1)] = new[j]
    BY <2>1, WriteAt
  <2> QED
    BY <1>2, <2>2
<1>5. h.next = c.next + (b + 1)
  <2>1. PICK n : n = c.next
    OBVIOUS
  <2>2. h.next = (n + b) + 1 /\ n \in Nat /\ b \in Nat
    BY <1>1, <1>3, <2>1
  <2> QED
    BY <2>1, <2>2
<1>6. Len(new) < MaxParseEntities =>
         \A j \in 1 .. b + 1 : h.entities[ClSlot(c.next + j - 1)] = new[j]
  <2> SUFFICES ASSUME Len(new) < MaxParseEntities, NEW j \in 1 .. b + 1
               PROVE  h.entities[ClSlot(c.next + j - 1)] = new[j]
    OBVIOUS
  <2>1. CASE j = b + 1
    <3>1. c.next + j - 1 = c.next + b
      BY <1>1, <2>1
    <3> QED
      BY <1>4, <2>1, <3>1
  <2>2. CASE j \in 1 .. b
    BY <1>4, <2>2
  <2> QED
    BY <1>1, <2>1, <2>2
<1>7. At(h, c, base, old, new, a, b + 1)
  BY <1>1, <1>3, <1>4, <1>5, <1>6 DEF At
<1> QED
  BY <1>1, <1>2, <1>7

-----------------------------------------------------------------------------
(* The steps of the merge. *)

(* No number from x up to n is mentioned.                                   *)
Quiet(old, new, x, n) ==
    \A z \in 1 .. EndOfEntities - 1 : z >= x /\ z < n => ~IsMentioned(old, new, z)

(* What is in both, and not mentioned, is next in both.                     *)
LEMMA NextIsSame ==
    ASSUME NEW old, Ordered(old), NEW new, Ordered(new),
           NEW a \in 0 .. Len(old), NEW b \in 0 .. Len(new), NEW x \in Nat,
           Split(old, a, x), Split(new, b, x), a < Len(old),
           NEW n \in Nat, old[a + 1].number < n, Quiet(old, new, x, n)
    PROVE  b < Len(new) /\ new[b + 1] = old[a + 1] /\ old[a + 1].number >= x
<1>1. /\ a + 1 \in 1 .. Len(old) /\ Len(old) \in Nat
      /\ ~(a + 1 <= a)
  BY OrderedParts
<1>2. PICK v : v = old[a + 1].number
  OBVIOUS
<1>3. /\ v \in 1 .. EndOfEntities - 1 /\ v \in Nat
      /\ HasNumber(old, v) /\ WithNumber(old, v) = old[a + 1]
  BY <1>1, <1>2, OrderedParts
<1>4. v >= x
  <2>1. ~(v < x)
    BY <1>1, <1>2 DEF Split
  <2> QED
    BY <1>3, <2>1
<1>5. HasNumber(new, v) /\ WithNumber(new, v) = old[a + 1]
  <2>1. ~IsMentioned(old, new, v)
    BY <1>2, <1>3, <1>4 DEF Quiet
  <2> QED
    BY <1>3, <2>1 DEF IsMentioned
<1>6. PICK j \in 1 .. Len(new) : new[j].number = v
  BY <1>5, OrderedParts DEF HasNumber
<1>7. /\ b < Len(new) /\ b + 1 \in 1 .. Len(new)
      /\ new[b + 1].number >= x /\ new[b + 1].number <= v
  BY <1>4, <1>6, SplitNext
<1>8. PICK u : u = new[b + 1].number
  OBVIOUS
<1>9. /\ u \in 1 .. EndOfEntities - 1 /\ u \in Nat
      /\ HasNumber(new, u) /\ WithNumber(new, u) = new[b + 1]
  BY <1>7, <1>8, OrderedParts
<1>10. u = v
  <2> SUFFICES ASSUME u # v
               PROVE  FALSE
    OBVIOUS
  <2>1. u < v /\ u >= x /\ u < n
    BY <1>2, <1>3, <1>7, <1>8, <1>9
  <2>2. ~IsMentioned(old, new, u)
    BY <1>9, <2>1 DEF Quiet
  <2>3. PICK q \in 1 .. Len(old) : old[q].number = u
    BY <1>9, <2>2, OrderedParts DEF IsMentioned, HasNumber
  <2>4. old[a + 1].number <= u
    BY <2>1, <2>3, SplitNext
  <2> QED
    BY <1>2, <1>3, <1>9, <2>1, <2>4
<1> QED
  BY <1>2, <1>4, <1>5, <1>7, <1>9, <1>10

LEMMA Ahead ==
    ASSUME NEW c, NEW base, NEW old, NEW new, Merges(c, base, old, new),
           NEW x \in Nat, NEW a \in 0 .. Len(old), NEW b \in 0 .. Len(new),
           Split(old, a, x), Split(new, b, x), a < Len(old)
    PROVE  /\ b <= a + ParseMargin
           /\ \A n \in Fresh(old, new) : n >= x => b < a + ParseMargin
<1>1. Ordered(old) /\ Ordered(new) /\ Len(old) # 0
  BY MergesParts
<1>2. Cardinality(Fresh(old, new)) <= ParseMargin
  BY <1>1 DEF Merges
<1> QED
  BY <1>1, <1>2, WrittenAhead

LEMMA CopyStep ==
    ASSUME NEW c, NEW base, NEW old, NEW new, Merges(c, base, old, new),
           NEW a \in 0 .. Len(old), NEW b \in 0 .. Len(new),
           NEW g, At(g, c, base, old, new, a, b),
           NEW x \in Nat, Split(old, a, x), Split(new, b, x),
           a < Len(old), NEW n \in Nat, old[a + 1].number < n,
           Quiet(old, new, x, n)
    PROVE  /\ a + 1 \in 0 .. Len(old) /\ b + 1 \in 0 .. Len(new)
           /\ At(CopyNext(g, base, n), c, base, old, new, a + 1, b + 1)
           /\ \E y \in Nat : /\ x <= y /\ y <= n
                             /\ Split(old, a + 1, y) /\ Split(new, b + 1, y)
<1>1. Ordered(old) /\ Ordered(new)
  BY MergesParts
<1>2. b < Len(new) /\ new[b + 1] = old[a + 1] /\ old[a + 1].number >= x
  BY <1>1, NextIsSame
<1>3. PICK v : v = old[a + 1].number
  OBVIOUS
<1>4. v \in Nat \ {0} /\ g.number = v /\ Current(g, base) = new[b + 1]
  <2>1. a + 1 \in 1 .. Len(old) /\ g.number = v /\ Current(g, base) = old[a + 1]
    BY <1>3, AtParts
  <2> QED
    BY <1>1, <1>2, <1>3, <2>1, OrderedParts
<1>5. CopyNext(g, base, n) = Advanced(Written(g, new[b + 1]), base)
  <2>1. ~(g.number >= n)
    BY <1>3, <1>4
  <2> QED
    BY <1>4, <2>1 DEF CopyNext
<1>6. b <= a + ParseMargin
  BY Ahead
<1>7. /\ a + 1 \in 0 .. Len(old) /\ b + 1 \in 0 .. Len(new)
      /\ At(CopyNext(g, base, n), c, base, old, new, a + 1, b + 1)
  BY <1>2, <1>5, <1>6, TakeAt
<1>8. Split(old, a + 1, v + 1) /\ Split(new, b + 1, v + 1)
  BY <1>1, <1>2, <1>3, SplitStep
<1>9. v + 1 \in Nat /\ x <= v + 1 /\ v + 1 <= n
  BY <1>2, <1>3, <1>4
<1> QED
  BY <1>7, <1>8, <1>9

(* The copies have reached a number up to n, after k steps.                 *)
Midway(g, c, base, old, new, x, n, k) ==
    \E a \in 0 .. Len(old), b \in 0 .. Len(new), y \in Nat :
       /\ At(g, c, base, old, new, a, b)
       /\ x <= y /\ y <= n /\ Split(old, a, y) /\ Split(new, b, y)
       /\ k <= a \/ ~(a < Len(old) /\ old[a + 1].number < n)

LEMMA QuietAfter ==
    ASSUME NEW old, NEW new, NEW x \in Nat, NEW y \in Nat, x <= y, NEW n \in Nat,
           Quiet(old, new, x, n)
    PROVE  Quiet(old, new, y, n)
<1> SUFFICES ASSUME NEW z \in 1 .. EndOfEntities - 1, z >= y, z < n
             PROVE  ~IsMentioned(old, new, z)
  BY DEF Quiet
<1>1. z >= x
  BY Sizes
<1> QED
  BY <1>1 DEF Quiet

LEMMA MidwayStep ==
    ASSUME NEW c, NEW base, NEW old, NEW new, Merges(c, base, old, new),
           NEW x \in Nat, NEW n \in Nat, n <= BehindLast, Quiet(old, new, x, n),
           NEW k \in Nat, NEW g, Midway(g, c, base, old, new, x, n, k)
    PROVE  Midway(CopyNext(g, base, n), c, base, old, new, x, n, k + 1)
<1>1. PICK a \in 0 .. Len(old), b \in 0 .. Len(new), y \in Nat :
         /\ At(g, c, base, old, new, a, b)
         /\ x <= y /\ y <= n /\ Split(old, a, y) /\ Split(new, b, y)
         /\ k <= a \/ ~(a < Len(old) /\ old[a + 1].number < n)
  BY DEF Midway
<1>2. CASE a < Len(old) /\ old[a + 1].number < n
  <2>1. Quiet(old, new, y, n)
    BY <1>1, QuietAfter
  <2>2. /\ a + 1 \in 0 .. Len(old) /\ b + 1 \in 0 .. Len(new)
        /\ At(CopyNext(g, base, n), c, base, old, new, a + 1, b + 1)
        /\ \E z \in Nat : /\ y <= z /\ z <= n
                          /\ Split(old, a + 1, z) /\ Split(new, b + 1, z)
    BY <1>1, <1>2, <2>1, CopyStep
  <2>3. PICK z \in Nat : y <= z /\ z <= n /\ Split(old, a + 1, z) /\ Split(new, b + 1, z)
    BY <2>2
  <2>4. x <= z /\ k + 1 <= a + 1
    BY <1>1, <1>2, <2>3, MergesParts
  <2> QED
    BY <2>2, <2>3, <2>4 DEF Midway
<1>3. CASE ~(a < Len(old) /\ old[a + 1].number < n)
  <2>1. g.number >= n
    <3>1. CASE a < Len(old)
      <4>1. a + 1 \in 1 .. Len(old) /\ g.number = old[a + 1].number
        BY <1>1, <3>1, AtParts
      <4>2. old[a + 1].number \in Nat
        BY <4>1, MergesParts, OrderedParts
      <4> QED
        BY <1>3, <3>1, <4>1, <4>2
    <3>2. CASE ~(a < Len(old))
      BY <1>1, <3>2, AtParts, BehindLastIs
    <3> QED
      BY <3>1, <3>2
  <2>2. CopyNext(g, base, n) = g
    BY <2>1 DEF CopyNext
  <2> QED
    BY <1>1, <1>3, <2>2 DEF Midway
<1> QED
  BY <1>2, <1>3

LEMMA CopiedStage ==
    ASSUME NEW c, NEW base, NEW old, NEW new, Merges(c, base, old, new),
           NEW x \in Nat, NEW n \in Nat, x <= n, n <= BehindLast,
           Quiet(old, new, x, n), NEW g, Stage(g, c, base, old, new, x)
    PROVE  Stage(CopiedBelow(g, base, n), c, base, old, new, n)
<1>1. /\ Ordered(old) /\ Ordered(new) /\ IsBase(base)
      /\ base.count = Len(old) /\ Len(old) \in Nat
  BY MergesParts
<1>2. g \in MergeState
  BY DEF Stage, At
<1>3. PICK f : CopyRun(f, g, base, n)
  BY <1>1, <1>2, CopyRunExists
<1>4. PICK T : T = {k \in 0 .. Len(old) : Midway(f[k], c, base, old, new, x, n, k)}
  OBVIOUS
<1>5. 0 \in T
  <2>1. f[0] = g
    BY <1>3 DEF CopyRun
  <2>2. PICK a \in 0 .. Len(old), b \in 0 .. Len(new) :
           At(g, c, base, old, new, a, b) /\ Split(old, a, x) /\ Split(new, b, x)
    BY DEF Stage
  <2>3. 0 <= a /\ x <= x
    BY <1>1
  <2>4. Midway(g, c, base, old, new, x, n, 0)
    BY <2>2, <2>3 DEF Midway
  <2> QED
    BY <1>1, <1>4, <2>1, <2>4
<1>6. ASSUME NEW k \in 1 .. Len(old), k - 1 \in T
      PROVE  k \in T
  <2>1. f[k] = CopyNext(f[k - 1], base, n)
    BY <1>1, <1>3 DEF CopyRun
  <2>2. k - 1 \in Nat /\ Midway(f[k - 1], c, base, old, new, x, n, k - 1)
    BY <1>4, <1>6
  <2>3. Midway(f[k], c, base, old, new, x, n, (k - 1) + 1)
    BY <2>1, <2>2, MidwayStep
  <2>4. (k - 1) + 1 = k /\ k \in 0 .. Len(old)
    OBVIOUS
  <2> QED
    BY <1>4, <2>3, <2>4
<1>7. Len(old) \in T
  <2>1. \A k \in 0 .. Len(old) : k \in T
    BY <1>1, <1>5, <1>6, IntervalInduction
  <2> QED
    BY <1>1, <2>1
<1>8. PICK h : h = CopiedBelow(g, base, n)
  OBVIOUS
<1>9. Midway(h, c, base, old, new, x, n, Len(old))
  BY <1>1, <1>3, <1>4, <1>7, <1>8 DEF CopyRun
<1>10. PICK a \in 0 .. Len(old), b \in 0 .. Len(new), y \in Nat :
         /\ At(h, c, base, old, new, a, b)
         /\ x <= y /\ y <= n /\ Split(old, a, y) /\ Split(new, b, y)
         /\ Len(old) <= a \/ ~(a < Len(old) /\ old[a + 1].number < n)
  BY <1>9 DEF Midway
<1>11. a < Len(old) => a + 1 \in 1 .. Len(old) /\ old[a + 1].number >= n
  <2> SUFFICES ASSUME a < Len(old)
               PROVE  a + 1 \in 1 .. Len(old) /\ old[a + 1].number >= n
    OBVIOUS
  <2>1. a + 1 \in 1 .. Len(old)
    BY <1>1
  <2>2. old[a + 1].number \in Nat
    BY <1>1, <2>1, OrderedParts
  <2> QED
    BY <1>1, <1>10, <2>1, <2>2
<1>12. b < Len(new) => new[b + 1].number >= n
  <2> SUFFICES ASSUME b < Len(new), ~(new[b + 1].number >= n)
               PROVE  FALSE
    OBVIOUS
  <2>1. PICK u : u = new[b + 1].number
    OBVIOUS
  <2>2. b + 1 \in 1 .. Len(new) /\ ~(b + 1 <= b)
    BY <1>1, OrderedParts
  <2>3. u \in 1 .. EndOfEntities - 1 /\ u \in Nat /\ HasNumber(new, u)
    BY <1>1, <2>1, <2>2, OrderedParts
  <2>4. ~(u < y)
    BY <1>10, <2>1, <2>2 DEF Split
  <2>5. u >= y /\ u >= x /\ u < n
    <3>1. x <= y /\ u \in Nat /\ ~(u < y)
      BY <1>10, <2>3, <2>4
    <3>2. ~(u >= n)
      BY <2>1
    <3> QED
      BY <3>1, <3>2
  <2>6. ~IsMentioned(old, new, u)
    BY <2>3, <2>5 DEF Quiet
  <2>7. PICK q \in 1 .. Len(old) : old[q].number = u
    BY <1>1, <2>3, <2>6, OrderedParts DEF IsMentioned, HasNumber
  <2>8. a < Len(old) /\ old[a + 1].number <= u
    BY <1>1, <1>10, <2>5, <2>7, SplitNext
  <2>9. old[a + 1].number \in Nat
    BY <1>1, <1>11, <2>8, OrderedParts
  <2> QED
    BY <1>11, <2>3, <2>5, <2>8, <2>9
<1>13. Split(old, a, n)
  BY <1>1, <1>10, <1>11, SplitSkip
<1>14. Split(new, b, n)
  BY <1>1, <1>10, <1>12, SplitSkip
<1> QED
  BY <1>8, <1>10, <1>13, <1>14 DEF Stage

(* ChangeRead, once the base is copied up to the number of the change.      *)
Read(h, base, change, map) ==
    IF h.number = change.number
    THEN Advanced(Applied(h, change, Current(h, base).version), base)
    ELSE Applied(h, change, -map)

(* An entity of the snapshot is its number and its version. *)
LEMMA AppliedIs ==
    ASSUME NEW h \in MergeState, NEW change \in Change, change.kind = "update",
           NEW version, version = change.from,
           NEW e \in Entity, e.number = change.number, e.version = change.to
    PROVE  Applied(h, change, version) = Written(h, e)
<1>1. PICK d \in Entity : /\ Applied(h, change, version) = Written(h, d)
                          /\ d.number = change.number /\ d.version = change.to
  BY AppliedParts
<1>2. d = e
  BY <1>1 DEF Entity
<1> QED
  BY <1>1, <1>2

LEMMA NextHas ==
    ASSUME NEW e, Ordered(e), NEW a \in 0 .. Len(e), NEW n \in Nat, Split(e, a, n)
    PROVE  /\ HasNumber(e, n) =>
                 /\ a < Len(e) /\ a + 1 \in 1 .. Len(e) /\ e[a + 1].number = n
                 /\ WithNumber(e, n) = e[a + 1]
                 /\ Split(e, a + 1, n + 1) /\ a + 1 \in 0 .. Len(e)
           /\ ~HasNumber(e, n) =>
                 /\ a < Len(e) => e[a + 1].number # n
                 /\ Split(e, a, n + 1)
<1>1. /\ Len(e) \in Nat /\ DOMAIN e = 1 .. Len(e)
      /\ \A i \in 1 .. Len(e) : /\ e[i].number \in Nat
                                /\ HasNumber(e, e[i].number)
                                /\ WithNumber(e, e[i].number) = e[i]
  BY OrderedParts
<1>2. CASE HasNumber(e, n)
  <2>1. PICK q \in 1 .. Len(e) : e[q].number = n
    BY <1>1, <1>2 DEF HasNumber
  <2>2. /\ a < Len(e) /\ a + 1 \in 1 .. Len(e)
        /\ e[a + 1].number >= n /\ e[a + 1].number <= n
    BY <2>1, SplitNext
  <2>3. e[a + 1].number = n
    BY <1>1, <2>2
  <2>4. Split(e, a + 1, n + 1)
    BY <2>2, <2>3, SplitStep
  <2>5. a + 1 \in 0 .. Len(e)
    BY <1>1, <2>2
  <2> QED
    BY <1>1, <1>2, <2>2, <2>3, <2>4, <2>5
<1>3. CASE ~HasNumber(e, n)
  <2>1. ASSUME a < Len(e)
        PROVE  e[a + 1].number # n /\ e[a + 1].number >= n + 1
    <3>1. a + 1 \in 1 .. Len(e) /\ ~(a + 1 <= a)
      BY <1>1, <2>1
    <3>2. e[a + 1].number # n /\ ~(e[a + 1].number < n)
      BY <1>1, <1>3, <3>1 DEF Split
    <3> QED
      BY <1>1, <3>1, <3>2
  <2>2. Split(e, a, n + 1)
    BY <2>1, SplitSkip
  <2> QED
    BY <1>3, <2>1, <2>2
<1> QED
  BY <1>2, <1>3

(* The change for a number that is mentioned makes the snapshot's entity.   *)
LEMMA ReadStage ==
    ASSUME NEW c, NEW base, NEW old, NEW new, Merges(c, base, old, new),
           NEW n \in 1 .. EndOfEntities - 1, IsMentioned(old, new, n),
           NEW change \in Change, change = ChangeOf(old, new, c.map, n),
           NEW h, Stage(h, c, base, old, new, n)
    PROVE  Stage(Read(h, base, change, c.map), c, base, old, new, n + 1)
<1>1. Ordered(old) /\ Ordered(new) /\ n \in Nat \ {0}
  BY MergesParts
<1>2. PICK a \in 0 .. Len(old), b \in 0 .. Len(new) :
         At(h, c, base, old, new, a, b) /\ Split(old, a, n) /\ Split(new, b, n)
  BY DEF Stage
<1>3. h \in MergeState
  BY <1>2, AtParts
<1>4. change.number = n
  BY DEF ChangeOf
<1>5. PICK t : t = Read(h, base, change, c.map)
  OBVIOUS
<1>6. CASE HasNumber(old, n)
  <2>1. /\ a < Len(old) /\ a + 1 \in 1 .. Len(old) /\ old[a + 1].number = n
        /\ WithNumber(old, n) = old[a + 1]
        /\ Split(old, a + 1, n + 1) /\ a + 1 \in 0 .. Len(old)
    BY <1>1, <1>2, <1>6, NextHas
  <2>2. h.number = n /\ Current(h, base) = old[a + 1]
    BY <1>2, <2>1, AtParts
  <2>3. t = Advanced(Applied(h, change, old[a + 1].version), base)
    BY <1>4, <1>5, <2>2 DEF Read
  <2>4. b <= a + ParseMargin
    BY <1>1, <1>2, <2>1, Ahead
  <2>5. CASE HasNumber(new, n)
    <3>1. /\ b < Len(new) /\ b + 1 \in 1 .. Len(new) /\ new[b + 1].number = n
          /\ WithNumber(new, n) = new[b + 1]
          /\ Split(new, b + 1, n + 1) /\ b + 1 \in 0 .. Len(new)
      BY <1>1, <1>2, <2>5, NextHas
    <3>2. /\ change.kind = "update" /\ change.from = old[a + 1].version
          /\ change.to = new[b + 1].version
      BY <1>6, <2>1, <2>5, <3>1 DEF ChangeOf
    <3>3. PICK e : e = new[b + 1]
      OBVIOUS
    <3>4. e \in Entity /\ e.number = change.number /\ e.version = change.to
      BY <1>1, <1>4, <3>1, <3>2, <3>3, OrderedParts
    <3>5. Applied(h, change, old[a + 1].version) = Written(h, e)
      BY <1>3, <3>2, <3>4, AppliedIs
    <3>6. At(Advanced(Written(h, new[b + 1]), base), c, base, old, new, a + 1, b + 1)
      BY <1>2, <2>1, <2>4, <3>1, TakeAt
    <3>7. At(t, c, base, old, new, a + 1, b + 1)
      BY <2>3, <3>3, <3>5, <3>6
    <3> QED
      BY <1>5, <2>1, <3>1, <3>7 DEF Stage
  <2>6. CASE ~HasNumber(new, n)
    <3>1. Split(new, b, n + 1)
      BY <1>1, <1>2, <2>6, NextHas
    <3>2. change.kind = "remove"
      BY <2>6 DEF ChangeOf
    <3>3. Applied(h, change, old[a + 1].version) = Erased(h)
      BY <3>2 DEF Applied
    <3>4. At(Advanced(Erased(h), base), c, base, old, new, a + 1, b)
      BY <1>2, <2>1, <2>4, DropAt
    <3>5. At(t, c, base, old, new, a + 1, b)
      BY <2>3, <3>3, <3>4
    <3> QED
      BY <1>5, <2>1, <3>1, <3>5 DEF Stage
  <2> QED
    BY <2>5, <2>6
<1>7. CASE ~HasNumber(old, n)
  <2>1. HasNumber(new, n)
    BY <1>7 DEF IsMentioned, HasNumber
  <2>2. Split(old, a, n + 1) /\ (a < Len(old) => old[a + 1].number # n)
    BY <1>1, <1>2, <1>7, NextHas
  <2>3. /\ b < Len(new) /\ b + 1 \in 1 .. Len(new) /\ new[b + 1].number = n
        /\ WithNumber(new, n) = new[b + 1]
        /\ Split(new, b + 1, n + 1) /\ b + 1 \in 0 .. Len(new)
    BY <1>1, <1>2, <2>1, NextHas
  <2>4. h.number # n
    <3>1. CASE a < Len(old)
      BY <1>2, <2>2, <3>1, AtParts
    <3>2. CASE ~(a < Len(old))
      BY <1>2, <3>2, AtParts, BehindLastIs
    <3> QED
      BY <3>1, <3>2
  <2>5. t = Applied(h, change, -c.map)
    BY <1>4, <1>5, <2>4 DEF Read
  <2>6. /\ change.kind = "update" /\ change.from = -c.map
        /\ change.to = new[b + 1].version
    BY <1>7, <2>1, <2>3 DEF ChangeOf
  <2>7. PICK e : e = new[b + 1]
    OBVIOUS
  <2>8. e \in Entity /\ e.number = change.number /\ e.version = change.to
    BY <1>1, <1>4, <2>3, <2>6, <2>7, OrderedParts
  <2>9. Applied(h, change, -c.map) = Written(h, e)
    BY <1>3, <2>6, <2>8, AppliedIs
  <2>10. a < Len(old) => b < a + ParseMargin
    <3> SUFFICES ASSUME a < Len(old)
                 PROVE  b < a + ParseMargin
      OBVIOUS
    <3>1. n \in Fresh(old, new) /\ n >= n
      BY <1>7, <2>1 DEF Fresh
    <3> QED
      BY <1>1, <1>2, <3>1, Ahead
  <2>11. At(Written(h, new[b + 1]), c, base, old, new, a, b + 1)
    BY <1>2, <2>3, <2>10, InsertAt
  <2>12. At(t, c, base, old, new, a, b + 1)
    BY <2>5, <2>7, <2>9, <2>11
  <2> QED
    BY <1>5, <2>2, <2>3, <2>12 DEF Stage
<1> QED
  BY <1>6, <1>7

(* Changes 1 .. k of those with the numbers in order are made.              *)
Made(g, c, base, old, new, order, k) ==
    \E x \in Nat :
       /\ x <= EndOfEntities
       /\ Stage(g, c, base, old, new, x)
       /\ \A j \in DOMAIN order : order[j] < x <=> j <= k

LEMMA MadeNone ==
    ASSUME NEW c, NEW base, NEW old, NEW new, Merges(c, base, old, new),
           NEW order, \A j \in DOMAIN order : order[j] \in Nat \ {0} /\ j \in Nat \ {0}
    PROVE  Made(Merging(c, base, 0), c, base, old, new, order, 0)
<1>1. PICK g : g = Merging(c, base, 0)
  OBVIOUS
<1>2. /\ c \in ClientHalf /\ c.next \in Nat /\ IsBase(base)
      /\ base.start \in Nat /\ base.count = Len(old)
      /\ Len(old) \in Nat /\ Len(new) \in Nat /\ Ordered(old) /\ Ordered(new)
  BY MergesParts
<1>3. /\ g \in MergeState /\ g.next = c.next /\ g.entities = c.entities /\ g.i = 0
      /\ g.number = IF 0 < Len(old) THEN c.entities[ClSlot(base.start + 0)].number ELSE BehindLast
  BY <1>1, <1>2, MergingParts DEF Grown
<1>4. \A q \in 1 .. Len(old) : g.entities[ClSlot(base.start + q - 1)] = old[q]
  BY <1>3 DEF Merges
<1>5. g.number = IF 0 < Len(old) THEN old[0 + 1].number ELSE BehindLast
  <2>1. CASE 0 < Len(old)
    <3>1. 0 + 1 \in 1 .. Len(old) /\ base.start + (0 + 1) - 1 = base.start + 0
      BY <1>2, <2>1
    <3>2. g.entities[ClSlot(base.start + 0)] = old[0 + 1]
      BY <1>4, <3>1
    <3> QED
      BY <1>3, <2>1, <3>2
  <2>2. CASE ~(0 < Len(old))
    BY <1>3, <2>2
  <2> QED
    BY <2>1, <2>2
<1>6. At(g, c, base, old, new, 0, 0)
  <2>1. g.next = c.next + 0
    BY <1>2, <1>3
  <2>2. \A q \in 0 + 1 .. Len(old) : g.entities[ClSlot(base.start + q - 1)] = old[q]
    BY <1>4
  <2>3. \A j \in 1 .. 0 : g.entities[ClSlot(c.next + j - 1)] = new[j]
    OBVIOUS
  <2> QED
    BY <1>3, <1>5, <2>1, <2>2, <2>3 DEF At
<1>7. Split(old, 0, 1) /\ Split(new, 0, 1)
  <2>1. \A e : Ordered(e) => Split(e, 0, 1)
    <3> SUFFICES ASSUME NEW e, Ordered(e), NEW q \in 1 .. Len(e)
                 PROVE  q <= 0 <=> e[q].number < 1
      BY DEF Split
    <3>1. e[q].number \in Nat \ {0} /\ Len(e) \in Nat
      BY OrderedParts
    <3> QED
      BY <3>1
  <2> QED
    BY <1>2, <2>1
<1>8. Stage(g, c, base, old, new, 1)
  <2>1. 0 \in 0 .. Len(old) /\ 0 \in 0 .. Len(new)
    BY <1>2
  <2> QED
    BY <1>6, <1>7, <2>1 DEF Stage
<1>9. 1 \in Nat /\ 1 <= EndOfEntities
  BY Sizes
<1>10. \A j \in DOMAIN order : order[j] < 1 <=> j <= 0
  OBVIOUS
<1> QED
  BY <1>1, <1>8, <1>9, <1>10 DEF Made

(* The numbers that are mentioned, in their order.                          *)
IsOrder(order, old, new) ==
    /\ \A j \in DOMAIN order :
          /\ j \in Nat \ {0} /\ order[j] \in 1 .. EndOfEntities - 1
          /\ order[j] \in Nat \ {0} /\ IsMentioned(old, new, order[j])
    /\ \A z \in 1 .. EndOfEntities - 1 :
          IsMentioned(old, new, z) => \E j \in DOMAIN order : order[j] = z
    /\ \A i, j \in DOMAIN order : i < j => order[i] < order[j]

LEMMA MadeOne ==
    ASSUME NEW c, NEW base, NEW old, NEW new, Merges(c, base, old, new),
           NEW order, IsOrder(order, old, new),
           NEW k \in Nat, k + 1 \in DOMAIN order,
           NEW change \in Change,
           change = ChangeOf(old, new, c.map, order[k + 1]),
           NEW g, Made(g, c, base, old, new, order, k)
    PROVE  Made(ChangeRead(g, base, change, c.map), c, base, old, new, order, k + 1)
<1>1. PICK x \in Nat : /\ x <= EndOfEntities
                       /\ Stage(g, c, base, old, new, x)
                       /\ \A j \in DOMAIN order : order[j] < x <=> j <= k
  BY DEF Made
<1>2. PICK n : n = order[k + 1]
  OBVIOUS
<1>3. /\ n \in 1 .. EndOfEntities - 1 /\ n \in Nat \ {0}
      /\ IsMentioned(old, new, n)
  BY <1>2 DEF IsOrder
<1>4. x <= n
  <2>1. ~(n < x)
    <3>1. ~(k + 1 <= k)
      OBVIOUS
    <3> QED
      BY <1>1, <1>2, <3>1
  <2> QED
    BY <1>3, <2>1
<1>5. Quiet(old, new, x, n)
  <2> SUFFICES ASSUME NEW z \in 1 .. EndOfEntities - 1, z >= x, z < n,
                      IsMentioned(old, new, z)
               PROVE  FALSE
    BY DEF Quiet
  <2>1. PICK j \in DOMAIN order : order[j] = z
    BY DEF IsOrder
  <2>2. j \in Nat /\ z \in Nat
    BY <2>1 DEF IsOrder
  <2>3. ~(z < x)
    BY <2>2
  <2>4. ~(j <= k)
    BY <1>1, <2>1, <2>3
  <2>5. k + 1 = j \/ k + 1 < j
    BY <2>2, <2>4
  <2>6. n = z \/ n < z
    BY <1>2, <2>1, <2>5 DEF IsOrder
  <2> QED
    BY <1>3, <2>2, <2>6
<1>6. PICK h : h = CopiedBelow(g, base, n)
  OBVIOUS
<1>7. Stage(h, c, base, old, new, n)
  BY <1>1, <1>3, <1>4, <1>5, <1>6, BehindLastIs, CopiedStage
<1>8. ChangeRead(g, base, change, c.map) = Read(h, base, change, c.map)
  <2>1. change.number = n
    BY <1>2 DEF ChangeOf
  <2> QED
    BY <1>6, <2>1 DEF ChangeRead, Read
<1>9. Stage(Read(h, base, change, c.map), c, base, old, new, n + 1)
  BY <1>2, <1>3, <1>7, ReadStage
<1>10. n + 1 \in Nat /\ n + 1 <= EndOfEntities
  BY <1>3, Sizes
<1>11. ASSUME NEW j \in DOMAIN order
       PROVE  order[j] < n + 1 <=> j <= k + 1
  <2>1. j \in Nat /\ order[j] \in Nat
    BY DEF IsOrder
  <2>2. CASE j < k + 1
    <3>1. order[j] < n
      BY <1>2, <2>2 DEF IsOrder
    <3> QED
      BY <1>3, <2>1, <2>2, <3>1
  <2>3. CASE j = k + 1
    BY <1>2, <1>3, <2>3
  <2>4. CASE k + 1 < j
    <3>1. n < order[j]
      BY <1>2, <2>4 DEF IsOrder
    <3> QED
      BY <1>3, <2>1, <2>4, <3>1
  <2> QED
    BY <2>1, <2>2, <2>3, <2>4
<1> QED
  BY <1>8, <1>9, <1>10, <1>11 DEF Made

LEMMA MentionedInOrder ==
    ASSUME NEW old, NEW new, NEW order,
           order = Ascending(Mentioned(old, new))
    PROVE  IsOrder(order, old, new)
<1>1. PICK U, K : U = Mentioned(old, new) /\ K = Cardinality(U)
  OBVIOUS
<1>2. EndOfEntities - 1 \in Nat /\ U \in SUBSET (1 .. EndOfEntities - 1)
  BY <1>1, Sizes DEF Mentioned
<1>3. /\ K \in Nat /\ DOMAIN order = 1 .. K
      /\ \A i \in 1 .. K : order[i] \in U
      /\ \A z \in U : \E i \in 1 .. K : order[i] = z
      /\ \A i, j \in 1 .. K : i < j => order[i] < order[j]
  <2>1. order = Ascending(U) /\ K = Cardinality(U)
    BY <1>1
  <2> QED
    BY <1>2, <2>1, AscendingParts
<1>4. \A z \in U : /\ z \in 1 .. EndOfEntities - 1 /\ z \in Nat \ {0}
                   /\ IsMentioned(old, new, z)
  BY <1>1, <1>2 DEF Mentioned
<1>5. \A z \in 1 .. EndOfEntities - 1 : IsMentioned(old, new, z) => z \in U
  BY <1>1 DEF Mentioned
<1> QED
  BY <1>3, <1>4, <1>5 DEF IsOrder

(* CL_ParsePacketEntities makes what SV_EmitPacketEntities had, where the   *)
(* ring still has the base.                                                 *)
LEMMA MergeCorrect ==
    ASSUME NEW c, NEW base, NEW old, NEW new, Merges(c, base, old, new),
           NEW m, m.changes = Changes(old, new, c.map)
    PROVE  /\ PacketEntities(c, base, m).next = c.next + Len(new)
           /\ Len(new) < MaxParseEntities =>
                 \A j \in 1 .. Len(new) :
                    PacketEntities(c, base, m).entities[ClSlot(c.next + j - 1)] = new[j]
<1>1. /\ c \in ClientHalf /\ IsBase(base) /\ Ordered(old) /\ Ordered(new)
      /\ Len(old) \in Nat /\ Len(new) \in Nat
      /\ old \in Seq(Entity) /\ new \in Seq(Entity)
      /\ c.map \in 1 .. MaxSpawns + 1
  BY MergesParts, OrderedParts DEF ClientHalf
<1>2. PICK U, K, order, changes :
         /\ U = Mentioned(old, new) /\ K = Cardinality(U) /\ order = Ascending(U)
         /\ changes = m.changes
  OBVIOUS
<1>3. /\ changes \in Seq(Change) /\ K \in Nat /\ Len(changes) = K
      /\ U \in SUBSET (1 .. EndOfEntities - 1)
      /\ \A i \in 1 .. K : changes[i] = ChangeOf(old, new, c.map, order[i])
  BY <1>1, <1>2, ChangesParts
<1>4. DOMAIN order = 1 .. K
  <2>1. EndOfEntities - 1 \in Nat
    BY Sizes
  <2> QED
    BY <1>2, <1>3, <2>1, AscendingParts
<1>5. IsOrder(order, old, new)
  BY <1>2, MentionedInOrder
<1>6. PICK f : MergeRun(f, c, base, m)
  BY <1>1, <1>2, <1>3, MergeRunExists
<1>7. PICK T : T = {k \in 0 .. K : Made(f[k], c, base, old, new, order, k)}
  OBVIOUS
<1>8. 0 \in T
  <2>1. f[0] = Merging(c, base, 0)
    BY <1>6 DEF MergeRun
  <2>2. \A j \in DOMAIN order : order[j] \in Nat \ {0} /\ j \in Nat \ {0}
    BY <1>5 DEF IsOrder
  <2> QED
    BY <1>3, <1>7, <2>1, <2>2, MadeNone
<1>9. ASSUME NEW k \in 1 .. K, k - 1 \in T
      PROVE  k \in T
  <2>1. PICK i : i = k - 1
    OBVIOUS
  <2>2. i \in Nat /\ i + 1 = k /\ i + 1 \in DOMAIN order /\ k \in 0 .. K
    BY <1>4, <2>1
  <2>3. PICK change : change = changes[k]
    OBVIOUS
  <2>4. f[k] = ChangeRead(f[i], base, change, c.map)
    BY <1>2, <1>3, <1>6, <2>1, <2>3 DEF MergeRun
  <2>5. change \in Change /\ change = ChangeOf(old, new, c.map, order[i + 1])
    BY <1>3, <2>2, <2>3, SequenceTaken
  <2>6. Made(f[i], c, base, old, new, order, i)
    BY <1>7, <1>9, <2>1
  <2>7. Made(f[k], c, base, old, new, order, i + 1)
    BY <1>5, <2>2, <2>4, <2>5, <2>6, MadeOne
  <2> QED
    BY <1>7, <2>2, <2>7
<1>10. K \in T
  <2>1. \A k \in 0 .. K : k \in T
    BY <1>3, <1>8, <1>9, IntervalInduction
  <2> QED
    BY <1>3, <2>1
<1>11. PICK x \in Nat : /\ x <= EndOfEntities
                        /\ Stage(f[K], c, base, old, new, x)
                        /\ \A j \in DOMAIN order : order[j] < x <=> j <= K
  BY <1>7, <1>10 DEF Made
<1>12. Quiet(old, new, x, BehindLast)
  <2> SUFFICES ASSUME NEW z \in 1 .. EndOfEntities - 1, z >= x,
                      IsMentioned(old, new, z)
               PROVE  FALSE
    BY DEF Quiet
  <2>1. PICK j \in DOMAIN order : order[j] = z
    BY <1>5 DEF IsOrder
  <2>2. j <= K /\ z \in Nat
    BY <1>3, <1>4, <2>1
  <2> QED
    BY <1>11, <2>1, <2>2
<1>13. PICK g : g = PacketEntities(c, base, m)
  OBVIOUS
<1>14. Stage(g, c, base, old, new, BehindLast)
  <2>1. g = CopiedBelow(f[K], base, BehindLast)
    BY <1>2, <1>3, <1>6, <1>13 DEF MergeRun
  <2>2. BehindLast \in Nat /\ x <= BehindLast
    BY <1>11, BehindLastIs
  <2> QED
    BY <1>11, <1>12, <2>1, <2>2, CopiedStage
<1>15. PICK a \in 0 .. Len(old), b \in 0 .. Len(new) :
          At(g, c, base, old, new, a, b) /\ Split(new, b, BehindLast)
  BY <1>14 DEF Stage
<1>16. b = Len(new)
  <2> SUFFICES ASSUME b < Len(new)
               PROVE  FALSE
    BY <1>1
  <2>1. b + 1 \in 1 .. Len(new) /\ ~(b + 1 <= b)
    BY <1>1
  <2>2. new[b + 1].number < BehindLast
    BY <1>1, <2>1, OrderedParts, BehindLastIs
  <2> QED
    BY <1>15, <2>1, <2>2 DEF Split
<1> QED
  BY <1>13, <1>15, <1>16 DEF At

-----------------------------------------------------------------------------
(* What the two ends know of each other's entities. *)

(* Frame entities as a server has built them.                               *)
Shot(entities) ==
    \E view \in Views, n \in 1 .. MaxSequence : entities = Seen(view, n)

(* Frame f was read without an error, and the ring has its entities as long *)
(* as less than a turn was written since.                                   *)
Decoded(c, f) ==
    /\ f.ps = f.messageNum
    /\ f.count = Len(f.entities)
    /\ f.start + f.count <= c.next
    /\ c.next - f.start < MaxParseEntities =>
          \A i \in 1 .. Len(f.entities) :
             c.entities[ClSlot(f.start + i - 1)] = f.entities[i]

(* The server's frame for snapshot n has these entities, as long as neither *)
(* ring was turned.                                                         *)
Linked(s, n, entities) ==
    s.outgoing <= n + Backup =>
       LET f == s.frames[Slot(n)]
       IN  /\ f.ps = n
           /\ f.count = Len(entities)
           /\ f.first + Len(entities) <= s.next
           /\ f.first > s.next - NumSnapshotEntities =>
                 \A i \in 1 .. Len(entities) :
                    s.entities[SvSlot(f.first + i - 1)] = entities[i]

(* A snapshot that was not active may come from another map than the        *)
(* client's gamestate: then it may be wrong, and is never a base.           *)
FrameAgrees(s, c, f) ==
    f.valid =>
       /\ f.messageNum \in 1 .. c.snap
       /\ Shot(f.entities)
       /\ f.active \/ c.map = s.map => Decoded(c, f)
       /\ c.map = s.map => Linked(s, f.messageNum, f.entities)

SnapshotAgrees(s, c, m) ==
    /\ Shot(m.entities)
    /\ c.map <= m.map
    /\ m.map = s.map => Linked(s, m.sequence, m.entities)
    /\ m.active => m.map = c.map
    /\ m.delta = 0 =>
          m.psFrom = 0 /\ m.changes = Changes(<<>>, m.entities, m.map)
    /\ m.delta # 0 /\ m.map = c.map =>
          /\ m.psFrom = m.sequence - m.delta
          /\ Shot(BaseOf(c, m).entities)
          /\ m.changes = Changes(BaseOf(c, m).entities, m.entities, m.map)
          /\ Decoded(c, BaseOf(c, m))

MapsInOrder(messages) ==
    \A x, y \in messages : x.sequence < y.sequence => x.map <= y.map

Agree(s, c, messages) ==
    /\ \A k \in 0 .. Backup - 1 : FrameAgrees(s, c, c.snapshots[k])
    /\ \A m \in messages : m.kind = "snapshot" => SnapshotAgrees(s, c, m)
    /\ \A m \in messages : m.map <= s.map
    /\ MapsInOrder(messages)

EntitiesAgree == Agree(sv, cl, Elements(toClient))

LEMMA ShotParts ==
    ASSUME NEW e, Shot(e)
    PROVE  \E view \in Views : Ordered(e) /\ \A x : HasNumber(e, x) <=> x \in view
<1>1. PICK view \in Views, n \in 1 .. MaxSequence : e = Seen(view, n)
  BY DEF Shot
<1>2. n \in 0 .. MaxSequence
  BY Sizes
<1> QED
  BY <1>1, <1>2, SeenOrdered

-----------------------------------------------------------------------------
(* The server's ring. *)

(* The server's half has gone on from s to t in one map.                    *)
ServerGrows(s, t) ==
    /\ s \in ServerHalf /\ t \in ServerHalf
    /\ t.map = s.map /\ s.outgoing <= t.outgoing
    /\ \E seen \in Seq(Entity) : /\ t.next = s.next + Len(seen)
                                 /\ RingTakes(s.entities, t.entities, s.next, seen)
    /\ \A n \in Nat : n < s.outgoing /\ t.outgoing <= n + Backup
                         => t.frames[Slot(n)] = s.frames[Slot(n)]

LEMMA ServerParts ==
    ASSUME NEW s \in ServerHalf
    PROVE  /\ s.outgoing \in Nat /\ s.next \in Nat /\ s.map \in Nat
           /\ \A k \in 0 .. Backup - 1 : /\ s.frames[k] \in ServerFrame
                                         /\ s.frames[k].first \in Nat
                                         /\ s.frames[k].count \in Nat
<1>1. /\ s.outgoing \in 1 .. MaxSequence + 1 /\ s.map \in 1 .. MaxSpawns + 1
      /\ s.next \in Nat /\ s.frames \in [0 .. Backup - 1 -> ServerFrame]
  BY DEF ServerHalf
<1>2. s.outgoing \in Nat /\ s.map \in Nat
  BY <1>1, Sizes
<1>3. \A k \in 0 .. Backup - 1 : s.frames[k] \in ServerFrame
  BY <1>1
<1> QED
  BY <1>1, <1>2, <1>3 DEF ServerFrame

LEMMA LinkedKept ==
    ASSUME NEW s, NEW t, ServerGrows(s, t), NEW n \in Nat, n < s.outgoing,
           NEW e \in Seq(Entity), Linked(s, n, e)
    PROVE  Linked(t, n, e)
<1> SUFFICES ASSUME t.outgoing <= n + Backup
             PROVE  LET f == t.frames[Slot(n)]
                    IN  /\ f.ps = n
                        /\ f.count = Len(e)
                        /\ f.first + Len(e) <= t.next
                        /\ f.first > t.next - NumSnapshotEntities =>
                              \A i \in 1 .. Len(e) :
                                 t.entities[SvSlot(f.first + i - 1)] = e[i]
  BY DEF Linked
<1>1. /\ s \in ServerHalf /\ t \in ServerHalf /\ s.outgoing <= t.outgoing
      /\ s.outgoing \in Nat /\ t.outgoing \in Nat /\ s.next \in Nat /\ t.next \in Nat
      /\ Slot(n) \in 0 .. Backup - 1 /\ Len(e) \in Nat /\ Backup \in Nat
  BY ServerParts, SlotOf, SequenceTaken, Limits DEF ServerGrows
<1>2. PICK seen \in Seq(Entity) :
         t.next = s.next + Len(seen) /\ RingTakes(s.entities, t.entities, s.next, seen)
  BY DEF ServerGrows
<1>3. Len(seen) \in Nat
  BY SequenceTaken
<1>4. PICK f : f = s.frames[Slot(n)]
  OBVIOUS
<1>5. t.frames[Slot(n)] = f /\ f.first \in Nat
  BY <1>1, <1>4, ServerParts DEF ServerGrows
<1>6. /\ f.ps = n /\ f.count = Len(e) /\ f.first + Len(e) <= s.next
      /\ f.first > s.next - NumSnapshotEntities =>
            \A i \in 1 .. Len(e) : s.entities[SvSlot(f.first + i - 1)] = e[i]
  <2>1. s.outgoing <= n + Backup
    BY <1>1
  <2> QED
    BY <1>4, <2>1 DEF Linked
<1>7. f.first + Len(e) <= t.next
  BY <1>1, <1>2, <1>3, <1>5, <1>6
<1>8. ASSUME f.first > t.next - NumSnapshotEntities, NEW i \in 1 .. Len(e)
      PROVE  t.entities[SvSlot(f.first + i - 1)] = e[i]
  <2>1. PICK a, l, ns, nt, K, le :
           /\ a = f.first /\ l = Len(seen) /\ ns = s.next /\ nt = t.next
           /\ K = NumSnapshotEntities /\ le = Len(e)
    OBVIOUS
  <2>2. /\ a \in Nat /\ l \in Nat /\ ns \in Nat /\ nt = ns + l /\ K \in Nat \ {0}
        /\ a > nt - K /\ le \in Nat /\ i \in 1 .. le /\ a + le <= ns
    BY <1>1, <1>2, <1>3, <1>5, <1>6, <1>8, <2>1, Sizes
  <2>3. PICK x : x = a + i - 1
    OBVIOUS
  <2>4. x \in Nat /\ x < ns /\ a > ns - K
    BY <2>2, <2>3
  <2>5. s.entities[SvSlot(x)] = e[i]
    BY <1>6, <2>1, <2>3, <2>4
  <2>6. ASSUME NEW j \in 1 .. Len(seen)
        PROVE  SvSlot(s.next + j - 1) # SvSlot(x)
    <3>1. PICK y : y = ns + j - 1
      OBVIOUS
    <3>2. j \in 1 .. l
      BY <2>1
    <3>3. y \in Nat /\ x < y /\ y - x < K
      BY <2>2, <2>3, <2>4, <3>1, <3>2
    <3>4. x % K # y % K
      BY <2>2, <2>4, <3>3, SlotsDiffer
    <3> QED
      BY <2>1, <3>1, <3>4 DEF SvSlot
  <2>7. SvSlot(x) \in 0 .. NumSnapshotEntities - 1
    BY <2>4, SlotType, Sizes DEF SvSlot
  <2>8. t.entities[SvSlot(x)] = s.entities[SvSlot(x)]
    BY <1>2, <2>6, <2>7 DEF RingTakes
  <2> QED
    BY <2>1, <2>3, <2>5, <2>8
<1> QED
  BY <1>5, <1>6, <1>7, <1>8

LEMMA ClientHalfParts ==
    ASSUME NEW c \in ClientHalf
    PROVE  /\ c.next \in Nat /\ c.snap \in Nat /\ c.map \in Nat
           /\ \A k \in 0 .. Backup - 1 :
                 /\ c.snapshots[k] \in ClientFrame
                 /\ c.snapshots[k].start \in Nat /\ c.snapshots[k].count \in Nat
                 /\ c.snapshots[k].entities \in Seq(Entity)
<1>1. /\ c.snap \in 0 .. MaxSequence /\ c.map \in 1 .. MaxSpawns + 1
      /\ c.next \in Nat /\ c.snapshots \in [0 .. Backup - 1 -> ClientFrame]
  BY DEF ClientHalf
<1>2. c.snap \in Nat /\ c.map \in Nat
  BY <1>1, Sizes
<1>3. \A k \in 0 .. Backup - 1 : c.snapshots[k] \in ClientFrame
  BY <1>1
<1> QED
  BY <1>1, <1>2, <1>3 DEF ClientFrame

LEMMA MessageParts ==
    ASSUME NEW m \in ServerMessage
    PROVE  /\ m.sequence \in Nat \ {0} /\ m.map \in Nat /\ m.delta \in Nat
           /\ m.entities \in Seq(Entity) /\ m.changes \in Seq(Change)
           /\ m.map \in 1 .. MaxSpawns + 1 /\ m.sequence \in 1 .. MaxSequence
  BY Sizes, Limits DEF ServerMessage

(* What the client has and what is on its way agree with a server that has  *)
(* gone on.                                                                 *)
LEMMA AgreeLater ==
    ASSUME NEW s, NEW t, ServerGrows(s, t), NEW c \in ClientHalf,
           c.snap < s.outgoing, NEW M \in SUBSET ServerMessage,
           \A m \in M : m.sequence < s.outgoing, Agree(s, c, M)
    PROVE  Agree(t, c, M)
<1>1. t.map = s.map /\ s.outgoing \in Nat
  BY ServerParts DEF ServerGrows
<1>2. ASSUME NEW k \in 0 .. Backup - 1
      PROVE  FrameAgrees(t, c, c.snapshots[k])
  <2>1. PICK f : f = c.snapshots[k]
    OBVIOUS
  <2>2. FrameAgrees(s, c, f) /\ f.entities \in Seq(Entity)
    BY <2>1, ClientHalfParts DEF Agree
  <2>3. ASSUME f.valid, c.map = s.map
        PROVE  Linked(t, f.messageNum, f.entities)
    <3>1. f.messageNum \in 1 .. c.snap /\ Linked(s, f.messageNum, f.entities)
      BY <2>2, <2>3 DEF FrameAgrees
    <3>2. f.messageNum \in Nat /\ f.messageNum < s.outgoing
      BY <1>1, <3>1, ClientHalfParts
    <3> QED
      BY <2>2, <3>1, <3>2, LinkedKept
  <2> QED
    BY <1>1, <2>1, <2>2, <2>3 DEF FrameAgrees
<1>3. ASSUME NEW m \in M, m.kind = "snapshot"
      PROVE  SnapshotAgrees(t, c, m)
  <2>1. SnapshotAgrees(s, c, m)
    BY <1>3 DEF Agree
  <2>2. ASSUME m.map = s.map
        PROVE  Linked(t, m.sequence, m.entities)
    <3>1. Linked(s, m.sequence, m.entities)
      BY <2>1, <2>2 DEF SnapshotAgrees
    <3>2. m.sequence \in Nat /\ m.entities \in Seq(Entity)
      BY MessageParts
    <3> QED
      BY <3>1, <3>2, LinkedKept
  <2> QED
    BY <1>1, <2>1, <2>2 DEF SnapshotAgrees
<1> QED
  BY <1>1, <1>2, <1>3 DEF Agree

-----------------------------------------------------------------------------
(* The client reads. *)

LEMMA DecodedKept ==
    ASSUME NEW c, c.next \in Nat, NEW g, Grown(c, g),
           NEW d, d.next = g.next, d.entities = g.entities,
           NEW f \in ClientFrame, Decoded(c, f)
    PROVE  Decoded(d, f)
<1>1. /\ g.next \in Nat /\ c.next <= g.next
      /\ f.start \in Nat /\ f.count \in Nat /\ f.count = Len(f.entities)
      /\ f.start + f.count <= c.next /\ f.ps = f.messageNum
  BY MergeParts DEF Grown, Decoded, ClientFrame
<1>2. f.start + f.count <= d.next
  BY <1>1
<1>3. ASSUME d.next - f.start < MaxParseEntities, NEW i \in 1 .. Len(f.entities)
      PROVE  d.entities[ClSlot(f.start + i - 1)] = f.entities[i]
  <2>1. PICK x, K, cn, gn, fs, fc :
           /\ x = f.start + i - 1 /\ K = MaxParseEntities /\ cn = c.next
           /\ gn = g.next /\ fs = f.start /\ fc = Len(f.entities)
    OBVIOUS
  <2>0. /\ cn \in Nat /\ gn \in Nat /\ cn <= gn /\ fs \in Nat /\ fc \in Nat
        /\ fs + fc <= cn /\ gn - fs < K /\ i \in 1 .. fc /\ K \in Nat \ {0}
        /\ x = fs + i - 1
    BY <1>1, <1>3, <2>1, Sizes
  <2>2. x \in Nat /\ x < cn /\ fs <= x /\ cn - fs < K
    BY <2>0
  <2>3. c.entities[ClSlot(x)] = f.entities[i]
    BY <2>1, <2>2 DEF Decoded
  <2>4. ASSUME NEW p \in c.next .. g.next
        PROVE  ClSlot(x) # ClSlot(p)
    <3>0. p \in cn .. gn
      BY <2>1
    <3>1. p \in Nat /\ x < p /\ p - x < K
      BY <2>0, <2>2, <3>0
    <3>2. x % K # p % K
      BY <2>0, <2>2, <3>1, SlotsDiffer
    <3> QED
      BY <2>1, <3>2 DEF ClSlot
  <2>5. ClSlot(x) \in 0 .. MaxParseEntities - 1
    BY <2>2, ClSlotOf
  <2>6. g.entities[ClSlot(x)] = c.entities[ClSlot(x)]
    BY <2>4, <2>5 DEF Grown
  <2> QED
    BY <2>1, <2>3, <2>6
<1> QED
  BY <1>1, <1>2, <1>3 DEF Decoded

(* While one view has no more than ParseMargin entities that another has    *)
(* not, a base the client may take is read before it is written over.       *)
ViewsChangeLittle ==
    \A v, w \in Views : Cardinality(w \ v) <= ParseMargin

LEMMA FewAreFresh ==
    ASSUME ViewsChangeLittle, NEW old, Shot(old), NEW new, Shot(new)
    PROVE  /\ Ordered(old) /\ Ordered(new)
           /\ Cardinality(Fresh(old, new)) <= ParseMargin
<1>1. PICK v \in Views : Ordered(old) /\ \A x : HasNumber(old, x) <=> x \in v
  BY ShotParts
<1>2. PICK w \in Views : Ordered(new) /\ \A x : HasNumber(new, x) <=> x \in w
  BY ShotParts
<1>3. w \in SUBSET (1 .. EndOfEntities - 1)
  BY ViewParts
<1>4. Fresh(old, new) = w \ v
  BY <1>1, <1>2, <1>3 DEF Fresh
<1> QED
  BY <1>1, <1>2, <1>4 DEF ViewsChangeLittle

LEMMA NothingOrdered == Ordered(<<>>)
  BY DEF Ordered

(* A snapshot of the map the client is in is read as it was built.          *)
LEMMA SnapshotDecoded ==
    ASSUME ViewsChangeLittle, NEW s, NEW c \in ClientHalf, NEW m \in ServerMessage,
           m.delta <= m.sequence, m.map = c.map, SnapshotAgrees(s, c, m),
           BaseUsable(c, m), NEW d, d = AfterSnapshot(c, m)
    PROVE  Decoded(d, d.snapshots[Slot(m.sequence)])
<1>1. PICK base, g, old, new :
         /\ base = IF m.delta = 0 THEN NoClientFrame ELSE BaseOf(c, m)
         /\ g = PacketEntities(c, base, m)
         /\ old = IF m.delta = 0 THEN <<>> ELSE BaseOf(c, m).entities
         /\ new = m.entities
  OBVIOUS
<1>2. /\ IsBase(base) /\ base \in ClientFrame /\ Grown(c, g)
      /\ d.entities = g.entities /\ d.next = g.next
      /\ d.snapshots[Slot(m.sequence)] =
            [valid      |-> TRUE,
             messageNum |-> m.sequence,
             active     |-> m.active,
             ps         |-> IF base.ps = m.psFrom THEN m.sequence ELSE Garbled,
             start      |-> c.next,
             count      |-> g.next - c.next,
             entities   |-> m.entities]
  BY <1>1, AfterSnapshotParts
<1>3. /\ c.next \in Nat /\ m.sequence \in Nat \ {0} /\ m.delta \in Nat
      /\ m.entities \in Seq(Entity) /\ Len(new) \in Nat
      /\ base.start \in Nat /\ base.count \in Nat
  BY <1>1, <1>2, ClientHalfParts, MessageParts, SequenceTaken DEF IsBase
<1>4. Shot(new)
  BY <1>1 DEF SnapshotAgrees
<1>5. base.ps = m.psFrom /\ m.changes = Changes(old, new, c.map)
  <2>1. CASE m.delta = 0
    BY <1>1, <2>1 DEF SnapshotAgrees, NoClientFrame
  <2>2. CASE m.delta # 0
    <3>1. /\ m.psFrom = m.sequence - m.delta
          /\ m.changes = Changes(BaseOf(c, m).entities, m.entities, m.map)
          /\ Decoded(c, BaseOf(c, m))
      BY <2>2 DEF SnapshotAgrees
    <3>2. BaseOf(c, m).messageNum = m.sequence - m.delta
      BY <2>2 DEF BaseUsable
    <3> QED
      BY <1>1, <2>2, <3>1, <3>2 DEF Decoded
  <2> QED
    BY <2>1, <2>2
<1>6. Merges(c, base, old, new)
  <2>1. CASE m.delta = 0
    <3>1. old = <<>> /\ Len(old) = 0 /\ base.count = 0 /\ base.start = 0
      BY <1>1, <2>1, EmptySeq DEF NoClientFrame
    <3>2. Ordered(old) /\ Ordered(new)
      BY <1>4, <3>1, NothingOrdered, ShotParts
    <3> QED
      BY <1>2, <1>3, <3>1, <3>2 DEF Merges
  <2>2. CASE m.delta # 0
    <3>1. base = BaseOf(c, m) /\ old = base.entities
      BY <1>1, <2>2
    <3>2. Shot(old) /\ Decoded(c, base)
      BY <2>2, <3>1 DEF SnapshotAgrees
    <3>3. Ordered(old) /\ Ordered(new) /\ Cardinality(Fresh(old, new)) <= ParseMargin
      BY <1>4, <3>2, FewAreFresh
    <3>4. c.next - base.start <= MaxParseEntities - ParseMargin
      BY <2>2, <3>1 DEF BaseUsable
    <3>5. c.next - base.start < MaxParseEntities
      BY <1>3, <3>4, Sizes
    <3>6. /\ base.count = Len(old) /\ base.start + Len(old) <= c.next
          /\ \A q \in 1 .. Len(old) : c.entities[ClSlot(base.start + q - 1)] = old[q]
      BY <3>1, <3>2, <3>5 DEF Decoded
    <3> QED
      BY <1>2, <3>3, <3>4, <3>6 DEF Merges
  <2> QED
    BY <2>1, <2>2
<1>7. /\ g.next = c.next + Len(new)
      /\ Len(new) < MaxParseEntities =>
            \A j \in 1 .. Len(new) : g.entities[ClSlot(c.next + j - 1)] = new[j]
  BY <1>1, <1>5, <1>6, MergeCorrect
<1>8. PICK f : f = d.snapshots[Slot(m.sequence)]
  OBVIOUS
<1>9. /\ f.ps = f.messageNum /\ f.start = c.next /\ f.entities = new
      /\ f.count = g.next - c.next
  BY <1>1, <1>2, <1>5, <1>8
<1>10. /\ f.count = Len(f.entities) /\ f.start + f.count <= d.next
       /\ d.next - f.start < MaxParseEntities => Len(new) < MaxParseEntities
  <2>1. PICK n, l : n = c.next /\ l = Len(new)
    OBVIOUS
  <2>2. n \in Nat /\ l \in Nat /\ d.next = n + l /\ f.start = n /\ f.count = (n + l) - n
    BY <1>2, <1>3, <1>7, <1>9, <2>1
  <2> QED
    BY <1>9, <2>1, <2>2
<1> QED
  BY <1>2, <1>7, <1>8, <1>9, <1>10 DEF Decoded

(* The base of a delta that is still on its way is in its slot after a      *)
(* snapshot has come before it.                                             *)
LEMMA BaseStays ==
    ASSUME NEW c, ClientIsSound(c), NEW m, IsMessage(m), c.sequence < m.sequence,
           NEW d, d = AfterSnapshot(c, m),
           NEW x, x.sequence \in Nat, x.delta \in Nat, m.sequence < x.sequence,
           x.delta # 0, x.delta < x.sequence, x.delta < Backup,
           Holds(c, x.sequence - x.delta)
    PROVE  BaseOf(d, x) = BaseOf(c, x)
<1>1. PICK b : b = x.sequence - x.delta
  OBVIOUS
<1>2. /\ ClientIsSound(d) /\ d.sequence = m.sequence /\ Holds(d, b)
      /\ c.sequence \in Nat \ {0} /\ c.snap \in Nat /\ c.snap <= c.sequence
      /\ d.snap \in Nat /\ d.snap <= d.sequence
  BY <1>1, SnapshotIsSound, ClientParts
<1>3. /\ m.sequence \in Nat /\ m.sequence > 0 /\ Backup \in Nat
      /\ IsClient(c)
  BY <1>2, Limits DEF IsMessage, ClientIsSound
<1>4. b \in 1 .. c.snap /\ b \in Nat
  BY <1>1, <1>2 DEF Holds
<1>5. d.snap - b < Backup
  <2>1. PICK q, y, ds : q = m.sequence /\ y = x.sequence /\ ds = d.snap
    OBVIOUS
  <2>2. /\ q \in Nat /\ y \in Nat /\ ds \in Nat /\ ds <= q /\ q < y
        /\ b = y - x.delta
    BY <1>1, <1>2, <1>3, <2>1
  <2>3. ds - b < Backup
    BY <1>3, <2>2
  <2> QED
    BY <2>1, <2>3
<1>6. d.snapshots[Slot(b)].valid /\ d.snapshots[Slot(b)].messageNum = b
  BY <1>2, <1>5 DEF Holds
<1>7. Slot(b) \in 0 .. Backup - 1
  BY <1>4, SlotOf
<1>8. \/ d.snap = c.snap /\ d.snapshots = c.snapshots
      \/ /\ d.snap = m.sequence
         /\ d.snapshots[Slot(m.sequence)].valid
         /\ d.snapshots[Slot(m.sequence)].messageNum = m.sequence
         /\ \A k \in 0 .. Backup - 1 : k # Slot(m.sequence) =>
              IF \E n \in Skipped(c, m) : Slot(n) = k
              THEN ~d.snapshots[k].valid
              ELSE d.snapshots[k] = c.snapshots[k]
  BY <1>3, SnapshotParsed
<1>9. b # m.sequence
  BY <1>2, <1>3, <1>4
<1>10. d.snapshots[Slot(b)] = c.snapshots[Slot(b)]
  BY <1>6, <1>7, <1>8, <1>9
<1> QED
  BY <1>1, <1>10 DEF BaseOf

LEMMA ReadSnapshotAgrees ==
    ASSUME ViewsChangeLittle, IInv, TypeOK, EntitiesAgree,
           NEW m \in Elements(toClient), m.kind = "snapshot",
           NEW d, d = AfterSnapshot(cl, m),
           NEW M, M \subseteq Elements(toClient),
           \A x \in M : m.sequence < x.sequence
    PROVE  Agree(sv, d, M)
<1>1. /\ cl \in ClientHalf /\ sv \in ServerHalf
      /\ Elements(toClient) \subseteq ServerMessage
      /\ m \in ServerMessage
  BY ElementsType DEF TypeOK
<1>2. /\ MessageIsSound(sv, cl, m) /\ IsMessage(m) /\ ClientIsSound(cl)
      /\ cl.sequence < m.sequence
  BY DEF IInv, MessageIsSound
<1>3. /\ m.sequence \in Nat \ {0} /\ m.delta \in Nat /\ m.map \in Nat
      /\ m.entities \in Seq(Entity)
      /\ cl.snap \in Nat /\ cl.sequence \in Nat /\ cl.snap <= cl.sequence
      /\ cl.map \in Nat /\ sv.map \in Nat /\ cl.next \in Nat
  BY <1>1, <1>2, ClientParts, MessageParts, ServerParts, ClientHalfParts
<1>4. m.delta <= m.sequence
  <2>1. m.delta # 0 => m.delta < m.sequence
    BY <1>2 DEF MessageIsSound
  <2> QED
    BY <1>3, <2>1
<1>5. PICK base, g : /\ base = IF m.delta = 0 THEN NoClientFrame ELSE BaseOf(cl, m)
                     /\ g = PacketEntities(cl, base, m)
  OBVIOUS
<1>6. /\ d \in ClientHalf /\ Grown(cl, g)
      /\ d.map = cl.map /\ d.sequence = m.sequence
      /\ d.entities = g.entities /\ d.next = g.next
      /\ ~BaseUsable(cl, m) => d.snap = cl.snap /\ d.snapshots = cl.snapshots
      /\ BaseUsable(cl, m) =>
            /\ d.snap = m.sequence
            /\ d.snapshots[Slot(m.sequence)].messageNum = m.sequence
            /\ d.snapshots[Slot(m.sequence)].active = m.active
            /\ d.snapshots[Slot(m.sequence)].entities = m.entities
            /\ \A k \in 0 .. Backup - 1 : k # Slot(m.sequence) =>
                  \/ d.snapshots[k] = cl.snapshots[k]
                  \/ ~d.snapshots[k].valid
  <2>1. PICK frame :
           frame = [valid      |-> TRUE,
                    messageNum |-> m.sequence,
                    active     |-> m.active,
                    ps         |-> IF base.ps = m.psFrom THEN m.sequence ELSE Garbled,
                    start      |-> cl.next,
                    count      |-> g.next - cl.next,
                    entities   |-> m.entities]
    OBVIOUS
  <2>2. /\ d \in ClientHalf /\ Grown(cl, g)
        /\ d.map = cl.map /\ d.sequence = m.sequence
        /\ d.entities = g.entities /\ d.next = g.next
        /\ ~BaseUsable(cl, m) => d.snap = cl.snap /\ d.snapshots = cl.snapshots
        /\ BaseUsable(cl, m) =>
              /\ d.snap = m.sequence
              /\ d.snapshots[Slot(m.sequence)] = frame
              /\ \A k \in 0 .. Backup - 1 : k # Slot(m.sequence) =>
                    \/ d.snapshots[k] = cl.snapshots[k]
                    \/ ~d.snapshots[k].valid
    BY <1>1, <1>4, <1>5, <2>1, AfterSnapshotParts
  <2>3. /\ frame.messageNum = m.sequence /\ frame.active = m.active
        /\ frame.entities = m.entities
    BY <2>1
  <2> QED
    BY <2>2, <2>3
<1>7. SnapshotAgrees(sv, cl, m) /\ m.map <= sv.map
  BY DEF EntitiesAgree, Agree
<1>8. \A f \in ClientFrame : Decoded(cl, f) => Decoded(d, f)
  BY <1>3, <1>6, DecodedKept
<1>9. cl.snap <= d.snap
  BY <1>3, <1>2, <1>6
<1>10. ASSUME NEW k \in 0 .. Backup - 1, d.snapshots[k] = cl.snapshots[k]
       PROVE  FrameAgrees(sv, d, d.snapshots[k])
  <2>1. PICK f : f = d.snapshots[k]
    OBVIOUS
  <2>2. FrameAgrees(sv, cl, f) /\ f \in ClientFrame
    BY <1>1, <1>10, <2>1, ClientHalfParts DEF EntitiesAgree, Agree
  <2>3. f.messageNum \in 1 .. cl.snap => f.messageNum \in 1 .. d.snap
    BY <1>3, <1>6, <1>9
  <2>4. d.map = cl.map
    BY <1>6
  <2> QED
    BY <1>8, <2>1, <2>2, <2>3, <2>4 DEF FrameAgrees
<1>11. ASSUME BaseUsable(cl, m)
       PROVE  FrameAgrees(sv, d, d.snapshots[Slot(m.sequence)])
  <2>1. PICK f : f = d.snapshots[Slot(m.sequence)]
    OBVIOUS
  <2>2. /\ f.messageNum = m.sequence /\ f.active = m.active
        /\ f.entities = m.entities
        /\ d.snap = m.sequence /\ d.map = cl.map
    BY <1>6, <1>11, <2>1
  <2>3. f.messageNum \in 1 .. d.snap
    BY <1>3, <2>2
  <2>4. Shot(f.entities)
    BY <1>7, <2>2 DEF SnapshotAgrees
  <2>5. d.map = sv.map => m.map = sv.map
    BY <1>3, <1>7, <2>2 DEF SnapshotAgrees
  <2>6. f.active \/ d.map = sv.map => m.map = cl.map
    BY <1>7, <2>2, <2>5 DEF SnapshotAgrees
  <2>7. m.map = cl.map => Decoded(d, f)
    BY <1>1, <1>4, <1>7, <1>11, <2>1, SnapshotDecoded
  <2>8. d.map = sv.map => Linked(sv, f.messageNum, f.entities)
    BY <1>7, <2>2, <2>5 DEF SnapshotAgrees
  <2> QED
    BY <2>1, <2>3, <2>4, <2>6, <2>7, <2>8 DEF FrameAgrees
<1>12. ASSUME NEW k \in 0 .. Backup - 1
       PROVE  FrameAgrees(sv, d, d.snapshots[k])
  <2>1. CASE ~BaseUsable(cl, m)
    BY <1>6, <1>10, <2>1
  <2>2. CASE BaseUsable(cl, m) /\ k = Slot(m.sequence)
    BY <1>11, <2>2
  <2>3. CASE BaseUsable(cl, m) /\ k # Slot(m.sequence)
    <3>1. CASE d.snapshots[k] = cl.snapshots[k]
      BY <1>10, <3>1
    <3>2. CASE ~d.snapshots[k].valid
      BY <3>2 DEF FrameAgrees
    <3> QED
      BY <1>6, <2>3, <3>1, <3>2
  <2> QED
    BY <2>1, <2>2, <2>3
<1>13. ASSUME NEW x \in M, x.kind = "snapshot"
       PROVE  SnapshotAgrees(sv, d, x)
  <2>1. SnapshotAgrees(sv, cl, x) /\ MessageIsSound(sv, cl, x) /\ x \in ServerMessage
    BY <1>1, <1>13 DEF EntitiesAgree, Agree, IInv
  <2>2. x.sequence \in Nat /\ x.delta \in Nat /\ m.sequence < x.sequence
    BY <2>1, MessageParts
  <2>3. ASSUME x.delta # 0, x.map = cl.map
        PROVE  BaseOf(d, x) = BaseOf(cl, x) /\ BaseOf(cl, x) \in ClientFrame
    <3>1. /\ x.delta < x.sequence /\ x.delta < Backup
          /\ Holds(cl, x.sequence - x.delta)
      BY <2>1, <2>3 DEF MessageIsSound
    <3>2. BaseOf(d, x) = BaseOf(cl, x)
      BY <1>2, <2>2, <2>3, <3>1, BaseStays
    <3>3. x.sequence - x.delta \in Nat
      BY <2>2, <3>1
    <3>4. BaseOf(cl, x) \in ClientFrame
      BY <1>1, <3>3, SlotOf, ClientHalfParts DEF BaseOf
    <3> QED
      BY <3>2, <3>4
  <2>4. d.map = cl.map
    BY <1>6
  <2> QED
    BY <1>8, <2>1, <2>3, <2>4 DEF SnapshotAgrees
<1>14. MapsInOrder(M) /\ \A x \in M : x.map <= sv.map
  BY DEF EntitiesAgree, Agree, MapsInOrder
<1> QED
  BY <1>12, <1>13, <1>14 DEF Agree

LEMMA ReadGameStateAgrees ==
    ASSUME IInv, TypeOK, EntitiesAgree,
           NEW m \in Elements(toClient), m.kind = "gamestate",
           NEW d, d = AfterGameState(cl, m),
           NEW M, M \subseteq Elements(toClient),
           \A x \in M : m.sequence < x.sequence
    PROVE  Agree(sv, d, M)
<1>1. /\ cl \in ClientHalf /\ sv \in ServerHalf
      /\ Elements(toClient) \subseteq ServerMessage
  BY ElementsType DEF TypeOK
<1>2. /\ cl.map < m.map /\ cl.map \in Nat /\ m.map \in Nat
  BY <1>1, MessageParts, ClientHalfParts DEF IInv, MessageIsSound
<1>3. d.map = m.map /\ \A k \in 0 .. Backup - 1 : d.snapshots[k] = NoClientFrame
  <2>1. DOMAIN cl.snapshots = 0 .. Backup - 1
    BY <1>1 DEF ClientHalf
  <2> QED
    BY <2>1 DEF AfterGameState
<1>4. ASSUME NEW k \in 0 .. Backup - 1
      PROVE  FrameAgrees(sv, d, d.snapshots[k])
  BY <1>3 DEF FrameAgrees, NoClientFrame
<1>5. ASSUME NEW x \in M, x.kind = "snapshot"
      PROVE  SnapshotAgrees(sv, d, x)
  <2>1. SnapshotAgrees(sv, cl, x) /\ MessageIsSound(sv, cl, x) /\ x \in ServerMessage
    BY <1>1, <1>5 DEF EntitiesAgree, Agree, IInv
  <2>2. m.map <= x.map /\ x.map \in Nat
    BY <2>1, MessageParts DEF EntitiesAgree, Agree, MapsInOrder
  <2>3. ~(x.map <= cl.map)
    BY <1>2, <2>2
  <2>4. x.delta = 0
    BY <2>1, <2>3 DEF MessageIsSound
  <2>5. ~x.active
    <3>1. x.map # cl.map
      BY <1>2, <2>3
    <3> QED
      BY <2>1, <3>1 DEF SnapshotAgrees
  <2> QED
    BY <1>3, <2>1, <2>2, <2>4, <2>5 DEF SnapshotAgrees
<1>6. MapsInOrder(M) /\ \A x \in M : x.map <= sv.map
  BY DEF EntitiesAgree, Agree, MapsInOrder
<1> QED
  BY <1>4, <1>5, <1>6 DEF Agree

-----------------------------------------------------------------------------
(* The server sends. *)

LEMMA AgreeFlying ==
    ASSUME NEW t, NEW c, NEW M, Agree(t, c, M),
           NEW m, m.kind = "snapshot" => SnapshotAgrees(t, c, m),
           m.map = t.map, m.map \in Nat, m.sequence \in Nat,
           \A x \in M : x.sequence \in Nat /\ x.sequence < m.sequence,
           NEW N, N \subseteq M \cup {m}
    PROVE  Agree(t, c, N)
<1>1. /\ \A k \in 0 .. Backup - 1 : FrameAgrees(t, c, c.snapshots[k])
      /\ \A x \in M : x.kind = "snapshot" => SnapshotAgrees(t, c, x)
      /\ \A x \in M : x.map <= t.map
      /\ MapsInOrder(M)
  BY DEF Agree
<1>2. \A x \in N : x.kind = "snapshot" => SnapshotAgrees(t, c, x)
  BY <1>1
<1>3. \A x \in N : x.map <= t.map
  BY <1>1
<1>4. MapsInOrder(N)
  <2> SUFFICES ASSUME NEW x \in N, NEW y \in N, x.sequence < y.sequence
               PROVE  x.map <= y.map
    BY DEF MapsInOrder
  <2>1. CASE y = m
    BY <1>3, <2>1
  <2>2. CASE y \in M /\ x = m
    BY <2>2
  <2>3. CASE y \in M /\ x \in M
    BY <1>1, <2>3 DEF MapsInOrder
  <2> QED
    BY <2>1, <2>2, <2>3
<1> QED
  BY <1>1, <1>2, <1>3, <1>4 DEF Agree

(* A frame is built in a slot of its own. *)
LEMMA BuiltGrows ==
    ASSUME NEW s \in ServerHalf, s.outgoing <= MaxSequence,
           NEW seen \in Seq(Entity), NEW b, b = Built(s, seen),
           NEW t \in ServerHalf, t.outgoing = s.outgoing + 1, t.map = b.map,
           t.frames = b.frames, t.entities = b.entities, t.next = b.next
    PROVE  ServerGrows(s, t) /\ Linked(t, s.outgoing, seen)
<1>1. /\ b \in ServerHalf /\ b.next = s.next + Len(seen)
      /\ b.map = s.map
      /\ RingTakes(s.entities, b.entities, s.next, seen)
      /\ b.frames[Slot(s.outgoing)] =
            [ps |-> s.outgoing, first |-> s.next, count |-> Len(seen)]
      /\ \A k \in 0 .. Backup - 1 :
            k # Slot(s.outgoing) => b.frames[k] = s.frames[k]
  BY BuiltType
<1>2. /\ s.outgoing \in Nat /\ s.next \in Nat /\ Len(seen) \in Nat
      /\ Backup \in Nat \ {0} /\ NumSnapshotEntities \in Nat
  BY ServerParts, SequenceTaken, Limits, Sizes
<1>3. ASSUME NEW n \in Nat, n < s.outgoing, t.outgoing <= n + Backup
      PROVE  t.frames[Slot(n)] = s.frames[Slot(n)]
  <2>1. s.outgoing - n < Backup
    BY <1>2, <1>3
  <2>2. Slot(n) # Slot(s.outgoing) /\ Slot(n) \in 0 .. Backup - 1
    BY <1>2, <1>3, <2>1, SlotsApart, SlotOf
  <2> QED
    BY <1>1, <2>2
<1>4. ServerGrows(s, t)
  <2>1. t.map = s.map /\ s.outgoing <= t.outgoing
    BY <1>1, <1>2
  <2>2. /\ t.next = s.next + Len(seen)
        /\ RingTakes(s.entities, t.entities, s.next, seen)
    BY <1>1
  <2> QED
    BY <1>3, <2>1, <2>2 DEF ServerGrows
<1>5. PICK f : f = t.frames[Slot(s.outgoing)]
  OBVIOUS
<1>6. f.ps = s.outgoing /\ f.first = s.next /\ f.count = Len(seen)
  BY <1>1, <1>5
<1>7. f.first + Len(seen) <= t.next
  BY <1>1, <1>2, <1>6
<1>8. ASSUME f.first > t.next - NumSnapshotEntities, NEW i \in 1 .. Len(seen)
      PROVE  t.entities[SvSlot(f.first + i - 1)] = seen[i]
  <2>1. Len(seen) <= NumSnapshotEntities
    BY <1>1, <1>2, <1>6, <1>8
  <2>2. b.entities[SvSlot(s.next + i - 1)] = seen[i]
    BY <1>1, <2>1 DEF RingTakes
  <2> QED
    BY <1>6, <2>2
<1>9. Linked(t, s.outgoing, seen)
  BY <1>5, <1>6, <1>7, <1>8 DEF Linked
<1> QED
  BY <1>4, <1>9

(* The base the server takes is the one the client has. *)
LEMMA SendSnapshotAgrees ==
    ASSUME IInv, TypeOK, EntitiesAgree, SvSendSnapshot
    PROVE  EntitiesAgree'
<1>1. /\ cl \in ClientHalf /\ sv \in ServerHalf
      /\ Elements(toClient) \subseteq ServerMessage
      /\ toClient \in Seq(ServerMessage) /\ Len(toClient) <= MaxInFlight
  BY ElementsType DEF TypeOK
<1>2. PICK view \in Views :
         LET e == Seen(view, sv.outgoing)
             u == Built(sv, e)
         IN  Sends(u, Snapshot(u, e))
  BY DEF SvSendSnapshot
<1>3. PICK seen, b, m :
         /\ seen = Seen(view, sv.outgoing) /\ b = Built(sv, seen)
         /\ m = Snapshot(b, seen) /\ Sends(b, m)
  BY <1>2
<1>4. PICK o : o = sv.outgoing
  OBVIOUS
<1>5. /\ cl' = cl /\ o \in Nat /\ o \in 1 .. MaxSequence /\ o \in 0 .. MaxSequence
      /\ sv.outgoing <= MaxSequence
  <2>1. sv.outgoing \in 1 .. MaxSequence + 1 /\ sv.outgoing <= MaxSequence /\ cl' = cl
    BY <1>1 DEF SvSendSnapshot, CanSend, ServerHalf
  <2> QED
    BY <1>4, <2>1, Sizes
<1>6. seen \in Seq(Entity) /\ Shot(seen)
  <2>1. seen \in Seq(Entity)
    BY <1>3, <1>4, <1>5, SeenParts
  <2>2. Shot(seen)
    BY <1>3, <1>4, <1>5 DEF Shot
  <2> QED
    BY <2>1, <2>2
<1>7. /\ b \in ServerHalf /\ b.state = sv.state /\ b.map = sv.map
      /\ b.outgoing = sv.outgoing /\ b.deltaMessage = sv.deltaMessage
  <2>1. sv \in ServerHalf /\ sv.outgoing <= MaxSequence /\ b = Built(sv, seen)
    BY <1>1, <1>3, <1>5
  <2>2. seen \in Seq(Entity)
    BY <1>6
  <2> QED
    BY <2>1, <2>2, BuiltType, Zenon
<1>8. m \in ServerMessage
  <2>1. UsesDelta(b) => b.deltaMessage < b.outgoing
    BY <1>7, BaseIsEarlier DEF UsesDelta
  <2> QED
    BY <1>3, <1>5, <1>6, <1>7, <2>1, SnapshotType
<1>9. PICK t : t = sv'
  OBVIOUS
<1>10. /\ t \in ServerHalf /\ t.outgoing = sv.outgoing + 1 /\ t.map = b.map
       /\ t.frames = b.frames /\ t.entities = b.entities /\ t.next = b.next
  BY <1>3, <1>5, <1>7, <1>8, <1>9, TypeSends
<1>11. ServerGrows(sv, t) /\ Linked(t, sv.outgoing, seen)
  <2>1. sv \in ServerHalf /\ sv.outgoing <= MaxSequence /\ b = Built(sv, seen)
    BY <1>1, <1>3, <1>5
  <2> QED
    BY <1>6, <1>10, <2>1, BuiltGrows
<1>12. /\ \A x \in Elements(toClient) : x.sequence < sv.outgoing
       /\ cl.snap < sv.outgoing /\ cl.map <= sv.map
       /\ cl.snap \in Nat /\ sv.map \in Nat /\ cl.map \in Nat
  <2>1. \A x \in Elements(toClient) : x.sequence < sv.outgoing
    BY DEF IInv, MessageIsSound
  <2> QED
    BY <1>4, <1>5, <2>1, Ends
<1>13. Agree(t, cl, Elements(toClient))
  BY <1>1, <1>11, <1>12, AgreeLater DEF EntitiesAgree
<1>14. SnapshotAgrees(t, cl, m)
  <2>1. /\ m.entities = seen /\ m.map = sv.map /\ m.sequence = sv.outgoing
        /\ m.active = (sv.state = "active")
        /\ m.delta = IF UsesDelta(b) THEN b.outgoing - b.deltaMessage ELSE 0
        /\ m.psFrom = IF UsesDelta(b) THEN BaseFrame(b).ps ELSE 0
        /\ m.changes = Changes(BaseEntities(b), seen, sv.map)
    BY <1>3, <1>7 DEF Snapshot
  <2>2. sv.state = "active" => cl.map = sv.map
    BY DEF IInv, ServerIsSound
  <2>3. CASE ~UsesDelta(b)
    <3>1. m.delta = 0 /\ m.psFrom = 0 /\ m.changes = Changes(<<>>, seen, sv.map)
      BY <2>1, <2>3 DEF BaseEntities
    <3> QED
      BY <1>6, <1>11, <1>12, <2>1, <2>2, <3>1 DEF SnapshotAgrees
  <2>4. CASE UsesDelta(b)
    <3>1. PICK n : n = sv.deltaMessage
      OBVIOUS
    <3>2. /\ n > 0 /\ sv.state = "active" /\ cl.map = sv.map
          /\ Holds(cl, n) /\ n < sv.outgoing
          /\ ~OutOfDate(b) /\ ~RolledOff(b)
      BY <1>7, <2>2, <2>4, <3>1, BaseIsEarlier DEF UsesDelta
    <3>3. n \in Nat /\ sv.outgoing - n < Backup
      <4>1. n \in Int
        BY <3>1, Ends
      <4>2. ~(o - n >= Backup - DeltaMargin)
        BY <1>4, <1>7, <3>1, <3>2 DEF OutOfDate
      <4>3. n \in Nat /\ o - n < Backup
        BY <1>5, <3>2, <4>1, <4>2, Limits
      <4> QED
        BY <1>4, <4>3
    <3>4. PICK f, h : f = cl.snapshots[Slot(n)] /\ h = t.frames[Slot(n)]
      OBVIOUS
    <3>5. Slot(n) \in 0 .. Backup - 1
      BY <3>3, SlotOf
    <3>6. FrameAgrees(t, cl, f)
      BY <1>13, <3>4, <3>5 DEF Agree
    <3>7. f.valid /\ f.messageNum = n
      <4>1. cl.snap - n < Backup
        BY <1>4, <1>5, <1>12, <3>3, Limits
      <4> QED
        BY <3>2, <3>4, <4>1 DEF Holds
    <3>8. /\ f \in ClientFrame /\ Shot(f.entities) /\ Decoded(cl, f)
          /\ h.ps = n /\ h.count = Len(f.entities)
          /\ h.first > t.next - NumSnapshotEntities =>
                \A i \in 1 .. Len(f.entities) :
                   t.entities[SvSlot(h.first + i - 1)] = f.entities[i]
      <4>1. f \in ClientFrame
        BY <1>1, <3>4, <3>5, ClientHalfParts
      <4>2. cl.map = t.map
        BY <1>7, <1>10, <3>2
      <4>3. Shot(f.entities) /\ Decoded(cl, f) /\ Linked(t, n, f.entities)
        BY <3>6, <3>7, <4>2 DEF FrameAgrees
      <4>4. t.outgoing <= n + Backup
        <5>1. o + 1 <= n + Backup /\ t.outgoing = o + 1
          BY <1>4, <1>5, <1>10, <3>3, Limits
        <5> QED
          BY <5>1
      <4> QED
        BY <3>4, <4>1, <4>3, <4>4 DEF Linked
    <3>9. BaseFrame(b) = h
      BY <1>7, <1>10, <3>1, <3>4 DEF BaseFrame
    <3>10. h.first > t.next - NumSnapshotEntities
      <4>1. ~(h.first <= b.next - NumSnapshotEntities)
        BY <3>2, <3>9 DEF RolledOff
      <4>2. h.first \in Nat /\ b.next \in Nat /\ NumSnapshotEntities \in Nat
        BY <1>7, <1>10, <3>4, <3>5, ServerParts, Sizes
      <4> QED
        BY <1>10, <4>1, <4>2
    <3>11. BaseEntities(b) = f.entities
      <4>1. f.entities \in Seq(Entity)
        BY <3>8 DEF ClientFrame
      <4>2. f.entities \in [1 .. Len(f.entities) -> Entity]
        BY <4>1, SequenceTaken
      <4>3. BaseEntities(b) =
               [i \in 1 .. Len(f.entities) |-> t.entities[SvSlot(h.first + i - 1)]]
        BY <1>10, <2>4, <3>8, <3>9 DEF BaseEntities
      <4>4. \A i \in 1 .. Len(f.entities) :
               t.entities[SvSlot(h.first + i - 1)] = f.entities[i]
        BY <3>8, <3>10
      <4> QED
        BY <4>2, <4>3, <4>4
    <3>12. m.delta = sv.outgoing - n /\ m.delta # 0 /\ m.sequence - m.delta = n
      <4>1. m.delta = o - n /\ n < o
        BY <1>4, <1>7, <2>1, <2>4, <3>1, <3>2
      <4>2. o - n # 0 /\ o - (o - n) = n
        BY <1>5, <3>3, <4>1
      <4> QED
        BY <1>4, <2>1, <4>1, <4>2
    <3>13. BaseOf(cl, m) = f
      BY <3>4, <3>12 DEF BaseOf
    <3>14. m.psFrom = m.sequence - m.delta
      BY <2>1, <2>4, <3>8, <3>9, <3>12
    <3>15. m.changes = Changes(BaseOf(cl, m).entities, m.entities, m.map)
      BY <2>1, <3>11, <3>13
    <3> QED
      BY <1>6, <1>11, <1>12, <2>1, <2>2, <3>8, <3>12, <3>13, <3>14, <3>15
         DEF SnapshotAgrees
  <2> QED
    BY <2>3, <2>4
<1>15. Elements(toClient') \subseteq Elements(toClient) \cup {m}
  <2>1. toClient' = Flying(toClient, m)
    BY <1>3 DEF Sends
  <2> QED
    BY <1>1, <1>8, <2>1, FlyingKeepsOrder
<1>16. Agree(t, cl, Elements(toClient'))
  <2>1. \A x \in Elements(toClient) : x.sequence \in Nat /\ x.sequence < m.sequence
    <3>1. m.sequence = sv.outgoing
      BY <1>3, <1>7 DEF Snapshot
    <3> QED
      BY <1>1, <1>12, <3>1, MessageParts
  <2>2. m.map = t.map /\ m.map \in Nat /\ m.sequence \in Nat
    <3>1. m.map = t.map
      BY <1>3, <1>10 DEF Snapshot
    <3> QED
      BY <1>8, <3>1, MessageParts
  <2> QED
    BY <1>13, <1>14, <1>15, <2>1, <2>2, AgreeFlying
<1> QED
  BY <1>5, <1>9, <1>16 DEF EntitiesAgree

-----------------------------------------------------------------------------
(* The other steps. *)

LEMMA ServerStays ==
    ASSUME NEW s \in ServerHalf, NEW t \in ServerHalf, t.map = s.map,
           s.outgoing <= t.outgoing, t.frames = s.frames,
           t.entities = s.entities, t.next = s.next
    PROVE  ServerGrows(s, t)
<1>1. <<>> \in Seq(Entity) /\ Len(<<>>) = 0
  BY EmptySeq
<1>2. t.next = s.next + Len(<<>>)
  BY <1>1, ServerParts
<1>3. RingTakes(s.entities, t.entities, s.next, <<>>)
  BY <1>1 DEF RingTakes
<1> QED
  BY <1>1, <1>2, <1>3 DEF ServerGrows

LEMMA GrowsAgree ==
    ASSUME IInv, TypeOK, EntitiesAgree, ServerGrows(sv, sv')
    PROVE  Agree(sv', cl, Elements(toClient))
<1>1. cl \in ClientHalf /\ Elements(toClient) \in SUBSET ServerMessage
  BY ElementsType DEF TypeOK
<1>2. \A x \in Elements(toClient) : x.sequence < sv.outgoing
  BY DEF IInv, MessageIsSound
<1>3. cl.snap < sv.outgoing
  BY Ends
<1> QED
  BY <1>1, <1>2, <1>3, AgreeLater DEF EntitiesAgree

LEMMA AgreeInit ==
    ASSUME Init
    PROVE  EntitiesAgree
<1>1. \A k \in 0 .. Backup - 1 : ~cl.snapshots[k].valid
  BY DEF Init, NoClientFrame
<1>2. Elements(toClient) = {}
  BY EmptySeq DEF Init, Elements
<1> QED
  BY <1>1, <1>2 DEF EntitiesAgree, Agree, FrameAgrees, MapsInOrder

LEMMA SpawnServerAgrees ==
    ASSUME IInv, TypeOK, EntitiesAgree, SvSpawnServer
    PROVE  EntitiesAgree'
<1>1. /\ cl' = cl /\ toClient' = toClient /\ sv'.map = sv.map + 1
      /\ sv.map \in Nat /\ cl.map \in Nat /\ cl.map <= sv.map
      /\ Elements(toClient) \subseteq ServerMessage
  BY Ends, ElementsType DEF SvSpawnServer, TypeOK, ServerHalf
<1>2. /\ \A k \in 0 .. Backup - 1 : FrameAgrees(sv, cl, cl.snapshots[k])
      /\ \A x \in Elements(toClient) : x.kind = "snapshot" => SnapshotAgrees(sv, cl, x)
      /\ \A x \in Elements(toClient) : x.map <= sv.map /\ x.map \in Nat
      /\ MapsInOrder(Elements(toClient))
  BY <1>1, MessageParts DEF EntitiesAgree, Agree
<1>3. cl.map # sv'.map
  BY <1>1
<1>4. \A k \in 0 .. Backup - 1 : FrameAgrees(sv', cl, cl.snapshots[k])
  BY <1>2, <1>3 DEF FrameAgrees
<1>5. \A x \in Elements(toClient) : x.map # sv'.map /\ x.map <= sv'.map
  BY <1>1, <1>2
<1>6. \A x \in Elements(toClient) : x.kind = "snapshot" => SnapshotAgrees(sv', cl, x)
  BY <1>2, <1>5 DEF SnapshotAgrees
<1>7. Agree(sv', cl, Elements(toClient))
  BY <1>2, <1>4, <1>5, <1>6 DEF Agree
<1> QED
  BY <1>1, <1>7 DEF EntitiesAgree

LEMMA ReceiveAgrees ==
    ASSUME IInv, TypeOK, TypeOK', EntitiesAgree,
           NEW i \in 1 .. Len(toServer), SvReceive(i)
    PROVE  EntitiesAgree'
<1>1. /\ sv \in ServerHalf /\ sv' \in ServerHalf /\ sv.outgoing \in Nat
      /\ Elements(toClient) \subseteq ServerMessage
      /\ toClient \in Seq(ServerMessage) /\ Len(toClient) <= MaxInFlight
  BY ElementsType, ServerParts DEF TypeOK
<1>2. PICK p, t : /\ p = toServer[i]
                  /\ t = [sv EXCEPT !.state = "primed", !.gameStateNum = sv.outgoing]
  OBVIOUS
<1>3. /\ cl' = cl
      /\ \/ CanSend /\ Sends(t, GameState(t))
         \/ toClient' = toClient /\ sv' = AfterMove(sv, p)
         \/ toClient' = toClient /\ sv' = sv
  BY <1>2 DEF SvReceive
<1>4. CASE CanSend /\ Sends(t, GameState(t))
  <2>1. sv.outgoing \in -1 .. MaxSequence /\ sv.outgoing \in 1 .. MaxSequence
    <3>1. sv.outgoing \in 1 .. MaxSequence + 1
      BY ServerParts DEF TypeOK, ServerHalf
    <3>2. sv.outgoing <= MaxSequence
      BY <1>4 DEF CanSend
    <3> QED
      BY <3>1, <3>2, Sizes
  <2>2. /\ t \in ServerHalf /\ t.outgoing = sv.outgoing /\ t.map = sv.map
        /\ t.frames = sv.frames /\ t.entities = sv.entities /\ t.next = sv.next
    BY <1>1, <1>2, <2>1 DEF ServerHalf
  <2>3. PICK m : m = GameState(t)
    OBVIOUS
  <2>4. /\ m.kind = "gamestate" /\ m.sequence = sv.outgoing /\ m.map = sv.map
        /\ m \in ServerMessage
    <3>1. /\ t.map \in 1 .. MaxSpawns + 1 /\ 0 \in 0 .. Backup
          /\ 0 \in 0 .. MaxSequence /\ <<>> \in Seq(Change) /\ <<>> \in Seq(Entity)
      BY <2>2, Limits, Sizes DEF ServerHalf
    <3> QED
      BY <2>1, <2>2, <2>3, <3>1 DEF GameState, ServerMessage
  <2>5. /\ sv'.outgoing = sv.outgoing + 1 /\ sv'.map = sv.map
        /\ sv'.frames = sv.frames /\ sv'.entities = sv.entities
        /\ sv'.next = sv.next
    <3>1. t.outgoing <= MaxSequence /\ Sends(t, m)
      BY <1>4, <2>1, <2>2, <2>3
    <3> QED
      BY <2>2, <2>4, <3>1, TypeSends
  <2>6. ServerGrows(sv, sv')
    <3>1. sv.outgoing <= sv'.outgoing
      BY <1>1, <2>5
    <3> QED
      BY <1>1, <2>5, <3>1, ServerStays
  <2>7. Agree(sv', cl, Elements(toClient))
    BY <2>6, GrowsAgree
  <2>8. Elements(toClient') \subseteq Elements(toClient) \cup {m}
    <3>1. toClient' = Flying(toClient, m)
      BY <1>4, <2>3 DEF Sends
    <3> QED
      BY <1>1, <2>4, <3>1, FlyingKeepsOrder
  <2>9. \A x \in Elements(toClient) : x.sequence \in Nat /\ x.sequence < m.sequence
    <3>1. \A x \in Elements(toClient) : x.sequence < sv.outgoing
      BY DEF IInv, MessageIsSound
    <3> QED
      BY <1>1, <2>4, <3>1, MessageParts
  <2>10. m.map = sv'.map /\ m.map \in Nat /\ m.sequence \in Nat
    BY <2>4, <2>5, MessageParts
  <2>11. Agree(sv', cl, Elements(toClient'))
    <3>1. m.kind = "snapshot" => SnapshotAgrees(sv', cl, m)
      BY <2>4
    <3> QED
      BY <2>7, <2>8, <2>9, <2>10, <3>1, AgreeFlying
  <2> QED
    BY <1>3, <2>11 DEF EntitiesAgree
<1>5. CASE toClient' = toClient /\ sv' = AfterMove(sv, p)
  <2>1. /\ sv'.map = sv.map /\ sv'.outgoing = sv.outgoing
        /\ sv'.frames = sv.frames /\ sv'.entities = sv.entities
        /\ sv'.next = sv.next
    BY <1>1, <1>5 DEF AfterMove, ServerHalf
  <2>2. ServerGrows(sv, sv')
    <3>1. sv.outgoing <= sv'.outgoing
      BY <1>1, <2>1
    <3> QED
      BY <1>1, <2>1, <3>1, ServerStays
  <2>3. Agree(sv', cl, Elements(toClient))
    BY <2>2, GrowsAgree
  <2> QED
    BY <1>3, <1>5, <2>3 DEF EntitiesAgree
<1>6. CASE toClient' = toClient /\ sv' = sv
  BY <1>3, <1>6 DEF EntitiesAgree
<1> QED
  BY <1>3, <1>4, <1>5, <1>6

LEMMA BuildForOtherAgrees ==
    ASSUME IInv, TypeOK, TypeOK', EntitiesAgree, SvBuildForOther
    PROVE  EntitiesAgree'
<1>1. /\ sv \in ServerHalf /\ sv' \in ServerHalf /\ sv.outgoing \in Nat
      /\ cl' = cl /\ toClient' = toClient
  BY ServerParts DEF TypeOK, SvBuildForOther
<1>2. PICK view \in Views :
         sv' = Copied(sv, [n \in 1 .. Cardinality(view) |-> NoEntity])
  BY DEF SvBuildForOther
<1>3. PICK seen : /\ seen = [n \in 1 .. Cardinality(view) |-> NoEntity]
                  /\ sv' = Copied(sv, seen)
  BY <1>2
<1>4. seen \in Seq(Entity)
  <2>1. Cardinality(view) \in Nat
    BY ViewParts
  <2>2. seen \in [1 .. Cardinality(view) -> Entity]
    BY <1>3, VersionParts
  <2> QED
    BY <2>1, <2>2, SequenceMade
<1>5. /\ sv'.next = sv.next + Len(seen) /\ sv'.frames = sv.frames
      /\ sv'.map = sv.map /\ sv'.outgoing = sv.outgoing
      /\ RingTakes(sv.entities, sv'.entities, sv.next, seen)
  <2>1. PICK t : t = sv'
    OBVIOUS
  <2>2. t = Copied(sv, seen)
    BY <1>3, <2>1
  <2>3. sv \in ServerHalf
    BY <1>1
  <2>4. /\ t.next = sv.next + Len(seen) /\ t.frames = sv.frames
        /\ t.map = sv.map /\ t.outgoing = sv.outgoing
        /\ RingTakes(sv.entities, t.entities, sv.next, seen)
    BY <1>4, <2>2, <2>3, CopiedType
  <2> QED
    BY <2>1, <2>4
<1>6. ServerGrows(sv, sv')
  BY <1>1, <1>4, <1>5 DEF ServerGrows
<1>7. Agree(sv', cl, Elements(toClient))
  BY <1>6, GrowsAgree
<1> QED
  BY <1>1, <1>7 DEF EntitiesAgree

LEMMA AgreeStep ==
    ASSUME ViewsChangeLittle, IInv, TypeOK, EntitiesAgree, [Next]_vars
    PROVE  EntitiesAgree'
<1>1. TypeOK'
  BY TypeStep
<1>2. /\ toServer \in Seq(ClientMessage) /\ toClient \in Seq(ServerMessage)
      /\ DOMAIN toServer = 1 .. Len(toServer)
      /\ DOMAIN toClient = 1 .. Len(toClient)
  BY LenProperties DEF TypeOK
<1>3. CASE \E i \in DOMAIN toClient : ClReceive(i)
  <2>1. PICK i \in 1 .. Len(toClient) : ClReceive(i)
    BY <1>2, <1>3
  <2>2. PICK m : m = toClient[i]
    OBVIOUS
  <2>3. /\ toClient' = AfterArrival(toClient, i) /\ sv' = sv
        /\ m.kind = "gamestate" => cl' = AfterGameState(cl, m)
        /\ m.kind # "gamestate" => cl' = AfterSnapshot(cl, m)
    BY <2>1, <2>2 DEF ClReceive
  <2>4. /\ Elements(toClient') \subseteq Elements(toClient)
        /\ m \in Elements(toClient)
        /\ \A x \in Elements(toClient') : m.sequence < x.sequence
    BY <2>2, <2>3, MessageArrived DEF IInv
  <2>5. m.kind \in {"snapshot", "gamestate"}
    BY <2>4 DEF IInv, MessageIsSound, IsMessage
  <2>6. Agree(sv, cl', Elements(toClient'))
    <3>1. CASE m.kind = "snapshot"
      BY <2>3, <2>4, <3>1, ReadSnapshotAgrees
    <3>2. CASE m.kind = "gamestate"
      BY <2>3, <2>4, <3>2, ReadGameStateAgrees
    <3> QED
      BY <2>5, <3>1, <3>2
  <2> QED
    BY <2>3, <2>6 DEF EntitiesAgree
<1>4. CASE \E i \in DOMAIN toServer : SvReceive(i)
  <2>1. PICK i \in 1 .. Len(toServer) : SvReceive(i)
    BY <1>2, <1>4
  <2> QED
    BY <1>1, <2>1, ReceiveAgrees
<1>5. CASE ClWritePacket
  BY <1>5 DEF ClWritePacket, EntitiesAgree
<1>6. CASE UNCHANGED vars
  BY <1>6 DEF vars, EntitiesAgree
<1>7. CASE SvSendSnapshot
  BY <1>7, SendSnapshotAgrees
<1>8. CASE SvBuildForOther
  BY <1>1, <1>8, BuildForOtherAgrees
<1>9. CASE SvSpawnServer
  BY <1>9, SpawnServerAgrees
<1> QED
  BY <1>3, <1>4, <1>5, <1>6, <1>7, <1>8, <1>9 DEF Next

LEMMA AgreeAsBuilt ==
    ASSUME TypeOK, EntitiesAgree
    PROVE  ActiveSnapshotsAsBuilt
<1>1. cl \in ClientHalf /\ DOMAIN cl.snapshots = 0 .. Backup - 1
  BY DEF TypeOK, ClientHalf
<1> SUFFICES ASSUME NEW k \in 0 .. Backup - 1, NEW f, f = cl.snapshots[k],
                    Readable(f), f.active
             PROVE  f.ps = f.messageNum /\ EntitiesRead(f) = Truncated(f.entities)
  BY <1>1 DEF ActiveSnapshotsAsBuilt
<1>2. f.valid /\ cl.next - f.start < MaxParseEntities
  BY DEF Readable
<1>3. Decoded(cl, f)
  BY <1>2 DEF EntitiesAgree, Agree, FrameAgrees
<1>4. /\ f.ps = f.messageNum /\ f.count = Len(f.entities)
      /\ \A i \in 1 .. Len(f.entities) :
            cl.entities[ClSlot(f.start + i - 1)] = f.entities[i]
  BY <1>2, <1>3 DEF Decoded
<1>5. f.entities \in [1 .. Len(f.entities) -> Entity]
  BY <1>1, ClientHalfParts, SequenceTaken
<1>6. EntitiesRead(f) = Truncated(f.entities)
  <2> DEFINE N == Len(f.entities)
             M == MaxEntitiesInSnapshot
  <2>1. N \in Nat /\ M \in Nat /\ f.entities \in Seq(Entity)
    BY <1>1, ClientHalfParts, SequenceTaken, SnapshotDeltaAssumption
  <2>2. CASE N > M
    <3>1. EntitiesRead(f) = [i \in 1 .. M |-> cl.entities[ClSlot(f.start + i - 1)]]
      BY <1>4, <2>2 DEF EntitiesRead
    <3>2. Truncated(f.entities) = [i \in 1 .. M |-> f.entities[i]]
      <4>1. SubSeq(f.entities, 1, M) = [i \in 1 .. M |-> f.entities[i]]
        BY <2>1, <2>2
      <4> QED
        BY <2>2, <4>1 DEF Truncated
    <3>3. \A i \in 1 .. M : i \in 1 .. N
      BY <2>1, <2>2
    <3> QED
      BY <1>4, <3>1, <3>2, <3>3
  <2>3. CASE ~(N > M)
    BY <1>4, <1>5, <2>3 DEF EntitiesRead, Truncated
  <2> QED
    BY <2>2, <2>3
<1> QED
  BY <1>4, <1>6

(* What the cgame is given of a snapshot that was built for an active       *)
(* client is what the server saw, up to the MAX_ENTITIES_IN_SNAPSHOT        *)
(* entities it takes (cl_cgame.c:152-156), for every such limit and every   *)
(* size of the rings, whatever is lost and whatever maps and gamestates     *)
(* come between: while one view has no more than ParseMargin entities that  *)
(* another has not (CL_ParseSnapshot takes a base that is ParseMargin       *)
(* entities short of a turn of the ring, and CL_DeltaEntity writes over the *)
(* ring as the base is read).                                               *)
THEOREM SnapshotsAsBuilt ==
    ASSUME ViewsChangeLittle
    PROVE  Spec => []ActiveSnapshotsAsBuilt
<1>1. Init => EntitiesAgree
  BY AgreeInit
<1>2. IInv /\ TypeOK /\ EntitiesAgree /\ [Next]_vars => EntitiesAgree'
  BY AgreeStep
<1>3. TypeOK /\ EntitiesAgree => ActiveSnapshotsAsBuilt
  BY AgreeAsBuilt
<1> QED
  BY <1>1, <1>2, <1>3, Invariance, TypeCorrect, PTL DEF Spec
=============================================================================
