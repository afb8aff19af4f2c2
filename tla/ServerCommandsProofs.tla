------------------------ MODULE ServerCommandsProofs ------------------------
(***************************************************************************)
(* What ServerCommands promises for every size of the rings, every number  *)
(* of commands and messages and every bound on the messages in flight.     *)
(***************************************************************************)
EXTENDS ServerCommands, SendPathProofs, FiniteSetTheorems

(* The server's half, with the log: h is what the operators that add        *)
(* commands work on.  The ring holds the last MaxReliable commands until    *)
(* one is counted that does not fit.                                        *)
Overflown(c) == c.reliableSequence - c.reliableAcknowledge > MaxReliable

RingIsLog(h) ==
    ~Overflown(h.c) =>
        \A n \in 1 .. h.c.reliableSequence :
            n > h.c.reliableSequence - MaxReliable =>
                h.c.reliableCommands[Slot(n)] = h.log[n]

States == {"connected", "primed", "active", "zombie"}

Half == [state               : States,
         reliableSequence    : Nat,
         reliableAcknowledge : Nat,
         reliableCommands    : Ring]

ServerIsSound(h) ==
    /\ h \in [c : Half, log : Seq(Text), gameDrops : Nat]
    /\ Len(h.log) = h.c.reliableSequence
    /\ h.c.reliableAcknowledge <= h.c.reliableSequence
    /\ RingIsLog(h)

(* Only a client that is dropped is past the window, or past MaxCommands.   *)
WindowIsBounded(c) ==
    /\ c.reliableSequence <= MaxCommands + 10
    /\ c.state # "zombie" => ~Overflown(c) /\ c.reliableSequence <= MaxCommands

(* What a server message on its way may say. *)
Told ==
    {m \in ServerMessage :
        /\ m.built <= sv.reliableSequence
        /\ IF m.kind = "cleared" THEN m.texts = <<>>
           ELSE m.first + Len(m.texts) = m.built + 1
        /\ ~Overflown(sv) => \A i \in 1 .. Len(m.texts) :
                                m.texts[i] = log[m.first + (i - 1)]
        /\ m.texts # <<>> /\ sv.reliableSequence - m.built < MaxReliable =>
              m.texts[Len(m.texts)] = sv.reliableCommands[Slot(m.built)]
        /\ ~stranded => /\ cl.serverCommandSequence <= m.built
                        /\ m.first <= cl.serverCommandSequence + 1}

BuiltOrder == {p \in ServerMessage \X ServerMessage : p[1].built <= p[2].built}

(* What a client packet on its way may say. *)
Packets ==
    {p \in ClientMessage :
        /\ p.ack <= sv.reliableSequence
        /\ ~stranded =>
              /\ sv.reliableAcknowledge <= p.ack
              /\ p.ack <= cl.serverCommandSequence
              /\ sv.reliableSequence - p.ack < MaxReliable =>
                    sv.reliableCommands[Slot(p.ack)] = p.key}

AckOrder == {p \in ClientMessage \X ClientMessage : p[1].ack <= p[2].ack}

(* As long as no queue was stranded, the client stores the commands in the  *)
(* order in which the server sent them.                                     *)
InStep ==
    ~stranded =>
        /\ ~Strands(path)
        /\ InOrder(path, BuiltOrder)
        /\ Sorted(toServer, AckOrder)
        /\ sv.reliableAcknowledge <= cl.serverCommandSequence
        /\ sv.reliableSequence - cl.serverCommandSequence < MaxReliable =>
              sv.reliableCommands[Slot(cl.serverCommandSequence)] = KeyOf(cl)
        /\ shown <= cl.lastExecuted
        /\ cl.lastExecuted <= cl.serverCommandSequence
        /\ \A j \in 1 .. Len(cl.snapshots) :
              /\ cl.snapshots[j].built = cl.snapshots[j].commandNum
              /\ cl.snapshots[j].commandNum <= cl.serverCommandSequence

(* The client's ring, and what the cgame executed. *)
ClientHasLog ==
    ~stranded /\ ~Overflown(sv) =>
        /\ \A n \in 1 .. cl.serverCommandSequence :
              n > cl.serverCommandSequence - MaxReliable =>
                 cl.serverCommands[Slot(n)] = log[n]
        /\ Len(executed) = cl.lastExecuted
        /\ \A n \in 1 .. cl.lastExecuted : executed[n] = log[n]

IInv ==
    /\ ServerIsSound(Here) /\ WindowIsBounded(sv)
    /\ cl \in ClientHalf
    /\ Len(cl.snapshots) <= SnapshotBackup
    /\ cl.serverCommandSequence <= sv.reliableSequence
    /\ toServer \in Seq(Packets)
    /\ path \in PathOf(Told)
    /\ gameStates \in 0 .. MaxGameStates
    /\ executed \in Seq(Text)
    /\ shown \in Sequence
    /\ stranded \in BOOLEAN
    /\ InStep
    /\ ClientHasLog
-----------------------------------------------------------------------------
(* Adding commands. *)

(* g is h with up to k commands more.                                       *)
Adds(h, g, k) ==
    /\ ServerIsSound(g)
    /\ g.c.reliableAcknowledge = h.c.reliableAcknowledge
    /\ h.c.reliableSequence <= g.c.reliableSequence
    /\ g.c.reliableSequence <= h.c.reliableSequence + k
    /\ \A b \in 0 .. h.c.reliableSequence :
          g.c.reliableSequence - b < MaxReliable =>
             g.c.reliableCommands[Slot(b)] = h.c.reliableCommands[Slot(b)]
    /\ \A n \in 1 .. h.c.reliableSequence : g.log[n] = h.log[n]

LEMMA ServerParts ==
    ASSUME NEW h, ServerIsSound(h)
    PROVE  /\ h.c \in Half /\ h.log \in Seq(Text) /\ h.gameDrops \in Nat
           /\ h.c.state \in States
           /\ h.c.reliableSequence \in Nat /\ h.c.reliableAcknowledge \in Nat
           /\ h.c.reliableAcknowledge <= h.c.reliableSequence
           /\ h.c.reliableCommands \in Ring
           /\ Len(h.log) = h.c.reliableSequence
  BY DEF ServerIsSound, Half

LEMMA SlotOf ==
    ASSUME NEW n \in Nat
    PROVE  Slot(n) \in 0 .. MaxReliable - 1
  BY SlotType, ServerCommandsAssumption DEF Slot

LEMMA SlotsApart ==
    ASSUME NEW a \in Nat, NEW b \in Nat, a < b, b - a < MaxReliable
    PROVE  Slot(a) # Slot(b)
  BY SlotsDiffer, ServerCommandsAssumption DEF Slot

LEMMA AddsNothing ==
    ASSUME NEW h, ServerIsSound(h), NEW g, ServerIsSound(g), NEW k \in Nat,
           g.c.reliableSequence = h.c.reliableSequence,
           g.c.reliableAcknowledge = h.c.reliableAcknowledge,
           g.c.reliableCommands = h.c.reliableCommands,
           g.log = h.log
    PROVE  Adds(h, g, k)
  BY ServerParts DEF Adds

LEMMA AddsFewer ==
    ASSUME NEW h, ServerIsSound(h), NEW g, NEW j \in Nat, NEW k \in Nat,
           Adds(h, g, j), j <= k
    PROVE  Adds(h, g, k)
<1>1. /\ h.c.reliableSequence \in Nat /\ g.c.reliableSequence \in Nat
      /\ g.c.reliableSequence <= h.c.reliableSequence + j
  BY ServerParts DEF Adds
<1>2. g.c.reliableSequence <= h.c.reliableSequence + k
  BY <1>1
<1> QED
  BY <1>2 DEF Adds

LEMMA AddsSound ==
    ASSUME NEW h, NEW g, NEW k, Adds(h, g, k)
    PROVE  ServerIsSound(g)
  BY DEF Adds

LEMMA AddsMore ==
    ASSUME NEW h, ServerIsSound(h), NEW f, NEW g, NEW j \in Nat, NEW k \in Nat,
           Adds(h, f, j), Adds(f, g, k)
    PROVE  Adds(h, g, j + k)
<1> DEFINE R(x) == x.c.reliableSequence
<1>1. ServerIsSound(f) /\ ServerIsSound(g)
  BY DEF Adds
<1>2. /\ R(h) \in Nat /\ R(f) \in Nat /\ R(g) \in Nat
      /\ R(h) <= R(f) /\ R(f) <= R(h) + j
      /\ R(f) <= R(g) /\ R(g) <= R(f) + k
  BY <1>1, ServerParts DEF Adds
<1>3. R(h) <= R(g) /\ R(g) <= R(h) + (j + k)
  <2> HIDE DEF R
  <2> QED
    BY <1>2
<1>4. ASSUME NEW b \in 0 .. R(h), R(g) - b < MaxReliable
      PROVE  g.c.reliableCommands[Slot(b)] = h.c.reliableCommands[Slot(b)]
  <2>1. b \in 0 .. R(f) /\ R(f) - b < MaxReliable
    <3> HIDE DEF R
    <3> QED
      BY <1>2, <1>4, ServerCommandsAssumption
  <2>2. f.c.reliableCommands[Slot(b)] = h.c.reliableCommands[Slot(b)]
    BY <1>4, <2>1 DEF Adds
  <2>3. g.c.reliableCommands[Slot(b)] = f.c.reliableCommands[Slot(b)]
    BY <1>4, <2>1 DEF Adds
  <2> QED
    BY <2>2, <2>3
<1>5. ASSUME NEW n \in 1 .. R(h)
      PROVE  g.log[n] = h.log[n]
  <2>1. n \in 1 .. R(f)
    BY <1>2
  <2> QED
    BY <2>1 DEF Adds
<1>6. g.c.reliableAcknowledge = h.c.reliableAcknowledge
  BY DEF Adds
<1> QED
  BY <1>1, <1>3, <1>4, <1>5, <1>6 DEF Adds

(* The command that overflows the window is counted.                        *)
LEMMA CountedParts ==
    ASSUME NEW h, ServerIsSound(h), NEW text \in Text, NEW t, t = Counted(h, text)
    PROVE  /\ t \in [c : Half, log : Seq(Text), gameDrops : Nat]
           /\ t.c.state = h.c.state /\ t.gameDrops = h.gameDrops
           /\ t.c.reliableSequence = h.c.reliableSequence + 1
           /\ t.c.reliableAcknowledge = h.c.reliableAcknowledge
           /\ t.c.reliableCommands = h.c.reliableCommands
           /\ Len(t.log) = h.c.reliableSequence + 1
           /\ t.log[h.c.reliableSequence + 1] = text
           /\ \A n \in 1 .. h.c.reliableSequence : t.log[n] = h.log[n]
<1>1. /\ h \in [c : Half, log : Seq(Text), gameDrops : Nat]
      /\ h.c \in Half /\ h.c.reliableSequence \in Nat
      /\ h.log \in Seq(Text) /\ Len(h.log) = h.c.reliableSequence
  BY ServerParts DEF ServerIsSound
<1>2. PICK l : l = Append(h.log, text)
  OBVIOUS
<1>3. /\ l \in Seq(Text) /\ Len(l) = h.c.reliableSequence + 1
      /\ l[h.c.reliableSequence + 1] = text
      /\ \A n \in 1 .. h.c.reliableSequence : l[n] = h.log[n]
  BY <1>1, <1>2, AppendProperties
<1>4. PICK c : c = [h.c EXCEPT !.reliableSequence = h.c.reliableSequence + 1]
  OBVIOUS
<1>5. /\ c \in Half /\ c.state = h.c.state
      /\ c.reliableSequence = h.c.reliableSequence + 1
      /\ c.reliableAcknowledge = h.c.reliableAcknowledge
      /\ c.reliableCommands = h.c.reliableCommands
  BY <1>1, <1>4 DEF Half
<1>6. t = [h EXCEPT !.c = c, !.log = l]
  BY <1>2, <1>4 DEF Counted
<1>7. /\ t \in [c : Half, log : Seq(Text), gameDrops : Nat]
      /\ t.c = c /\ t.log = l /\ t.gameDrops = h.gameDrops
  BY <1>1, <1>3, <1>5, <1>6
<1> QED
  BY <1>3, <1>5, <1>7

LEMMA CountedAdds ==
    ASSUME NEW h, ServerIsSound(h), Overflows(h.c), NEW text \in Text,
           NEW t, t = Counted(h, text)
    PROVE  Adds(h, t, 1) /\ t.c.state = h.c.state /\ t.gameDrops = h.gameDrops
<1>1. /\ h.c.reliableSequence \in Nat /\ h.c.reliableAcknowledge \in Nat
      /\ h.c.reliableAcknowledge <= h.c.reliableSequence
  BY ServerParts
<1>2. /\ t \in [c : Half, log : Seq(Text), gameDrops : Nat]
      /\ t.c.state = h.c.state /\ t.gameDrops = h.gameDrops
      /\ t.c.reliableSequence = h.c.reliableSequence + 1
      /\ t.c.reliableAcknowledge = h.c.reliableAcknowledge
      /\ t.c.reliableCommands = h.c.reliableCommands
      /\ Len(t.log) = h.c.reliableSequence + 1
      /\ \A n \in 1 .. h.c.reliableSequence : t.log[n] = h.log[n]
  BY CountedParts, SMTT(30)
<1>3. Overflown(t.c)
  <2>1. h.c.reliableSequence + 1 - h.c.reliableAcknowledge = MaxReliable + 1
    BY Zenon DEF Overflows
  <2>2. /\ t.c.reliableSequence = h.c.reliableSequence + 1
        /\ t.c.reliableAcknowledge = h.c.reliableAcknowledge
    BY <1>2
  <2>3. MaxReliable \in Nat
    BY ServerCommandsAssumption
  <2> QED
    BY <1>1, <2>1, <2>2, <2>3 DEF Overflown
<1>4. ServerIsSound(t)
  BY <1>1, <1>2, <1>3 DEF ServerIsSound, RingIsLog
<1> QED
  BY <1>1, <1>2, <1>4 DEF Adds

LEMMA StoredAdds ==
    ASSUME NEW h, ServerIsSound(h), NEW text \in Text, NEW t, t = Stored(h, text)
    PROVE  /\ Adds(h, t, 1) /\ t.c.state = h.c.state /\ t.gameDrops = h.gameDrops
           /\ t.c.reliableSequence = h.c.reliableSequence + 1
<1>1. /\ h.c.reliableSequence \in Nat /\ h.c.reliableAcknowledge \in Nat
      /\ h.c.reliableAcknowledge <= h.c.reliableSequence
      /\ h.c.reliableCommands \in Ring
      /\ MaxReliable \in Nat \ {0}
  BY ServerParts, ServerCommandsAssumption
<1>2. PICK f, k : f = Counted(h, text) /\ k = Slot(h.c.reliableSequence + 1)
  OBVIOUS
<1>3. /\ f \in [c : Half, log : Seq(Text), gameDrops : Nat]
      /\ f.c.state = h.c.state /\ f.gameDrops = h.gameDrops
      /\ f.c.reliableSequence = h.c.reliableSequence + 1
      /\ f.c.reliableAcknowledge = h.c.reliableAcknowledge
      /\ f.c.reliableCommands = h.c.reliableCommands
      /\ Len(f.log) = h.c.reliableSequence + 1
      /\ f.log[h.c.reliableSequence + 1] = text
      /\ \A n \in 1 .. h.c.reliableSequence : f.log[n] = h.log[n]
  BY <1>2, CountedParts, SMTT(30)
<1>4. PICK ring : ring = [h.c.reliableCommands EXCEPT ![k] = text]
  OBVIOUS
<1>5. k \in 0 .. MaxReliable - 1
  BY <1>1, <1>2, SlotOf
<1>6. /\ ring \in Ring /\ ring[k] = text
      /\ \A i \in 0 .. MaxReliable - 1 : i # k => ring[i] = h.c.reliableCommands[i]
  BY <1>1, <1>4, <1>5 DEF Ring
<1>7. PICK c : c = [f.c EXCEPT !.reliableCommands = ring]
  OBVIOUS
<1>8. /\ c \in Half /\ c.state = h.c.state
      /\ c.reliableSequence = h.c.reliableSequence + 1
      /\ c.reliableAcknowledge = h.c.reliableAcknowledge
      /\ c.reliableCommands = ring
  BY <1>3, <1>6, <1>7 DEF Half
<1>9. t = [f EXCEPT !.c = c]
  <2>1. t = [f EXCEPT !.c = [f.c EXCEPT !.reliableCommands =
                                [f.c.reliableCommands EXCEPT ![k] = text]]]
    BY <1>2 DEF Stored
  <2> QED
    BY <1>3, <1>4, <1>7, <2>1
<1>10. /\ t \in [c : Half, log : Seq(Text), gameDrops : Nat]
       /\ t.c = c /\ t.log = f.log /\ t.gameDrops = h.gameDrops
  BY <1>3, <1>8, <1>9
<1>11. ASSUME NEW b \in 0 .. h.c.reliableSequence,
              (h.c.reliableSequence + 1) - b < MaxReliable
       PROVE  ring[Slot(b)] = h.c.reliableCommands[Slot(b)]
  <2>1. Slot(b) \in 0 .. MaxReliable - 1
    BY <1>1, SlotOf
  <2>2. Slot(b) # k
    BY <1>1, <1>2, <1>11, SlotsApart
  <2> QED
    BY <1>6, <2>1, <2>2
<1>12. RingIsLog(t)
  <2> SUFFICES ASSUME ~Overflown(t.c), NEW n \in 1 .. h.c.reliableSequence + 1,
                      n > (h.c.reliableSequence + 1) - MaxReliable
               PROVE  ring[Slot(n)] = f.log[n]
    BY <1>8, <1>10 DEF RingIsLog
  <2>1. CASE n = h.c.reliableSequence + 1
    BY <1>2, <1>3, <1>6, <2>1
  <2>2. CASE n # h.c.reliableSequence + 1
    <3>1. /\ n \in 1 .. h.c.reliableSequence /\ n \in 0 .. h.c.reliableSequence
          /\ (h.c.reliableSequence + 1) - n < MaxReliable
          /\ n > h.c.reliableSequence - MaxReliable
      BY <1>1, <2>2
    <3>2. ~Overflown(h.c)
      BY <1>1, <1>8, <1>10 DEF Overflown
    <3>3. h.c.reliableCommands[Slot(n)] = h.log[n]
      BY <3>1, <3>2 DEF ServerIsSound, RingIsLog
    <3> QED
      BY <1>3, <1>11, <3>1, <3>3
  <2> QED
    BY <2>1, <2>2
<1>13. ServerIsSound(t)
  BY <1>1, <1>3, <1>8, <1>10, <1>12 DEF ServerIsSound
<1> QED
  BY <1>1, <1>3, <1>8, <1>10, <1>11, <1>13 DEF Adds

(* GAME_CLIENT_DISCONNECT is called, or the state is left.                  *)
LEMMA CalledAddsNothing ==
    ASSUME NEW h, ServerIsSound(h), NEW t, t = [h EXCEPT !.gameDrops = @ + 1]
    PROVE  /\ Adds(h, t, 0) /\ t.c = h.c /\ t.gameDrops = h.gameDrops + 1
<1>1. h \in [c : Half, log : Seq(Text), gameDrops : Nat]
  BY DEF ServerIsSound
<1>2. /\ t \in [c : Half, log : Seq(Text), gameDrops : Nat]
      /\ t.c = h.c /\ t.log = h.log /\ t.gameDrops = h.gameDrops + 1
  <2>1. h.gameDrops + 1 \in Nat
    BY <1>1
  <2> QED
    BY <1>1, <2>1
<1>3. ServerIsSound(t)
  BY <1>2 DEF ServerIsSound, RingIsLog
<1> QED
  BY <1>2, <1>3, AddsNothing

LEMMA StateAddsNothing ==
    ASSUME NEW h, ServerIsSound(h), NEW state \in States,
           NEW t, t = [h EXCEPT !.c.state = state]
    PROVE  /\ Adds(h, t, 0) /\ t.c.state = state /\ t.gameDrops = h.gameDrops
           /\ t.c.reliableSequence = h.c.reliableSequence
<1>1. h \in [c : Half, log : Seq(Text), gameDrops : Nat] /\ h.c \in Half
  BY DEF ServerIsSound
<1>2. PICK c : c = [h.c EXCEPT !.state = state]
  OBVIOUS
<1>3. /\ c \in Half /\ c.state = state
      /\ c.reliableSequence = h.c.reliableSequence
      /\ c.reliableAcknowledge = h.c.reliableAcknowledge
      /\ c.reliableCommands = h.c.reliableCommands
  BY <1>1, <1>2 DEF Half
<1>4. t = [h EXCEPT !.c = c]
  BY <1>2
<1>5. /\ t \in [c : Half, log : Seq(Text), gameDrops : Nat]
      /\ t.c = c /\ t.log = h.log /\ t.gameDrops = h.gameDrops
  BY <1>1, <1>3, <1>4
<1>6. ServerIsSound(t)
  BY <1>3, <1>5 DEF ServerIsSound, RingIsLog, Overflown
<1> QED
  BY <1>3, <1>5, <1>6, AddsNothing

LEMMA TextsAreTexts == /\ Dropped \in Text /\ PlayerGone \in Text
                       /\ Disconnect \in Text
  BY DEF Text

(* One configstring the game changes, or not.                               *)
LEMMA StoredOrNot ==
    ASSUME NEW h, ServerIsSound(h), NEW g, NEW k \in Nat, Adds(h, g, k),
           NEW t, t = Stored(g, PlayerGone) \/ t = g
    PROVE  Adds(h, t, k + 1)
<1>1. ServerIsSound(g)
  BY AddsSound
<1>2. CASE t = g
  BY <1>2, AddsFewer
<1>3. CASE t = Stored(g, PlayerGone)
  <2>1. Adds(g, t, 1)
    BY <1>1, <1>3, TextsAreTexts, StoredAdds
  <2> QED
    BY <2>1, AddsMore
<1> QED
  BY <1>2, <1>3

(* SV_DropClient past the window: at most five commands.                    *)
LEMMA DroppedPast ==
    ASSUME NEW h, ServerIsSound(h), NEW changes,
           NEW g, g = DroppedBy(h, changes, Stored)
    PROVE  Adds(h, g, 5) /\ g.c.state = "zombie"
<1>1. PICK told : told = Stored(h, Dropped)
  OBVIOUS
<1>2. PICK called : called = [told EXCEPT !.gameDrops = @ + 1]
  OBVIOUS
<1> DEFINE Set(f, i) == IF f.c.state = "active" /\ i <= changes[told.gameDrops]
                        THEN Stored(f, PlayerGone) ELSE f
<1>3. PICK one : one = Set(called, 1)
  OBVIOUS
<1>4. PICK two : two = Set(one, 2)
  OBVIOUS
<1>5. PICK game : game = Set(two, 3)
  OBVIOUS
<1>6. PICK gone : gone = Stored(game, Disconnect)
  OBVIOUS
<1>7. g = [gone EXCEPT !.c.state = "zombie"]
  <2>1. game = GameDisconnect(told, changes, Stored)
    BY <1>2, <1>3, <1>4, <1>5 DEF GameDisconnect
  <2> QED
    BY <1>1, <1>6, <2>1 DEF DroppedBy
<1>8. Adds(h, told, 1) /\ ServerIsSound(told)
  BY <1>1, TextsAreTexts, StoredAdds, AddsSound
<1>9. Adds(told, called, 0)
  BY <1>2, <1>8, CalledAddsNothing
<1>10. Adds(told, one, 0 + 1)
  BY <1>3, <1>8, <1>9, StoredOrNot
<1>11. Adds(told, two, 1 + 1)
  BY <1>4, <1>8, <1>10, StoredOrNot
<1>12. Adds(told, game, 2 + 1)
  BY <1>5, <1>8, <1>11, StoredOrNot
<1>13. Adds(h, game, 1 + 3) /\ ServerIsSound(game)
  BY <1>8, <1>12, AddsMore, AddsSound
<1>14. Adds(game, gone, 1) /\ ServerIsSound(gone)
  BY <1>6, <1>13, TextsAreTexts, StoredAdds, AddsSound
<1>15. Adds(h, gone, 4 + 1)
  BY <1>13, <1>14, AddsMore
<1>16. Adds(gone, g, 0) /\ g.c.state = "zombie"
  BY <1>7, <1>14, StateAddsNothing DEF States
<1>17. Adds(h, g, 5 + 0)
  BY <1>15, <1>16, AddsMore
<1> QED
  BY <1>16, <1>17

(* SV_AddServerCommand: at most one command, unless the window overflows.   *)
LEMMA AddServerCommandAdds ==
    ASSUME NEW h, ServerIsSound(h), h.c.state = "zombie" \/ ~Overflown(h.c),
           NEW text \in Text, NEW changes, NEW g, g = AddServerCommand(h, changes, text)
    PROVE  \/ Adds(h, g, 6) /\ g.c.state = "zombie"
           \/ /\ Adds(h, g, 1) /\ g.c.state = h.c.state /\ ~Overflown(g.c)
<1>1. /\ h.c.reliableSequence \in Nat /\ h.c.reliableAcknowledge \in Nat
      /\ MaxReliable \in Nat
  BY ServerParts, ServerCommandsAssumption
<1>2. CASE h.c.state \in {"connected", "zombie"}
  <2>1. g = h
    BY <1>2 DEF AddServerCommand
  <2>2. Adds(h, g, 1) /\ Adds(h, g, 6)
    BY <2>1, AddsNothing
  <2> QED
    BY <2>1, <2>2
<1>3. CASE h.c.state \notin {"connected", "zombie"} /\ Overflows(h.c)
  <2>1. PICK f : f = Counted(h, text)
    OBVIOUS
  <2>2. Adds(h, f, 1) /\ ServerIsSound(f)
    BY <1>3, <2>1, CountedAdds DEF Adds
  <2>3. g = DroppedBy(f, changes, Stored)
    BY <1>3, <2>1 DEF AddServerCommand
  <2>4. Adds(f, g, 5) /\ g.c.state = "zombie"
    BY <2>2, <2>3, DroppedPast
  <2>5. Adds(h, g, 1 + 5)
    BY <2>2, <2>4, AddsMore
  <2> QED
    BY <2>4, <2>5
<1>4. CASE h.c.state \notin {"connected", "zombie"} /\ ~Overflows(h.c)
  <2>1. g = Stored(h, text)
    BY <1>4 DEF AddServerCommand
  <2>2. /\ Adds(h, g, 1) /\ g.c.state = h.c.state
        /\ g.c.reliableSequence = h.c.reliableSequence + 1
        /\ g.c.reliableAcknowledge = h.c.reliableAcknowledge
    BY <2>1, StoredAdds DEF Adds
  <2>3. h.c.reliableSequence + 1 - h.c.reliableAcknowledge # MaxReliable + 1
    BY <1>4, Zenon DEF Overflows
  <2>4. ~(h.c.reliableSequence - h.c.reliableAcknowledge > MaxReliable)
    BY <1>4, Zenon DEF Overflown
  <2>5. ~Overflown(g.c)
    BY <1>1, <2>2, <2>3, <2>4 DEF Overflown
  <2> QED
    BY <2>2, <2>5
<1> QED
  BY <1>2, <1>3, <1>4

(* g is h with up to i commands more, or more when one overflowed the       *)
(* window and the client was dropped.                                       *)
AddsOrDrops(h, g, i) ==
    \/ Adds(h, g, i + 5) /\ g.c.state = "zombie"
    \/ Adds(h, g, i) /\ ~Overflown(g.c)

LEMMA OneMore ==
    ASSUME NEW h, ServerIsSound(h), NEW g, NEW i \in Nat, AddsOrDrops(h, g, i),
           NEW text \in Text, NEW changes,
           NEW t, t = AddServerCommand(g, changes, text) \/ t = g
    PROVE  AddsOrDrops(h, t, i + 1) /\ ServerIsSound(t)
<1>1. ServerIsSound(g) /\ (g.c.state = "zombie" \/ ~Overflown(g.c))
  BY AddsSound DEF AddsOrDrops
<1>2. CASE t = g
  <2>1. i + 5 <= (i + 1) + 5 /\ i <= i + 1
    OBVIOUS
  <2>2. i + 5 \in Nat /\ (i + 1) + 5 \in Nat /\ i + 1 \in Nat
    OBVIOUS
  <2> QED
    BY <1>1, <1>2, <2>1, <2>2, AddsFewer DEF AddsOrDrops
<1>3. CASE t = AddServerCommand(g, changes, text) /\ g.c.state = "zombie" /\ t # g
  BY <1>3 DEF AddServerCommand
<1>4. CASE t = AddServerCommand(g, changes, text) /\ g.c.state # "zombie"
  <2>1. Adds(h, g, i) /\ ~Overflown(g.c)
    BY <1>4 DEF AddsOrDrops
  <2>2. \/ Adds(g, t, 6) /\ t.c.state = "zombie"
        \/ Adds(g, t, 1) /\ ~Overflown(t.c)
    BY <1>1, <1>4, <2>1, AddServerCommandAdds
  <2>3. \/ Adds(h, t, i + 6) /\ t.c.state = "zombie"
        \/ Adds(h, t, i + 1) /\ ~Overflown(t.c)
    BY <2>1, <2>2, AddsMore
  <2>4. (i + 1) + 5 = i + 6
    OBVIOUS
  <2> QED
    BY <2>3, <2>4, AddsSound DEF AddsOrDrops
<1> QED
  BY <1>2, <1>3, <1>4

(* SV_DropClient of a client that is not dropped yet, at most ten commands  *)
(* wherever its own commands overflow the window on the way.                *)
LEMMA DropClientAdds ==
    ASSUME NEW h, ServerIsSound(h), ~Overflown(h.c), NEW changes,
           NEW g, g = DropClient(h, changes)
    PROVE  Adds(h, g, 10) /\ g.c.state = "zombie"
<1> DEFINE Add(f, text) == AddServerCommand(f, changes, text)
<1>1. PICK told : told = Add(h, Dropped)
  OBVIOUS
<1>2. PICK called : called = [told EXCEPT !.gameDrops = @ + 1]
  OBVIOUS
<1> DEFINE Set(f, i) == IF f.c.state = "active" /\ i <= changes[told.gameDrops]
                        THEN Add(f, PlayerGone) ELSE f
<1>3. PICK one : one = Set(called, 1)
  OBVIOUS
<1>4. PICK two : two = Set(one, 2)
  OBVIOUS
<1>5. PICK game : game = Set(two, 3)
  OBVIOUS
<1>6. PICK gone : gone = Add(game, Disconnect)
  OBVIOUS
<1>7. g = [gone EXCEPT !.c.state = "zombie"]
  <2>1. game = GameDisconnect(told, changes, Add)
    BY <1>2, <1>3, <1>4, <1>5 DEF GameDisconnect
  <2> QED
    BY <1>1, <1>6, <2>1 DEF DropClient, DroppedBy
<1>8. AddsOrDrops(h, h, 0)
  BY AddsNothing DEF AddsOrDrops
<1>9. AddsOrDrops(h, told, 0 + 1) /\ ServerIsSound(told)
  BY <1>1, <1>8, TextsAreTexts, OneMore
<1>10. AddsOrDrops(h, called, 1)
  <2>1. Adds(told, called, 0) /\ called.c = told.c
    BY <1>2, <1>9, CalledAddsNothing
  <2>2. \/ Adds(h, told, 6) /\ called.c.state = "zombie"
        \/ Adds(h, told, 1) /\ ~Overflown(called.c)
    BY <1>9, <2>1 DEF AddsOrDrops
  <2>3. \/ Adds(h, called, 6 + 0) /\ called.c.state = "zombie"
        \/ Adds(h, called, 1 + 0) /\ ~Overflown(called.c)
    BY <2>1, <2>2, AddsMore
  <2> QED
    BY <2>3 DEF AddsOrDrops
<1>11. AddsOrDrops(h, one, 1 + 1)
  BY <1>3, <1>10, TextsAreTexts, OneMore
<1>12. AddsOrDrops(h, two, 2 + 1)
  BY <1>4, <1>11, TextsAreTexts, OneMore
<1>13. AddsOrDrops(h, game, 3 + 1)
  BY <1>5, <1>12, TextsAreTexts, OneMore
<1>14. AddsOrDrops(h, gone, 4 + 1) /\ ServerIsSound(gone)
  BY <1>6, <1>13, TextsAreTexts, OneMore
<1>15. Adds(h, gone, 10)
  BY <1>14, AddsFewer DEF AddsOrDrops
<1>16. Adds(gone, g, 0) /\ g.c.state = "zombie"
  BY <1>7, <1>14, StateAddsNothing DEF States
<1>17. Adds(h, g, 10 + 0)
  BY <1>15, <1>16, AddsMore
<1> QED
  BY <1>16, <1>17

-----------------------------------------------------------------------------
(* The invariant, taken apart, and what each half's step leaves of it. *)

LEMMA InvariantParts ==
    ASSUME IInv
    PROVE  /\ sv \in Half /\ sv.state \in States
           /\ sv.reliableSequence \in Nat /\ sv.reliableAcknowledge \in Nat
           /\ sv.reliableAcknowledge <= sv.reliableSequence
           /\ sv.reliableSequence \in Sequence
           /\ sv.reliableCommands \in Ring
           /\ log \in Seq(Text) /\ Len(log) = sv.reliableSequence
           /\ gameDrops \in Nat
           /\ sv.state # "zombie" => ~Overflown(sv)
           /\ cl.serverCommandSequence \in Nat
           /\ cl.serverCommandSequence <= sv.reliableSequence
           /\ cl.serverCommands \in Ring
           /\ cl.lastExecuted \in Nat
           /\ MaxReliable \in Nat \ {0} /\ MaxCommands \in Nat
           /\ OnPath(path) \subseteq Told
<1>1. /\ Here.c = sv /\ Here.log = log /\ Here.gameDrops = gameDrops
      /\ ServerIsSound(Here) /\ WindowIsBounded(sv)
      /\ cl \in ClientHalf /\ cl.serverCommandSequence <= sv.reliableSequence
      /\ path \in PathOf(Told)
  BY DEF IInv, Here
<1>2. /\ sv \in Half /\ sv.state \in States
      /\ sv.reliableSequence \in Nat /\ sv.reliableAcknowledge \in Nat
      /\ sv.reliableAcknowledge <= sv.reliableSequence
      /\ sv.reliableCommands \in Ring
      /\ log \in Seq(Text) /\ Len(log) = sv.reliableSequence
      /\ gameDrops \in Nat
  <2>1. PICK h : h = Here
    OBVIOUS
  <2> QED
    BY <1>1, <2>1, ServerParts
<1>3. MaxReliable \in Nat \ {0} /\ MaxCommands \in Nat
  BY ServerCommandsAssumption
<1>4. sv.reliableSequence \in Sequence /\ (sv.state # "zombie" => ~Overflown(sv))
  BY <1>1, <1>2, <1>3 DEF WindowIsBounded, Sequence
<1>5. /\ cl.serverCommandSequence \in Nat /\ cl.serverCommands \in Ring
      /\ cl.lastExecuted \in Nat
  BY <1>1, <1>3 DEF ClientHalf, Sequence
<1>6. OnPath(path) \subseteq Told
  BY <1>1, OnPathType
<1> QED
  BY <1>1, <1>2, <1>3, <1>4, <1>5, <1>6

LEMMA ToldParts ==
    ASSUME NEW m \in Told
    PROVE  /\ m \in ServerMessage
           /\ m.first \in Nat \ {0} /\ m.texts \in Seq(Text) /\ Len(m.texts) \in Nat
           /\ m.built \in Nat /\ m.built <= sv.reliableSequence
           /\ m.kind # "cleared" => m.first + Len(m.texts) = m.built + 1
           /\ m.kind = "cleared" => m.texts = <<>>
           /\ ~Overflown(sv) => \A i \in 1 .. Len(m.texts) :
                                   m.texts[i] = log[m.first + (i - 1)]
           /\ m.texts # <<>> /\ sv.reliableSequence - m.built < MaxReliable =>
                 m.texts[Len(m.texts)] = sv.reliableCommands[Slot(m.built)]
           /\ ~stranded => /\ cl.serverCommandSequence <= m.built
                           /\ m.first <= cl.serverCommandSequence + 1
<1>1. m \in ServerMessage
  BY DEF Told
<1>2. /\ m.first \in Nat \ {0} /\ m.texts \in Seq(Text) /\ Len(m.texts) \in Nat
      /\ m.built \in Nat
  BY <1>1, LenProperties, ServerCommandsAssumption DEF ServerMessage, Sequence
<1> QED
  BY <1>1, <1>2 DEF Told

(* The server's half goes on: commands are added, behind those there were.  *)
ServerGrows ==
    /\ ServerIsSound(Here') /\ WindowIsBounded(sv')
    /\ sv.reliableSequence <= sv'.reliableSequence
    /\ Overflown(sv) => Overflown(sv')
    /\ \A b \in 0 .. sv.reliableSequence :
          sv'.reliableSequence - b < MaxReliable =>
             sv'.reliableCommands[Slot(b)] = sv.reliableCommands[Slot(b)]
    /\ \A n \in 1 .. sv.reliableSequence : log'[n] = log[n]

(* The client's half does: it stores commands behind those there were.      *)
ClientGoesOn ==
    ~stranded' => /\ ~stranded
                  /\ cl'.serverCommandSequence \in Nat
                  /\ cl.serverCommandSequence <= cl'.serverCommandSequence

LEMMA GrownParts ==
    ASSUME IInv, ServerGrows
    PROVE  /\ sv'.reliableSequence \in Nat
           /\ \A b \in 0 .. sv.reliableSequence :
                 sv'.reliableSequence - b < MaxReliable =>
                    /\ sv.reliableSequence - b < MaxReliable
                    /\ sv'.reliableCommands[Slot(b)] = sv.reliableCommands[Slot(b)]
<1>1. sv.reliableSequence \in Nat /\ MaxReliable \in Nat
  BY InvariantParts
<1>2. sv'.reliableSequence \in Nat /\ sv.reliableSequence <= sv'.reliableSequence
  <2>1. PICK h : h = Here'
    OBVIOUS
  <2>2. ServerIsSound(h) /\ h.c = sv'
    BY <2>1 DEF ServerGrows, Here
  <2>3. sv'.reliableSequence \in Nat
    BY <2>2, ServerParts
  <2> QED
    BY <2>3 DEF ServerGrows
<1>3. ASSUME NEW b \in 0 .. sv.reliableSequence,
             sv'.reliableSequence - b < MaxReliable
      PROVE  /\ sv.reliableSequence - b < MaxReliable
             /\ sv'.reliableCommands[Slot(b)] = sv.reliableCommands[Slot(b)]
  <2>1. sv.reliableSequence - b < MaxReliable
    BY <1>1, <1>2, <1>3
  <2> QED
    BY <1>3, <2>1 DEF ServerGrows
<1> QED
  BY <1>2, <1>3

(* What a message says stays so.                                            *)
LEMMA ToldStays ==
    ASSUME IInv, ServerGrows, ClientGoesOn, NEW m \in Told,
           ~stranded' => cl'.serverCommandSequence <= m.built
    PROVE  m \in Told'
<1>1. /\ m \in ServerMessage
      /\ m.first \in Nat \ {0} /\ Len(m.texts) \in Nat
      /\ m.built \in Nat /\ m.built <= sv.reliableSequence
      /\ m.kind # "cleared" => m.first + Len(m.texts) = m.built + 1
      /\ m.kind = "cleared" => m.texts = <<>>
  BY ToldParts
<1>2. /\ sv.reliableSequence \in Nat /\ sv'.reliableSequence \in Nat
      /\ sv.reliableSequence <= sv'.reliableSequence
      /\ cl.serverCommandSequence \in Nat
  BY InvariantParts, GrownParts DEF ServerGrows
<1>3. m.built <= sv'.reliableSequence
  BY <1>1, <1>2
<1>4. ASSUME ~Overflown(sv'), NEW i \in 1 .. Len(m.texts)
      PROVE  m.texts[i] = log'[m.first + (i - 1)]
  <2>1. ~Overflown(sv)
    BY <1>4 DEF ServerGrows
  <2>2. m.texts[i] = log[m.first + (i - 1)]
    BY <2>1, ToldParts
  <2>3. Len(m.texts) # 0
    BY <1>1
  <2>4. m.kind # "cleared"
    BY <1>1, <2>3, EmptySeq
  <2>5. m.first + (i - 1) \in 1 .. sv.reliableSequence
    <3>1. /\ m.first \in Nat /\ m.first >= 1 /\ Len(m.texts) \in Nat
          /\ m.built \in Nat /\ m.built <= sv.reliableSequence
          /\ m.first + Len(m.texts) = m.built + 1
      BY <1>1, <2>4
    <3>2. sv.reliableSequence \in Nat
      BY <1>2
    <3> QED
      BY <3>1, <3>2
  <2>6. log'[m.first + (i - 1)] = log[m.first + (i - 1)]
    BY <2>5 DEF ServerGrows
  <2> QED
    BY <2>2, <2>6
<1>5. ASSUME m.texts # <<>>, sv'.reliableSequence - m.built < MaxReliable
      PROVE  m.texts[Len(m.texts)] = sv'.reliableCommands[Slot(m.built)]
  <2>1. m.built \in 0 .. sv.reliableSequence
    BY <1>1, <1>2
  <2>2. /\ sv.reliableSequence - m.built < MaxReliable
        /\ sv'.reliableCommands[Slot(m.built)] = sv.reliableCommands[Slot(m.built)]
    BY <1>5, <2>1, GrownParts
  <2>3. m.texts[Len(m.texts)] = sv.reliableCommands[Slot(m.built)]
    BY <1>5, <2>2, ToldParts
  <2> QED
    BY <2>2, <2>3
<1>6. ASSUME ~stranded'
      PROVE  /\ cl'.serverCommandSequence <= m.built
             /\ m.first <= cl'.serverCommandSequence + 1
  <2>1. /\ ~stranded /\ cl'.serverCommandSequence \in Nat
        /\ cl.serverCommandSequence <= cl'.serverCommandSequence
    BY <1>6 DEF ClientGoesOn
  <2>2. m.first <= cl.serverCommandSequence + 1
    BY <2>1, ToldParts
  <2>3. m.first <= cl'.serverCommandSequence + 1
    BY <1>1, <1>2, <2>1, <2>2
  <2> QED
    BY <1>6, <2>3
<1> QED
  BY <1>1, <1>3, <1>4, <1>5, <1>6 DEF Told

LEMMA PacketParts ==
    ASSUME IInv, NEW p \in Packets
    PROVE  /\ p \in ClientMessage /\ p.ack \in Nat /\ p.ack \in Sequence
           /\ p.ack <= sv.reliableSequence
           /\ ~stranded =>
                 /\ sv.reliableAcknowledge <= p.ack
                 /\ p.ack <= cl.serverCommandSequence
           /\ ~stranded /\ sv.reliableSequence - p.ack < MaxReliable =>
                 sv.reliableCommands[Slot(p.ack)] = p.key
<1>1. p \in ClientMessage
  BY DEF Packets
<1>2. p.ack \in Sequence /\ p.ack \in Nat
  BY <1>1, InvariantParts DEF ClientMessage, Sequence
<1> QED
  BY <1>1, <1>2 DEF Packets

LEMMA PacketStays ==
    ASSUME IInv, ServerGrows, ClientGoesOn, NEW p \in Packets,
           ~stranded' => sv'.reliableAcknowledge <= p.ack
    PROVE  p \in Packets'
<1>1. /\ p \in ClientMessage /\ p.ack \in Nat
      /\ p.ack <= sv.reliableSequence
  BY PacketParts
<1>2. /\ sv.reliableSequence \in Nat /\ sv'.reliableSequence \in Nat
      /\ sv.reliableSequence <= sv'.reliableSequence
      /\ cl.serverCommandSequence \in Nat
  BY InvariantParts, GrownParts DEF ServerGrows
<1>3. p.ack <= sv'.reliableSequence
  BY <1>1, <1>2
<1>4. ASSUME ~stranded'
      PROVE  /\ sv'.reliableAcknowledge <= p.ack
             /\ p.ack <= cl'.serverCommandSequence
  <2>1. /\ ~stranded /\ cl'.serverCommandSequence \in Nat
        /\ cl.serverCommandSequence <= cl'.serverCommandSequence
    BY <1>4 DEF ClientGoesOn
  <2>2. p.ack <= cl.serverCommandSequence
    BY <2>1, PacketParts
  <2> QED
    BY <1>1, <1>2, <1>4, <2>1, <2>2
<1>5. ASSUME ~stranded', sv'.reliableSequence - p.ack < MaxReliable
      PROVE  sv'.reliableCommands[Slot(p.ack)] = p.key
  <2>1. p.ack \in 0 .. sv.reliableSequence /\ ~stranded
    BY <1>1, <1>2, <1>5 DEF ClientGoesOn
  <2>2. /\ sv.reliableSequence - p.ack < MaxReliable
        /\ sv'.reliableCommands[Slot(p.ack)] = sv.reliableCommands[Slot(p.ack)]
    BY <1>5, <2>1, GrownParts
  <2> QED
    BY <2>1, <2>2, PacketParts
<1> QED
  BY <1>1, <1>3, <1>4, <1>5 DEF Packets

(* A step that leaves the server's half alone, or only changes its state.   *)
LEMMA ServerStays ==
    ASSUME IInv, UNCHANGED <<log, gameDrops>>,
           sv' = sv \/ (sv.state # "zombie" /\ sv' = [sv EXCEPT !.state = "primed"])
    PROVE  /\ ServerGrows
           /\ sv'.reliableSequence = sv.reliableSequence
           /\ sv'.reliableAcknowledge = sv.reliableAcknowledge
           /\ sv'.reliableCommands = sv.reliableCommands
           /\ sv' \in Half
<1>1. /\ sv \in Half /\ sv.reliableSequence \in Nat
  BY InvariantParts
<1>2. /\ sv' \in Half
      /\ sv'.reliableSequence = sv.reliableSequence
      /\ sv'.reliableAcknowledge = sv.reliableAcknowledge
      /\ sv'.reliableCommands = sv.reliableCommands
      /\ sv.state = "zombie" => sv'.state = "zombie"
  BY <1>1 DEF Half, States
<1>3. WindowIsBounded(sv')
  BY <1>2 DEF IInv, WindowIsBounded, Overflown
<1>4. ServerIsSound(Here')
  <2>1. /\ Here \in [c : Half, log : Seq(Text), gameDrops : Nat]
        /\ Len(log) = sv.reliableSequence
        /\ sv.reliableAcknowledge <= sv.reliableSequence
        /\ RingIsLog(Here)
    BY DEF IInv, ServerIsSound, Here
  <2>2. /\ Here' \in [c : Half, log : Seq(Text), gameDrops : Nat]
    BY <1>2, InvariantParts DEF Here
  <2>3. RingIsLog(Here')
    BY <1>2, <2>1 DEF Here, RingIsLog, Overflown
  <2> QED
    BY <1>2, <2>1, <2>2, <2>3 DEF ServerIsSound, Here
<1> QED
  BY <1>1, <1>2, <1>3, <1>4 DEF ServerGrows, Overflown

-----------------------------------------------------------------------------
(* Sending. *)

LEMMA MessageParts ==
    ASSUME NEW c \in Half, c.reliableAcknowledge <= c.reliableSequence,
           c.reliableSequence \in Sequence,
           NEW kind \in {"snapshot", "gamestate"},
           NEW n \in SnapshotSizes \cup GameStateSizes,
           NEW m, m = Message(c, kind, n)
    PROVE  /\ m \in ServerMessage
           /\ m.kind = kind /\ m.built = c.reliableSequence
           /\ m.first = c.reliableAcknowledge + 1
           /\ Len(m.texts) = c.reliableSequence - c.reliableAcknowledge
           /\ \A i \in 1 .. Len(m.texts) :
                 m.texts[i] = c.reliableCommands[Slot(c.reliableAcknowledge + i)]
<1> DEFINE A == c.reliableAcknowledge
           texts == Pending(c)
<1>1. PICK u : u = c.reliableSequence - c.reliableAcknowledge
  OBVIOUS
<1>2. /\ A \in Nat /\ u \in Nat /\ c.reliableCommands \in Ring
  BY <1>1 DEF Half
<1>3. ASSUME NEW i \in 1 .. u
      PROVE  c.reliableCommands[Slot(A + i)] \in Text
  <2>1. A + i \in Nat
    BY <1>2
  <2>2. Slot(A + i) \in 0 .. MaxReliable - 1
    BY <2>1, SlotOf
  <2> QED
    BY <1>2, <2>2 DEF Ring
<1>4. texts = [i \in 1 .. u |-> c.reliableCommands[Slot(A + i)]]
  BY <1>1 DEF Pending
<1>5. texts \in [1 .. u -> Text]
  BY <1>3, <1>4
<1>6. texts \in Seq(Text) /\ Len(texts) = u
  BY <1>2, <1>5, IsASeq, LenProperties
<1>7. \A i \in 1 .. u : texts[i] = c.reliableCommands[Slot(A + i)]
  BY <1>4
<1>8. m = [kind |-> kind, first |-> A + 1, texts |-> texts,
           built |-> c.reliableSequence, active |-> c.state = "active",
           datagrams |-> n, key |-> 0]
  BY DEF Message
<1> HIDE DEF texts
<1>9. /\ m.kind = kind /\ m.built = c.reliableSequence /\ m.first = A + 1
      /\ m.texts = texts
  BY <1>8
<1>10. m \in ServerMessage
  <2>1. A + 1 \in Nat \ {0} /\ (c.state = "active") \in BOOLEAN
    BY <1>2
  <2>2. PICK active \in BOOLEAN : active = (c.state = "active")
    BY <2>1
  <2>3. m = [kind |-> kind, first |-> A + 1, texts |-> texts,
             built |-> c.reliableSequence, active |-> active,
             datagrams |-> n, key |-> 0]
    BY <1>8, <2>2
  <2> QED
    BY <1>6, <2>1, <2>3 DEF ServerMessage
<1> QED
  BY <1>1, <1>6, <1>7, <1>9, <1>10

(* A message of the server's half is one of those it may have on its way.   *)
LEMMA MessageIsTold ==
    ASSUME IInv, NEW c \in Half,
           c.reliableSequence = sv.reliableSequence,
           c.reliableAcknowledge = sv.reliableAcknowledge,
           c.reliableCommands = sv.reliableCommands,
           NEW kind \in {"snapshot", "gamestate"},
           NEW n \in SnapshotSizes \cup GameStateSizes,
           NEW m, m = Message(c, kind, n), NEW e, e \in {m, Cleared(m)}
    PROVE  e \in Told /\ e.built = sv.reliableSequence
<1>1. /\ sv.reliableSequence \in Nat /\ sv.reliableAcknowledge \in Nat
      /\ sv.reliableAcknowledge <= sv.reliableSequence
      /\ sv.reliableSequence \in Sequence
      /\ cl.serverCommandSequence \in Nat
      /\ cl.serverCommandSequence <= sv.reliableSequence
      /\ MaxReliable \in Nat
  BY InvariantParts
<1>2. /\ m \in ServerMessage
      /\ m.kind = kind /\ m.built = sv.reliableSequence
      /\ m.first = sv.reliableAcknowledge + 1
      /\ Len(m.texts) = sv.reliableSequence - sv.reliableAcknowledge
      /\ \A i \in 1 .. Len(m.texts) :
            m.texts[i] = sv.reliableCommands[Slot(sv.reliableAcknowledge + i)]
  <2>1. /\ c.reliableAcknowledge <= c.reliableSequence
        /\ c.reliableSequence \in Sequence
    BY <1>1
  <2>2. /\ m \in ServerMessage
        /\ m.kind = kind /\ m.built = c.reliableSequence
        /\ m.first = c.reliableAcknowledge + 1
        /\ Len(m.texts) = c.reliableSequence - c.reliableAcknowledge
        /\ \A i \in 1 .. Len(m.texts) :
              m.texts[i] = c.reliableCommands[Slot(c.reliableAcknowledge + i)]
    BY <2>1, MessageParts
  <2> QED
    BY <2>2
<1>3. ASSUME ~stranded
      PROVE  sv.reliableAcknowledge <= cl.serverCommandSequence
  BY <1>3 DEF IInv, InStep
<1>4. CASE e = m
  <2>1. m.first + Len(m.texts) = m.built + 1 /\ m.kind # "cleared"
    <3>1. m.kind # "cleared"
      BY <1>2
    <3>2. m.first + Len(m.texts) = m.built + 1
      <4>1. /\ m.first = sv.reliableAcknowledge + 1 /\ m.built = sv.reliableSequence
            /\ Len(m.texts) = sv.reliableSequence - sv.reliableAcknowledge
        BY <1>2
      <4> QED
        BY <1>1, <4>1
    <3> QED
      BY <3>1, <3>2
  <2>2. ASSUME ~Overflown(sv), NEW i \in 1 .. Len(m.texts)
        PROVE  m.texts[i] = log[m.first + (i - 1)]
    <3>1. PICK k : k = sv.reliableAcknowledge + i
      OBVIOUS
    <3>2. /\ k \in 1 .. sv.reliableSequence /\ k > sv.reliableSequence - MaxReliable
          /\ k = m.first + (i - 1)
      <4>1. /\ i \in 1 .. sv.reliableSequence - sv.reliableAcknowledge
            /\ m.first = sv.reliableAcknowledge + 1
        BY <1>2
      <4>2. sv.reliableSequence - sv.reliableAcknowledge <= MaxReliable
        BY <1>1, <2>2 DEF Overflown
      <4>3. /\ i \in Nat /\ i >= 1
            /\ i <= sv.reliableSequence - sv.reliableAcknowledge
        BY <1>1, <4>1
      <4>4. k \in 1 .. sv.reliableSequence /\ k = m.first + (i - 1)
        BY <1>1, <3>1, <4>1, <4>3
      <4>5. k > sv.reliableSequence - MaxReliable
        BY <1>1, <3>1, <4>2, <4>3
      <4> QED
        BY <4>4, <4>5
    <3>3. sv.reliableCommands[Slot(k)] = log[k]
      BY <2>2, <3>2 DEF IInv, ServerIsSound, RingIsLog, Here
    <3> QED
      BY <1>2, <3>1, <3>2, <3>3
  <2>3. ASSUME m.texts # <<>>
        PROVE  m.texts[Len(m.texts)] = sv.reliableCommands[Slot(m.built)]
    <3>1. Len(m.texts) \in Nat /\ Len(m.texts) # 0
      BY <1>2, <2>3, LenProperties, EmptySeq DEF ServerMessage
    <3>2. Len(m.texts) \in 1 .. Len(m.texts)
      BY <3>1
    <3>3. sv.reliableAcknowledge + Len(m.texts) = m.built
      BY <1>1, <1>2
    <3> QED
      BY <1>2, <3>2, <3>3
  <2>4. ASSUME ~stranded
        PROVE  /\ cl.serverCommandSequence <= m.built
               /\ m.first <= cl.serverCommandSequence + 1
    <3>1. m.first = sv.reliableAcknowledge + 1 /\ m.built = sv.reliableSequence
      BY <1>2
    <3> QED
      BY <1>1, <1>3, <2>4, <3>1
  <2>5. m.built <= sv.reliableSequence
    BY <1>1, <1>2
  <2>6. m \in Told
    BY <1>2, <2>1, <2>2, <2>3, <2>4, <2>5 DEF Told
  <2> QED
    BY <1>2, <1>4, <2>6
<1>5. CASE e = Cleared(m)
  <2>1. e = [m EXCEPT !.kind = "cleared", !.texts = <<>>, !.datagrams = 1]
    BY <1>5 DEF Cleared
  <2>2. /\ e \in ServerMessage /\ e.kind = "cleared" /\ e.texts = <<>>
        /\ e.built = m.built /\ e.first = m.first
    <3>1. PICK none \in Seq(Text) : none = <<>>
      BY EmptySeq
    <3>2. e = [m EXCEPT !.kind = "cleared", !.texts = none, !.datagrams = 1]
      BY <2>1, <3>1
    <3>3. /\ e \in ServerMessage /\ e.kind = "cleared" /\ e.texts = none
          /\ e.built = m.built /\ e.first = m.first
      BY <1>2, <3>2 DEF ServerMessage
    <3> QED
      BY <3>1, <3>3
  <2>3. Len(e.texts) = 0 /\ \A i \in 1 .. Len(e.texts) : FALSE
    <3>1. Len(e.texts) = 0
      BY <2>2
    <3> QED
      BY <3>1
  <2>4. ASSUME ~stranded
        PROVE  /\ cl.serverCommandSequence <= e.built
               /\ e.first <= cl.serverCommandSequence + 1
    <3>1. e.first = sv.reliableAcknowledge + 1 /\ e.built = sv.reliableSequence
      BY <1>2, <2>2
    <3> QED
      BY <1>1, <1>3, <2>4, <3>1
  <2>5. e.built <= sv.reliableSequence
    BY <1>1, <1>2, <2>2
  <2>6. e \in Told
    BY <2>2, <2>3, <2>4, <2>5 DEF Told
  <2> QED
    BY <1>2, <2>2, <2>6
<1> QED
  BY <1>4, <1>5

(* No key is mixed into a server message here.                              *)
LEMMA ToldIsEncodable ==
    IsEncodable(Told, 0) /\ IgnoresKey(Told, BuiltOrder, 0)
<1>1. ASSUME NEW m \in Told, NEW e, e = [m EXCEPT !.key = 0]
      PROVE  /\ m.datagrams \in Nat \ {0} /\ m \in ServerMessage
             /\ e \in Told /\ e \in ServerMessage /\ e.built = m.built
  <2>1. m \in ServerMessage
    BY DEF Told
  <2>2. m.datagrams \in Nat \ {0}
    <3>1. m.datagrams \in SnapshotSizes \cup GameStateSizes \cup {1}
      BY <2>1 DEF ServerMessage
    <3>2. SnapshotSizes \subseteq Nat \ {0} /\ GameStateSizes \subseteq Nat \ {0}
      BY ServerCommandsAssumption
    <3>3. 1 \in Nat \ {0}
      OBVIOUS
    <3> QED
      BY <3>1, <3>2, <3>3, Zenon
  <2>3. /\ e \in ServerMessage /\ e.built = m.built /\ e.kind = m.kind
        /\ e.texts = m.texts /\ e.first = m.first
    BY <1>1, <2>1 DEF ServerMessage
  <2>4. e \in Told
    BY <2>3 DEF Told
  <2> QED
    BY <2>1, <2>2, <2>3, <2>4
<1>2. IsEncodable(Told, 0)
  <2> SUFFICES ASSUME NEW m \in Told
               PROVE  m.datagrams \in Nat \ {0} /\ [m EXCEPT !.key = 0] \in Told
    BY DEF IsEncodable
  <2>1. PICK e : e = [m EXCEPT !.key = 0]
    OBVIOUS
  <2> QED
    BY <1>1, <2>1
<1>3. IgnoresKey(Told, BuiltOrder, 0)
  <2> SUFFICES ASSUME NEW x \in Told, NEW y \in Told, <<x, y>> \in BuiltOrder
               PROVE  /\ <<[x EXCEPT !.key = 0], y>> \in BuiltOrder
                      /\ <<x, [y EXCEPT !.key = 0]>> \in BuiltOrder
    BY DEF IgnoresKey
  <2>1. PICK d, e : d = [x EXCEPT !.key = 0] /\ e = [y EXCEPT !.key = 0]
    OBVIOUS
  <2>2. /\ d \in ServerMessage /\ d.built = x.built /\ x \in ServerMessage
        /\ e \in ServerMessage /\ e.built = y.built /\ y \in ServerMessage
    BY <1>1, <2>1
  <2>3. x.built <= y.built
    BY DEF BuiltOrder
  <2>4. <<d, y>> \in BuiltOrder /\ <<x, e>> \in BuiltOrder
    BY <2>2, <2>3 DEF BuiltOrder
  <2> QED
    BY <2>1, <2>4
<1> QED
  BY <1>2, <1>3

LEMMA SendStep ==
    ASSUME IInv, NEW next, Sends(next), gameStates' \in 0 .. MaxGameStates,
           UNCHANGED <<log, gameDrops>>,
           sv' = sv \/ (sv.state # "zombie" /\ sv' = [sv EXCEPT !.state = "primed"]),
           \/ path.left > 0 /\ next = SvTransmitNextFragment(path, 0)
           \/ \E m \in Told : /\ m.built = sv.reliableSequence
                              /\ next = SvTransmit(path, m, 0)
    PROVE  IInv'
<1>1. /\ path' = next /\ cl' = cl /\ toServer' = toServer
      /\ executed' = executed /\ shown' = shown
      /\ stranded' = (stranded \/ Strands(next))
      /\ log' = log /\ gameDrops' = gameDrops
  BY DEF Sends
<1>2. /\ ServerGrows
      /\ sv'.reliableSequence = sv.reliableSequence
      /\ sv'.reliableAcknowledge = sv.reliableAcknowledge
      /\ sv'.reliableCommands = sv.reliableCommands
  BY ServerStays
<1>3. cl.serverCommandSequence \in Nat /\ ClientGoesOn
  <2>1. cl.serverCommandSequence \in Nat
    BY InvariantParts
  <2>2. ~stranded' => ~stranded
    BY <1>1, Zenon
  <2> QED
    BY <1>1, <2>1, <2>2 DEF ClientGoesOn
<1>4. Told \subseteq Told'
  <2> SUFFICES ASSUME NEW m \in Told PROVE m \in Told'
    OBVIOUS
  <2>1. ~stranded' => cl'.serverCommandSequence <= m.built
    BY <1>1, ToldParts
  <2> QED
    BY <1>2, <1>3, <2>1, ToldStays
<1>5. Packets \subseteq Packets'
  <2> SUFFICES ASSUME NEW p \in Packets PROVE p \in Packets'
    OBVIOUS
  <2>1. ~stranded' => sv'.reliableAcknowledge <= p.ack
    BY <1>1, <1>2, PacketParts
  <2> QED
    BY <1>2, <1>3, <2>1, PacketStays
<1>6. path \in PathOf(Told) /\ IsEncodable(Told, 0) /\ IgnoresKey(Told, BuiltOrder, 0)
  BY ToldIsEncodable DEF IInv
<1>7. next \in PathOf(Told)
  <2>1. PICK f : f = FragmentSent(path)
    OBVIOUS
  <2>2. PICK u : u = Transmitted(f, Head(f.queue), 0)
    OBVIOUS
  <2>3. CASE path.left > 0 /\ next = SvTransmitNextFragment(path, 0)
    BY <1>6, <2>1, <2>2, <2>3, NextFragmentPath
  <2>4. CASE \E m \in Told : next = SvTransmit(path, m, 0)
    BY <1>6, <2>1, <2>4, TransmitPath
  <2> QED
    BY <2>3, <2>4
<1>8. ASSUME ~Strands(path), InOrder(path, BuiltOrder)
      PROVE  InOrder(next, BuiltOrder)
  <2>1. CASE path.left > 0 /\ next = SvTransmitNextFragment(path, 0)
    BY <1>6, <1>8, <2>1, NextFragmentInOrder
  <2>2. ASSUME NEW m \in Told, m.built = sv.reliableSequence,
               next = SvTransmit(path, m, 0)
        PROVE  InOrder(next, BuiltOrder)
    <3>1. \A x \in OnPath(path) : x \in Told
      BY InvariantParts
    <3>2. \A x \in OnPath(path) : x \in ServerMessage /\ x.built <= sv.reliableSequence
      BY <3>1, ToldParts
    <3>3. m \in ServerMessage
      BY ToldParts
    <3>4. Before(OnPath(path), {m}, BuiltOrder)
      BY <2>2, <3>2, <3>3 DEF Before, BuiltOrder
    <3> QED
      BY <1>6, <1>8, <2>2, <3>4, TransmitInOrder
  <2> QED
    BY <2>1, <2>2
<1>9. path' \in PathOf(Told') /\ toServer' \in Seq(Packets')
  BY <1>1, <1>4, <1>5, <1>7, PathOfMore, SequenceOfMore DEF IInv
<1>10. InStep'
  <2>1. CASE stranded'
    BY <2>1 DEF InStep
  <2>2. CASE ~stranded'
    <3>1. InStep /\ ~stranded /\ ~Strands(next)
      BY <1>1, <2>2 DEF IInv
    <3>2. InOrder(next, BuiltOrder)
      BY <1>8, <3>1 DEF InStep
    <3> QED
      BY <1>1, <1>2, <3>1, <3>2 DEF InStep
  <2> QED
    BY <2>1, <2>2
<1>11. ClientHasLog'
  BY <1>1, <1>2 DEF IInv, ClientHasLog, Overflown
<1>12. stranded' \in BOOLEAN
  BY <1>1
<1> QED
  BY <1>1, <1>2, <1>9, <1>10, <1>11, <1>12 DEF IInv, ServerGrows

-----------------------------------------------------------------------------
(* The server's steps. *)

(* Commands are added to a state that differs from the server's in the      *)
(* acknowledgement, the state or the count of calls at most.                *)
LEMMA GrowsFrom ==
    ASSUME IInv, sv.state # "zombie", NEW h, ServerIsSound(h),
           h.c.reliableSequence = sv.reliableSequence,
           h.c.reliableCommands = sv.reliableCommands, h.log = log,
           NEW g, NEW k \in Nat, Adds(h, g, k), WindowIsBounded(g.c), BecomesServer(g)
    PROVE  ServerGrows /\ sv'.reliableAcknowledge = h.c.reliableAcknowledge
<1>1. /\ sv' = g.c /\ log' = g.log /\ gameDrops' = g.gameDrops
  BY DEF BecomesServer
<1>2. ~Overflown(sv)
  BY InvariantParts
<1>3. ServerIsSound(g)
  BY DEF Adds
<1>4. ServerIsSound(Here')
  <2>1. /\ g \in [c : Half, log : Seq(Text), gameDrops : Nat]
        /\ Len(g.log) = g.c.reliableSequence
        /\ g.c.reliableAcknowledge <= g.c.reliableSequence
        /\ RingIsLog(g)
    BY <1>3 DEF ServerIsSound
  <2>2. Here' = [c |-> g.c, log |-> g.log, gameDrops |-> g.gameDrops]
    BY <1>1 DEF Here
  <2>3. PICK n : n = Here'
    OBVIOUS
  <2>4. /\ n \in [c : Half, log : Seq(Text), gameDrops : Nat]
        /\ n.c = g.c /\ n.log = g.log
    BY <2>1, <2>2, <2>3
  <2>5. ServerIsSound(n)
    BY <2>1, <2>4 DEF ServerIsSound, RingIsLog
  <2> QED
    BY <2>3, <2>5
<1>5. /\ h.c.reliableSequence <= g.c.reliableSequence
      /\ g.c.reliableAcknowledge = h.c.reliableAcknowledge
      /\ \A b \in 0 .. h.c.reliableSequence :
            g.c.reliableSequence - b < MaxReliable =>
               g.c.reliableCommands[Slot(b)] = h.c.reliableCommands[Slot(b)]
      /\ \A n \in 1 .. h.c.reliableSequence : g.log[n] = h.log[n]
  BY DEF Adds
<1> QED
  BY <1>1, <1>2, <1>4, <1>5 DEF ServerGrows

LEMMA ServerStep ==
    ASSUME IInv, ServerGrows, toServer' \in Seq(Packets),
           ~stranded => /\ Sorted(toServer', AckOrder)
                        /\ sv'.reliableAcknowledge <= cl.serverCommandSequence
                        /\ \A p \in Elements(toServer') : sv'.reliableAcknowledge <= p.ack,
           UNCHANGED <<cl, path, gameStates, executed, shown, stranded>>
    PROVE  IInv'
<1>1. /\ cl' = cl /\ path' = path /\ gameStates' = gameStates /\ shown' = shown
      /\ executed' = executed /\ stranded' = stranded
  OBVIOUS
<1>2. /\ sv.reliableSequence \in Nat /\ sv'.reliableSequence \in Nat
      /\ cl.serverCommandSequence \in 0 .. sv.reliableSequence
      /\ cl.serverCommandSequence \in Nat
      /\ sv.reliableSequence <= sv'.reliableSequence
      /\ MaxReliable \in Nat /\ cl.lastExecuted \in Nat
  BY InvariantParts, GrownParts DEF ServerGrows
<1>3. ClientGoesOn
  BY <1>1, <1>2 DEF ClientGoesOn
<1>4. Told \subseteq Told'
  <2> SUFFICES ASSUME NEW m \in Told PROVE m \in Told'
    OBVIOUS
  <2>1. ~stranded' => cl'.serverCommandSequence <= m.built
    BY <1>1, ToldParts
  <2> QED
    BY <1>3, <2>1, ToldStays
<1>5. path' \in PathOf(Told')
  BY <1>1, <1>4, PathOfMore DEF IInv
<1>6. toServer' \in Seq(Packets')
  <2>1. Elements(toServer') \subseteq Packets
    BY ElementsType
  <2>2. ASSUME NEW p \in Elements(toServer')
        PROVE  p \in Packets'
    <3>1. p \in Packets /\ (~stranded' => sv'.reliableAcknowledge <= p.ack)
      BY <1>1, <2>1
    <3> QED
      BY <1>3, <3>1, PacketStays
  <2>3. PICK f : f = toServer'
    OBVIOUS
  <2>4. PICK N : N = Packets'
    OBVIOUS
  <2>5. f \in Seq(N)
    <3>1. f \in Seq(Packets) /\ Elements(f) \subseteq N
      BY <2>2, <2>3, <2>4
    <3> QED
      BY <3>1, SequenceWithin
  <2> QED
    BY <2>3, <2>4, <2>5
<1>7. InStep'
  <2> SUFFICES ASSUME ~stranded
               PROVE  InStep'
    BY <1>1 DEF InStep
  <2>1. InStep
    BY DEF IInv
  <2>2. ASSUME sv'.reliableSequence - cl.serverCommandSequence < MaxReliable
        PROVE  sv'.reliableCommands[Slot(cl.serverCommandSequence)] = KeyOf(cl)
    <3>1. /\ sv.reliableSequence - cl.serverCommandSequence < MaxReliable
          /\ sv'.reliableCommands[Slot(cl.serverCommandSequence)]
                = sv.reliableCommands[Slot(cl.serverCommandSequence)]
      BY <1>2, <2>2, GrownParts
    <3> QED
      BY <2>1, <3>1 DEF InStep
  <2> QED
    BY <1>1, <2>1, <2>2 DEF InStep
<1>8. ClientHasLog'
  <2> SUFFICES ASSUME ~stranded, ~Overflown(sv')
               PROVE  ClientHasLog'
    BY <1>1 DEF ClientHasLog
  <2>1. ~Overflown(sv)
    BY DEF ServerGrows
  <2>2. /\ cl.lastExecuted <= cl.serverCommandSequence
    BY DEF IInv, InStep
  <2>3. \A n \in 1 .. cl.serverCommandSequence : log'[n] = log[n]
    BY <1>2 DEF ServerGrows
  <2>4. \A n \in 1 .. cl.lastExecuted : log'[n] = log[n]
    BY <1>2, <2>2, <2>3
  <2> QED
    BY <1>1, <2>1, <2>3, <2>4 DEF IInv, ClientHasLog
<1>9. cl'.serverCommandSequence <= sv'.reliableSequence
  BY <1>1, <1>2
<1> QED
  BY <1>1, <1>5, <1>6, <1>7, <1>8, <1>9 DEF IInv, ServerGrows

LEMMA AddStep ==
    ASSUME IInv, SvAddCommand \/ SvDropClient
    PROVE  IInv'
<1>1. PICK h : h = Here
  OBVIOUS
<1>2. /\ h.c = sv /\ h.log = log /\ ServerIsSound(h)
  BY <1>1 DEF IInv, Here
<1>3. /\ sv.state # "zombie" /\ toServer' = toServer
      /\ UNCHANGED <<cl, path, gameStates, executed, shown, stranded>>
  BY DEF SvAddCommand, SvDropClient
<1>4. /\ sv.reliableSequence \in Nat /\ MaxCommands \in Nat /\ ~Overflown(sv)
      /\ sv.reliableSequence <= MaxCommands
  BY <1>3, InvariantParts DEF IInv, WindowIsBounded
<1>5. \E g, k : /\ k \in Nat /\ Adds(h, g, k) /\ WindowIsBounded(g.c)
                /\ BecomesServer(g)
  <2>1. CASE SvAddCommand
    <3>1. PICK changes \in Changes :
             BecomesServer(AddServerCommand(h, changes, sv.reliableSequence + 1))
      BY <1>1, <2>1 DEF SvAddCommand
    <3>2. PICK g : g = AddServerCommand(h, changes, sv.reliableSequence + 1)
      OBVIOUS
    <3>3. /\ sv.reliableSequence < MaxCommands /\ BecomesServer(g)
          /\ sv.reliableSequence + 1 \in Text
      BY <1>4, <2>1, <3>1, <3>2 DEF SvAddCommand, Text
    <3>4. \/ Adds(h, g, 6) /\ g.c.state = "zombie"
          \/ Adds(h, g, 1) /\ ~Overflown(g.c)
      BY <1>2, <1>4, <3>2, <3>3, AddServerCommandAdds
    <3>5. CASE Adds(h, g, 6) /\ g.c.state = "zombie"
      <4>1. g.c.reliableSequence <= sv.reliableSequence + 6 /\ g.c.reliableSequence \in Nat
        BY <1>2, <3>5, AddsSound, ServerParts DEF Adds
      <4>2. WindowIsBounded(g.c)
        BY <1>4, <3>5, <4>1 DEF WindowIsBounded
      <4> QED
        BY <3>3, <3>5, <4>2
    <3>6. CASE Adds(h, g, 1) /\ ~Overflown(g.c)
      <4>1. g.c.reliableSequence <= sv.reliableSequence + 1 /\ g.c.reliableSequence \in Nat
        BY <1>2, <3>6, AddsSound, ServerParts DEF Adds
      <4>2. g.c.reliableSequence <= MaxCommands /\ g.c.reliableSequence <= MaxCommands + 10
        BY <1>4, <3>3, <4>1
      <4>3. WindowIsBounded(g.c)
        BY <3>6, <4>2 DEF WindowIsBounded
      <4> QED
        BY <3>3, <3>6, <4>3
    <3> QED
      BY <3>4, <3>5, <3>6
  <2>2. CASE SvDropClient
    <3>1. PICK g : BecomesServer(g) /\ \E changes \in Changes : g = DropClient(h, changes)
      BY <1>1, <2>2 DEF SvDropClient
    <3>2. BecomesServer(g)
      BY <3>1
    <3>3. Adds(h, g, 10) /\ g.c.state = "zombie"
      BY <1>2, <1>4, <3>1, DropClientAdds
    <3>4. g.c.reliableSequence <= sv.reliableSequence + 10 /\ g.c.reliableSequence \in Nat
      BY <1>2, <3>3, AddsSound, ServerParts DEF Adds
    <3>5. WindowIsBounded(g.c)
      BY <1>4, <3>3, <3>4 DEF WindowIsBounded
    <3> QED
      BY <3>2, <3>3, <3>5
  <2> QED
    BY <2>1, <2>2
<1>6. PICK g, k : /\ k \in Nat /\ Adds(h, g, k) /\ WindowIsBounded(g.c)
                  /\ BecomesServer(g)
  BY <1>5
<1>7. ServerGrows /\ sv'.reliableAcknowledge = sv.reliableAcknowledge
  BY <1>2, <1>3, <1>6, GrowsFrom
<1>8. toServer' \in Seq(Packets)
  BY <1>3 DEF IInv
<1>9. ~stranded => /\ Sorted(toServer', AckOrder)
                   /\ sv'.reliableAcknowledge <= cl.serverCommandSequence
                   /\ \A p \in Elements(toServer') : sv'.reliableAcknowledge <= p.ack
  <2> SUFFICES ASSUME ~stranded
               PROVE  /\ Sorted(toServer, AckOrder)
                      /\ sv.reliableAcknowledge <= cl.serverCommandSequence
                      /\ \A p \in Elements(toServer) : sv.reliableAcknowledge <= p.ack
    BY <1>3, <1>7
  <2>1. /\ Sorted(toServer, AckOrder)
        /\ sv.reliableAcknowledge <= cl.serverCommandSequence
    BY DEF IInv, InStep
  <2>2. Elements(toServer) \subseteq Packets
    BY <1>3, <1>8, ElementsType
  <2> QED
    BY <2>1, <2>2, PacketParts
<1> QED
  BY <1>3, <1>7, <1>8, <1>9, ServerStep

(* The header's acknowledgement is taken.                                   *)
LEMMA HeaderIsSound ==
    ASSUME IInv, sv.state # "zombie", NEW p \in Packets,
           NEW read, read = [Here EXCEPT !.c = AfterHeader(@, p)]
    PROVE  /\ ServerIsSound(read) /\ ~Overflown(read.c)
           /\ read.c.reliableSequence = sv.reliableSequence
           /\ read.c.reliableCommands = sv.reliableCommands
           /\ read.c.state = sv.state /\ read.log = log
           /\ ~stranded => read.c.reliableAcknowledge = p.ack
<1>1. /\ sv \in Half /\ sv.reliableSequence \in Nat /\ sv.reliableAcknowledge \in Nat
      /\ ~Overflown(sv) /\ MaxReliable \in Nat
      /\ log \in Seq(Text) /\ gameDrops \in Nat /\ Len(log) = sv.reliableSequence
  BY InvariantParts
<1>2. /\ p.ack \in Nat /\ p.ack <= sv.reliableSequence
      /\ ~stranded => sv.reliableAcknowledge <= p.ack
  BY PacketParts
<1>3. PICK a : a = IF OutOfWindow(sv, p) THEN sv.reliableSequence ELSE p.ack
  OBVIOUS
<1>4. /\ a \in Nat /\ a <= sv.reliableSequence
      /\ sv.reliableSequence - a <= MaxReliable
      /\ ~stranded => a = p.ack
  <2>1. CASE OutOfWindow(sv, p)
    <3>1. p.ack < sv.reliableSequence - MaxReliable
      BY <2>1 DEF OutOfWindow
    <3>2. sv.reliableSequence - sv.reliableAcknowledge <= MaxReliable
      BY <1>1 DEF Overflown
    <3>3. stranded
      BY <1>1, <1>2, <3>1, <3>2
    <3> QED
      BY <1>1, <1>3, <2>1, <3>3
  <2>2. CASE ~OutOfWindow(sv, p)
    <3>1. ~(p.ack < sv.reliableSequence - MaxReliable)
      BY <2>2 DEF OutOfWindow
    <3> QED
      BY <1>1, <1>2, <1>3, <2>2, <3>1
  <2> QED
    BY <2>1, <2>2
<1>5. PICK c : c = [sv EXCEPT !.reliableAcknowledge = a]
  OBVIOUS
<1>6. /\ c \in Half /\ c.state = sv.state
      /\ c.reliableSequence = sv.reliableSequence
      /\ c.reliableAcknowledge = a
      /\ c.reliableCommands = sv.reliableCommands
  BY <1>1, <1>4, <1>5 DEF Half
<1>7. Here = [c |-> sv, log |-> log, gameDrops |-> gameDrops]
  BY DEF Here
<1>8. AfterHeader(sv, p) = c
  BY <1>3, <1>5 DEF AfterHeader
<1>9. PICK old : old = Here
  OBVIOUS
<1>10. /\ read \in [c : Half, log : Seq(Text), gameDrops : Nat]
       /\ read.c = c /\ read.log = log
  <2>1. old \in [c : Half, log : Seq(Text), gameDrops : Nat] /\ old.log = log
    BY <1>1, <1>7, <1>9
  <2>2. read = [old EXCEPT !.c = c]
    BY <1>2, <1>7, <1>8, <1>9
  <2> QED
    BY <1>6, <2>1, <2>2
<1>11. ~Overflown(read.c)
  BY <1>1, <1>4, <1>6, <1>10 DEF Overflown
<1>12. RingIsLog(read)
  <2>1. RingIsLog(Here)
    BY DEF IInv, ServerIsSound
  <2> QED
    BY <1>1, <1>6, <1>7, <1>10, <2>1 DEF RingIsLog
<1>13. ServerIsSound(read)
  BY <1>1, <1>4, <1>6, <1>10, <1>12 DEF ServerIsSound
<1> QED
  BY <1>4, <1>6, <1>10, <1>11, <1>13

LEMMA EnteredAdds ==
    ASSUME NEW read, ServerIsSound(read), ~Overflown(read.c),
           read.c.reliableSequence <= MaxCommands, NEW h \in EnteredWorld(read)
    PROVE  \E k \in Nat : Adds(read, h, k) /\ WindowIsBounded(h.c)
<1> DEFINE n == read.c.reliableSequence + 1
<1>1. read.c.reliableSequence \in Nat /\ MaxCommands \in Nat
  BY ServerParts, ServerCommandsAssumption
<1>2. PICK active : active = [read EXCEPT !.c.state = "active"]
  OBVIOUS
<1>3. /\ Adds(read, active, 0) /\ active.c.state = "active"
      /\ active.c.reliableSequence = read.c.reliableSequence
  BY <1>2, StateAddsNothing DEF States
<1>4. ServerIsSound(active)
  BY <1>3, AddsSound
<1>5. ~Overflown(active.c)
  BY <1>3 DEF Adds, Overflown
<1>6. CASE h = active
  <2>1. h.c.reliableSequence <= MaxCommands + 10 /\ h.c.reliableSequence <= MaxCommands
    BY <1>1, <1>3, <1>6
  <2>2. WindowIsBounded(h.c)
    BY <1>5, <1>6, <2>1 DEF WindowIsBounded
  <2> QED
    BY <1>3, <1>6, <2>2
<1>7. ASSUME n <= MaxCommands, NEW changes \in Changes,
             h = AddServerCommand(active, changes, n)
      PROVE  \E k \in Nat : Adds(read, h, k) /\ WindowIsBounded(h.c)
  <2>1. n \in Text
    BY <1>1, <1>7 DEF Text
  <2> HIDE DEF n
  <2>3. \/ Adds(active, h, 6) /\ h.c.state = "zombie"
        \/ Adds(active, h, 1) /\ ~Overflown(h.c)
    BY <1>4, <1>5, <1>7, <2>1, AddServerCommandAdds
  <2>4. CASE Adds(active, h, 6) /\ h.c.state = "zombie"
    <3>1. Adds(read, h, 0 + 6)
      BY <1>3, <2>4, AddsMore
    <3>2. /\ h.c.reliableSequence \in Nat
          /\ h.c.reliableSequence <= read.c.reliableSequence + 6
      BY <1>3, <2>4, AddsSound, ServerParts DEF Adds
    <3>3. WindowIsBounded(h.c)
      BY <1>1, <2>4, <3>2 DEF WindowIsBounded
    <3> QED
      BY <3>1, <3>3
  <2>5. CASE Adds(active, h, 1) /\ ~Overflown(h.c)
    <3>1. Adds(read, h, 0 + 1)
      BY <1>3, <2>5, AddsMore
    <3>2. /\ h.c.reliableSequence \in Nat
          /\ h.c.reliableSequence <= read.c.reliableSequence + 1
      BY <1>3, <2>5, AddsSound, ServerParts DEF Adds
    <3>3. h.c.reliableSequence <= MaxCommands /\ h.c.reliableSequence <= MaxCommands + 10
      BY <1>1, <1>7, <3>2 DEF n
    <3>4. WindowIsBounded(h.c)
      BY <2>5, <3>3 DEF WindowIsBounded
    <3> QED
      BY <3>1, <3>4
  <2> QED
    BY <2>3, <2>4, <2>5
<1> QED
  BY <1>2, <1>6, <1>7 DEF EnteredWorld

LEMMA SvReceiveStep ==
    ASSUME IInv, NEW i \in 1 .. Len(toServer), SvReceive(i)
    PROVE  IInv'
<1>1. PICK p : p = toServer[i]
  OBVIOUS
<1>2. PICK read : read = [Here EXCEPT !.c = AfterHeader(@, p)]
  OBVIOUS
<1>3. toServer \in Seq(Packets) /\ p \in Packets
  BY <1>1, ElementOfSeq DEF IInv
<1>4. /\ toServer' = AfterArrival(toServer, i)
      /\ UNCHANGED <<cl, path, gameStates, executed, shown, stranded>>
      /\ \/ sv.state = "zombie" /\ BecomesServer(Here)
         \/ sv.state # "zombie" /\ BecomesServer(read)
         \/ /\ sv.state = "primed"
            /\ \E h \in EnteredWorld(read) : BecomesServer(h)
  BY <1>1, <1>2 DEF SvReceive
<1>5. /\ toServer' \in Seq(Packets)
      /\ Elements(toServer') \subseteq Elements(toServer)
      /\ p \in Elements(toServer)
      /\ Sorted(toServer, AckOrder) =>
            /\ Sorted(toServer', AckOrder)
            /\ Before({p}, Elements(toServer'), AckOrder)
  BY <1>1, <1>3, <1>4, ArrivalKeepsOrder
<1>6. ASSUME ~stranded
      PROVE  /\ Sorted(toServer', AckOrder)
             /\ sv.reliableAcknowledge <= cl.serverCommandSequence
             /\ p.ack <= cl.serverCommandSequence
             /\ \A x \in Elements(toServer') : /\ sv.reliableAcknowledge <= x.ack
                                               /\ p.ack <= x.ack
  <2>1. /\ Sorted(toServer, AckOrder)
        /\ sv.reliableAcknowledge <= cl.serverCommandSequence
    BY <1>6 DEF IInv, InStep
  <2>2. p.ack <= cl.serverCommandSequence
    BY <1>3, <1>6, PacketParts
  <2>3. ASSUME NEW x \in Elements(toServer')
        PROVE  sv.reliableAcknowledge <= x.ack /\ p.ack <= x.ack
    <3>1. x \in Packets
      BY <1>5, ElementsType
    <3>2. <<p, x>> \in AckOrder
      BY <1>5, <2>1 DEF Before
    <3> QED
      BY <1>6, <3>1, <3>2, PacketParts DEF AckOrder
  <2> QED
    BY <1>5, <2>1, <2>2, <2>3
<1>7. CASE sv.state = "zombie" /\ BecomesServer(Here)
  <2>1. sv' = sv /\ UNCHANGED <<log, gameDrops>>
    BY <1>7 DEF BecomesServer, Here
  <2>2. ServerGrows /\ sv'.reliableAcknowledge = sv.reliableAcknowledge
    BY <2>1, ServerStays
  <2> QED
    BY <1>4, <1>5, <1>6, <2>2, ServerStep
<1>8. ASSUME sv.state # "zombie", NEW h, NEW k \in Nat, Adds(read, h, k),
             WindowIsBounded(h.c), BecomesServer(h)
      PROVE  IInv'
  <2>1. /\ ServerIsSound(read)
        /\ read.c.reliableSequence = sv.reliableSequence
        /\ read.c.reliableCommands = sv.reliableCommands /\ read.log = log
        /\ ~stranded => read.c.reliableAcknowledge = p.ack
    BY <1>2, <1>3, <1>8, HeaderIsSound
  <2>2. ServerGrows /\ sv'.reliableAcknowledge = read.c.reliableAcknowledge
    BY <1>8, <2>1, GrowsFrom
  <2>3. ~stranded => /\ Sorted(toServer', AckOrder)
                     /\ sv'.reliableAcknowledge <= cl.serverCommandSequence
                     /\ \A x \in Elements(toServer') : sv'.reliableAcknowledge <= x.ack
    BY <1>6, <2>1, <2>2
  <2> QED
    BY <1>4, <1>5, <2>2, <2>3, ServerStep
<1>9. ASSUME sv.state # "zombie"
      PROVE  /\ ServerIsSound(read) /\ ~Overflown(read.c)
             /\ read.c.reliableSequence <= MaxCommands
             /\ read.c.state = sv.state /\ MaxCommands \in Nat
             /\ read.c.reliableSequence \in Nat
  <2>1. /\ ServerIsSound(read) /\ ~Overflown(read.c) /\ read.c.state = sv.state
        /\ read.c.reliableSequence = sv.reliableSequence
    BY <1>2, <1>3, <1>9, HeaderIsSound
  <2>2. sv.reliableSequence <= MaxCommands
    BY <1>9 DEF IInv, WindowIsBounded
  <2> QED
    BY <2>1, <2>2, InvariantParts
<1>10. CASE sv.state # "zombie" /\ BecomesServer(read)
  <2>1. Adds(read, read, 0) /\ 0 \in Nat
    BY <1>9, <1>10, AddsNothing
  <2>2. read.c.reliableSequence <= MaxCommands + 10
    BY <1>9, <1>10
  <2>3. WindowIsBounded(read.c)
    BY <1>9, <1>10, <2>2 DEF WindowIsBounded
  <2> QED
    BY <1>8, <1>10, <2>1, <2>3
<1>11. CASE sv.state = "primed" /\ \E h \in EnteredWorld(read) : BecomesServer(h)
  <2>1. PICK h \in EnteredWorld(read) : BecomesServer(h)
    BY <1>11
  <2>2. PICK k \in Nat : Adds(read, h, k) /\ WindowIsBounded(h.c)
    BY <1>9, <1>11, EnteredAdds
  <2> QED
    BY <1>8, <1>11, <2>1, <2>2
<1> QED
  BY <1>4, <1>7, <1>10, <1>11

-----------------------------------------------------------------------------
(* The client's steps. *)

LEMMA ClientStep ==
    ASSUME IInv, UNCHANGED <<sv, log, gameDrops, gameStates, stranded>>,
           cl' \in ClientHalf, Len(cl'.snapshots) <= SnapshotBackup,
           cl'.serverCommandSequence <= sv.reliableSequence,
           path' \in PathOf(Told),
           ~stranded => /\ cl.serverCommandSequence <= cl'.serverCommandSequence
                        /\ \A m \in OnPath(path') : cl'.serverCommandSequence <= m.built,
           \/ toServer' \in Seq(Packets)
           \/ \E p \in Packets : toServer' = Flying(toServer, p),
           executed' \in Seq(Text), shown' \in Sequence, InStep', ClientHasLog'
    PROVE  IInv'
<1>1. /\ sv' = sv /\ log' = log /\ gameDrops' = gameDrops
      /\ gameStates' = gameStates /\ stranded' = stranded
  OBVIOUS
<1>2. ServerGrows /\ sv'.reliableAcknowledge = sv.reliableAcknowledge
  BY ServerStays
<1>3. cl'.serverCommandSequence \in Nat
  BY InvariantParts DEF ClientHalf, Sequence
<1>4. ClientGoesOn
  BY <1>1, <1>3 DEF ClientGoesOn
<1>5. path' \in PathOf(Told')
  <2>1. OnPath(path') \subseteq Told
    BY OnPathType
  <2>2. ASSUME NEW m \in OnPath(path')
        PROVE  m \in Told'
    <3>1. m \in Told /\ (~stranded' => cl'.serverCommandSequence <= m.built)
      BY <1>1, <2>1
    <3> QED
      BY <1>2, <1>4, <3>1, ToldStays
  <2>3. PICK s, N : s = path' /\ N = Told'
    OBVIOUS
  <2>4. s \in PathOf(Told) /\ OnPath(s) \subseteq N
    BY <2>2, <2>3
  <2> QED
    BY <2>3, <2>4, PathWithin
<1>6. Packets \subseteq Packets'
  <2> SUFFICES ASSUME NEW p \in Packets PROVE p \in Packets'
    OBVIOUS
  <2>1. ~stranded' => sv'.reliableAcknowledge <= p.ack
    BY <1>1, <1>2, PacketParts
  <2> QED
    BY <1>2, <1>4, <2>1, PacketStays
<1>7. toServer' \in Seq(Packets')
  <2>1. toServer \in Seq(Packets)
    BY DEF IInv
  <2>2. toServer' \in Seq(Packets)
    <3>1. ASSUME NEW p \in Packets
          PROVE  Flying(toServer, p) \in Seq(Packets)
      BY <2>1, FlyingKeepsOrder
    <3> QED
      BY <3>1
  <2> QED
    BY <1>6, <2>2, SequenceOfMore
<1> QED
  BY <1>1, <1>2, <1>5, <1>7 DEF IInv, ServerGrows

(* The client stores nothing: it sends, executes or is disconnected, or     *)
(* messages are lost.                                                       *)
LEMMA QuietStep ==
    ASSUME IInv, UNCHANGED <<sv, log, gameDrops, gameStates, stranded>>,
           cl' \in ClientHalf, Len(cl'.snapshots) <= SnapshotBackup,
           cl'.serverCommandSequence = cl.serverCommandSequence,
           cl'.serverCommands = cl.serverCommands,
           \A j \in 1 .. Len(cl'.snapshots) : \E k \in 1 .. Len(cl.snapshots) :
              cl'.snapshots[j] = cl.snapshots[k],
           path' \in PathOf(Told), OnPath(path') \subseteq OnPath(path),
           \/ toServer' \in Seq(Packets)
           \/ \E p \in Packets : toServer' = Flying(toServer, p),
           executed' \in Seq(Text), shown' \in Sequence,
           ~stranded => /\ ~Strands(path') /\ InOrder(path', BuiltOrder)
                        /\ Sorted(toServer', AckOrder)
                        /\ shown' <= cl'.lastExecuted
                        /\ cl'.lastExecuted <= cl.serverCommandSequence,
           ~stranded /\ ~Overflown(sv) =>
              /\ Len(executed') = cl'.lastExecuted
              /\ \A n \in 1 .. cl'.lastExecuted : executed'[n] = log[n]
    PROVE  IInv'
<1>1. /\ sv' = sv /\ log' = log /\ stranded' = stranded
  OBVIOUS
<1>2. /\ cl.serverCommandSequence \in Nat
      /\ cl.serverCommandSequence <= sv.reliableSequence
  BY InvariantParts
<1>3. /\ cl'.serverCommandSequence <= sv.reliableSequence
      /\ cl.serverCommandSequence <= cl'.serverCommandSequence
  BY <1>2
<1>4. ASSUME ~stranded, NEW m \in OnPath(path')
      PROVE  cl'.serverCommandSequence <= m.built
  <2>1. m \in Told
    BY InvariantParts
  <2> QED
    BY <1>4, <2>1, ToldParts
<1>5. KeyOf(cl') = KeyOf(cl)
  BY DEF KeyOf
<1>6. InStep'
  <2> SUFFICES ASSUME ~stranded
               PROVE  InStep'
    BY <1>1 DEF InStep
  <2>1. InStep
    BY DEF IInv
  <2>2. \A j \in 1 .. Len(cl'.snapshots) :
           /\ cl'.snapshots[j].built = cl'.snapshots[j].commandNum
           /\ cl'.snapshots[j].commandNum <= cl'.serverCommandSequence
    BY <2>1 DEF InStep
  <2>3. (KeyOf(cl))' = KeyOf(cl)
    BY <1>5 DEF KeyOf
  <2> QED
    BY <1>1, <2>1, <2>2, <2>3 DEF InStep
<1>7. ClientHasLog'
  BY <1>1 DEF IInv, ClientHasLog
<1> QED
  BY <1>3, <1>4, <1>6, <1>7, ClientStep

(* A message arrives or is lost on its way to the client.                   *)
LEMMA FlightStep ==
    ASSUME IInv, NEW i \in 1 .. Len(path.flight),
           NEW g, \/ g = AfterArrival(path.flight, i)
                  \/ g = AfterLoss(path.flight, i),
           NEW t, t = [path EXCEPT !.flight = g]
    PROVE  /\ t \in PathOf(Told) /\ OnPath(t) \subseteq OnPath(path)
           /\ t.flight = g /\ t.current = path.current /\ t.queue = path.queue
           /\ ~stranded => ~Strands(t) /\ InOrder(t, BuiltOrder)
<1> DEFINE M == Told
<1>1. path \in PathOf(M) /\ path.flight \in Seq(M)
  BY PathParts DEF IInv
<1> HIDE DEF M
<1>2. PICK f : f = path.flight
  OBVIOUS
<1>3. /\ g \in Seq(M) /\ Elements(g) \subseteq Elements(f)
      /\ Sorted(f, BuiltOrder) => Sorted(g, BuiltOrder)
  <2>1. f \in Seq(M) /\ i \in 1 .. Len(f)
    BY <1>1, <1>2
  <2>2. CASE g = AfterArrival(f, i)
    BY <2>1, <2>2, ArrivalKeepsOrder
  <2>3. CASE g = AfterLoss(f, i)
    BY <2>1, <2>3, LossKeepsOrder
  <2> QED
    BY <1>2, <2>2, <2>3
<1>4. /\ t \in PathOf(M) /\ t.left = path.left
      /\ t.flight = g /\ t.current = path.current /\ t.queue = path.queue
      /\ OnPath(t) \subseteq OnPath(path)
      /\ InOrder(path, BuiltOrder) /\ Sorted(g, BuiltOrder) => InOrder(t, BuiltOrder)
  <2>1. g \in Seq(M) /\ Elements(g) \subseteq Elements(path.flight)
    BY <1>2, <1>3
  <2>2. path \in [left : Nat, current : Seq(M), queue : Seq(M), flight : Seq(M)]
    BY <1>1 DEF PathOf
  <2>3. /\ t \in [left : Nat, current : Seq(M), queue : Seq(M), flight : Seq(M)]
        /\ t.left = path.left /\ t.current = path.current
        /\ t.queue = path.queue /\ t.flight = g
    BY <2>1, <2>2
  <2> QED
    BY <1>1, <2>1, <2>3, FlightChanges
<1>5. ASSUME ~stranded
      PROVE  ~Strands(t) /\ InOrder(t, BuiltOrder)
  <2>1. ~Strands(path) /\ InOrder(path, BuiltOrder)
    BY <1>5 DEF IInv, InStep
  <2>2. Sorted(g, BuiltOrder)
    BY <1>2, <1>3, <2>1 DEF InOrder
  <2> QED
    BY <1>4, <2>1, <2>2 DEF Strands
<1> QED
  BY <1>4, <1>5 DEF M

(* As long as nothing was stranded, what is on its way behind a message     *)
(* that arrives was built later.                                            *)
LEMMA BehindArrival ==
    ASSUME IInv, ~stranded, NEW i \in 1 .. Len(path.flight),
           NEW m, m = path.flight[i],
           NEW t, t.flight = AfterArrival(path.flight, i),
           t.current = path.current, t.queue = path.queue,
           NEW x \in OnPath(t)
    PROVE  m.built <= x.built
<1>1. path \in PathOf(Told) /\ InOrder(path, BuiltOrder)
  BY DEF IInv, InStep
<1>2. path.flight \in Seq(Told)
  BY <1>1, PathParts
<1>3. /\ m \in Elements(path.flight)
      /\ Before({m}, Elements(t.flight), BuiltOrder)
  <2>1. PICK f, M : f = path.flight /\ M = Told
    OBVIOUS
  <2>2. f \in Seq(M) /\ i \in 1 .. Len(f) /\ Sorted(f, BuiltOrder)
    BY <1>1, <1>2, <2>1 DEF InOrder
  <2>3. /\ f[i] \in Elements(f)
        /\ Before({f[i]}, Elements(AfterArrival(f, i)), BuiltOrder)
    BY <2>2, ArrivalKeepsOrder
  <2> QED
    BY <2>1, <2>3
<1>4. <<m, x>> \in BuiltOrder
  BY <1>1, <1>3 DEF OnPath, InOrder, Before
<1> QED
  BY <1>4 DEF BuiltOrder

(* CL_ParseCommandString for each command of a message: the ring holds the  *)
(* last MaxReliable commands up to the one the message reaches to.          *)
LEMMA CommandsParsed ==
    ASSUME IInv, NEW m \in Told, m.kind # "cleared", NEW t, t = AfterCommands(cl, m)
    PROVE  /\ t \in ClientHalf
           /\ t.lastExecuted = cl.lastExecuted /\ t.snapshots = cl.snapshots
           /\ t.serverCommandSequence <= sv.reliableSequence
           /\ ~stranded =>
                 /\ t.serverCommandSequence = m.built
                 /\ sv.reliableSequence - m.built < MaxReliable =>
                       t.serverCommands[Slot(m.built)] = sv.reliableCommands[Slot(m.built)]
           /\ ~stranded /\ ~Overflown(sv) =>
                 \A n \in 1 .. m.built :
                    n > m.built - MaxReliable => t.serverCommands[Slot(n)] = log[n]
<1> DEFINE S == cl.serverCommandSequence
           B == m.built
           F == m.first
           ring == cl.serverCommands
           new == NewNumbers(cl, m)
           in(k) == {n \in new : Slot(n) = k}
           newest == IF new = {} THEN S ELSE Max(new)
           stored == [k \in 0 .. MaxReliable - 1 |->
                         IF in(k) = {} THEN ring[k]
                         ELSE m.texts[Max(in(k)) - m.first + 1]]
<1>1. /\ S \in Nat /\ S <= sv.reliableSequence /\ S \in Sequence
      /\ sv.reliableSequence \in Nat /\ sv.reliableSequence \in Sequence
      /\ ring \in Ring /\ MaxReliable \in Nat \ {0} /\ cl \in ClientHalf
  BY InvariantParts DEF IInv, ClientHalf
<1>2. /\ F \in Nat \ {0} /\ m.texts \in Seq(Text) /\ Len(m.texts) \in Nat
      /\ B \in Nat /\ B <= sv.reliableSequence /\ F + Len(m.texts) = B + 1
      /\ B \in Sequence
  BY ToldParts DEF Told, ServerMessage
<1>3. new = {n \in F .. B : n > S}
  <2>1. F + Len(m.texts) - 1 = B
    BY <1>2
  <2> QED
    BY <2>1 DEF NewNumbers
<1>4. t = [cl EXCEPT !.serverCommandSequence = newest, !.serverCommands = stored]
  <2>1. DOMAIN ring = 0 .. MaxReliable - 1
    BY <1>1 DEF Ring
  <2> QED
    BY <2>1 DEF AfterCommands
<1> HIDE DEF F, new, ring
<1>5. ASSUME new # {}
      PROVE  B \in new /\ newest = B
  <2>1. B \in new
    BY <1>1, <1>2, <1>3, <1>5
  <2>2. \A y \in new : B >= y /\ y \in Nat
    BY <1>2, <1>3
  <2>3. \E x \in new : \A y \in new : x >= y
    BY <2>1, <2>2
  <2>4. Max(new) \in new /\ \A y \in new : Max(new) >= y
    BY <2>3 DEF Max
  <2>5. Max(new) >= B /\ B >= Max(new) /\ Max(new) \in Nat
    BY <2>1, <2>2, <2>4
  <2> QED
    BY <1>2, <1>5, <2>1, <2>5
<1>6. newest \in Nat /\ newest <= sv.reliableSequence /\ newest \in Sequence
  BY <1>1, <1>2, <1>5
<1>7. ASSUME NEW k, in(k) # {}
      PROVE  Max(in(k)) \in in(k) /\ \A y \in in(k) : Max(in(k)) >= y
  <2>1. in(k) \in SUBSET Nat /\ \A y \in in(k) : y <= B
    BY <1>2, <1>3
  <2>2. PICK s : s = in(k)
    OBVIOUS
  <2>3. \E x \in s : \A y \in s : x >= y
    BY <1>2, <1>7, <2>1, <2>2, GreatestExists
  <2>4. Max(s) \in s /\ \A y \in s : Max(s) >= y
    BY <2>3 DEF Max
  <2> QED
    BY <2>2, <2>4
<1>8. ASSUME NEW n \in new
      PROVE  /\ n \in Nat /\ n \in F .. B /\ n > S
             /\ n - m.first + 1 \in 1 .. Len(m.texts)
             /\ m.texts[n - m.first + 1] \in Text
  <2>1. n \in Nat /\ n \in F .. B /\ n > S
    BY <1>2, <1>3
  <2>2. n - m.first + 1 \in 1 .. Len(m.texts)
    BY <1>2, <2>1 DEF F
  <2> QED
    BY <1>2, <2>1, <2>2, ElementOfSeq
<1>9. stored \in Ring
  <2>1. ASSUME NEW k \in 0 .. MaxReliable - 1
        PROVE  (IF in(k) = {} THEN ring[k]
                ELSE m.texts[Max(in(k)) - m.first + 1]) \in Text
    <3>1. CASE in(k) = {}
      BY <1>1, <3>1 DEF Ring
    <3>2. CASE in(k) # {}
      <4>1. Max(in(k)) \in new
        BY <1>7, <3>2
      <4>2. m.texts[Max(in(k)) - m.first + 1] \in Text
        BY <1>8, <4>1
      <4> QED
        BY <3>2, <4>2
    <3> QED
      BY <3>1, <3>2
  <2> QED
    BY <2>1 DEF Ring
<1>10. \A k \in 0 .. MaxReliable - 1 :
          stored[k] = IF in(k) = {} THEN ring[k]
                      ELSE m.texts[Max(in(k)) - m.first + 1]
  OBVIOUS
<1> HIDE DEF stored
<1>11. /\ t \in ClientHalf /\ t.serverCommandSequence = newest
       /\ t.serverCommands = stored
       /\ t.lastExecuted = cl.lastExecuted /\ t.snapshots = cl.snapshots
  <2> HIDE DEF newest
  <2> QED
    BY <1>1, <1>4, <1>6, <1>9 DEF ClientHalf
(* A number of the message that is among the last MaxReliable has its slot. *)
<1>12. ASSUME NEW n \in new, B - n < MaxReliable
       PROVE  stored[Slot(n)] = m.texts[n - m.first + 1]
  <2>1. n \in in(Slot(n)) /\ n \in Nat
    BY <1>8
  <2>2. PICK x : x = Max(in(Slot(n)))
    OBVIOUS
  <2>3. x \in in(Slot(n)) /\ x >= n
    BY <1>7, <2>1, <2>2
  <2>4. x \in new /\ Slot(x) = Slot(n) /\ x \in Nat /\ x <= B
    BY <1>2, <1>8, <2>3
  <2>5. x = n
    <3>1. SUFFICES ASSUME x # n PROVE FALSE
      OBVIOUS
    <3>2. n < x /\ x - n < MaxReliable
      BY <1>1, <1>2, <1>12, <2>1, <2>3, <2>4, <3>1
    <3> QED
      BY <2>1, <2>4, <3>2, SlotsApart
  <2>6. Slot(n) \in 0 .. MaxReliable - 1
    BY <2>1, SlotOf
  <2> QED
    BY <1>10, <2>1, <2>2, <2>5, <2>6
(* So has an older one, which no number of the message takes.               *)
<1>13. ASSUME NEW n \in Nat, n <= S, B - n < MaxReliable
       PROVE  stored[Slot(n)] = ring[Slot(n)]
  <2>1. ASSUME NEW x \in in(Slot(n))
        PROVE  FALSE
    <3>1. x \in new /\ Slot(x) = Slot(n)
      OBVIOUS
    <3>2. x \in Nat /\ x <= B /\ x > S
      BY <1>2, <1>8, <3>1
    <3>3. n < x /\ x - n < MaxReliable
      BY <1>1, <1>2, <1>13, <3>2
    <3> QED
      BY <3>1, <3>2, <3>3, SlotsApart
  <2>2. Slot(n) \in 0 .. MaxReliable - 1
    BY SlotOf
  <2> QED
    BY <1>10, <2>1, <2>2
<1>14. ASSUME ~stranded
       PROVE  S <= B /\ F <= S + 1 /\ newest = B
  <2>1. S <= B /\ F <= S + 1
    BY <1>14, ToldParts DEF F
  <2>2. new = {} => S = B
    <3>1. SUFFICES ASSUME S # B PROVE new # {}
      OBVIOUS
    <3>2. B \in F .. B /\ B > S
      BY <1>1, <1>2, <2>1, <3>1
    <3> QED
      BY <1>3, <3>2
  <2> QED
    BY <1>5, <2>1, <2>2
<1>15. ASSUME ~stranded, sv.reliableSequence - B < MaxReliable
       PROVE  stored[Slot(B)] = sv.reliableCommands[Slot(B)]
  <2>1. B - B < MaxReliable
    BY <1>1, <1>2
  <2>2. CASE new # {}
    <3>1. B \in new
      BY <1>5, <2>2
    <3>2. /\ B - m.first + 1 = Len(m.texts)
      BY <1>2 DEF F
    <3>3. m.texts # <<>>
      BY <1>8, <3>1, <3>2, EmptySeq
    <3>4. m.texts[Len(m.texts)] = sv.reliableCommands[Slot(B)]
      BY <1>15, <3>3, ToldParts
    <3>5. stored[Slot(B)] = m.texts[B - m.first + 1]
      BY <1>12, <2>1, <3>1
    <3> QED
      BY <3>2, <3>4, <3>5
  <2>3. CASE new = {}
    <3>1. S = B
      BY <1>14, <1>15, <2>3
    <3>2. stored[Slot(S)] = ring[Slot(S)]
      <4>1. S <= S /\ B - S < MaxReliable
        BY <1>1, <2>1, <3>1
      <4> QED
        BY <1>1, <1>13, <4>1
    <3>3. sv.reliableCommands[Slot(S)] = ring[Slot(S)]
      BY <1>15, <3>1 DEF IInv, InStep, KeyOf, ring
    <3> QED
      BY <3>1, <3>2, <3>3
  <2> QED
    BY <2>2, <2>3
<1>16. ASSUME ~stranded, ~Overflown(sv), NEW n \in 1 .. B, n > B - MaxReliable
       PROVE  stored[Slot(n)] = log[n]
  <2>1. B - n < MaxReliable /\ n \in Nat
    BY <1>1, <1>2, <1>16
  <2>2. CASE n <= S
    <3>1. stored[Slot(n)] = ring[Slot(n)]
      BY <1>13, <2>1, <2>2
    <3>2. n \in 1 .. S /\ n > S - MaxReliable
      BY <1>1, <1>2, <1>14, <1>16, <2>1, <2>2
    <3>3. ring[Slot(n)] = log[n]
      BY <1>16, <3>2 DEF IInv, ClientHasLog, ring
    <3> QED
      BY <3>1, <3>3
  <2>3. CASE n > S
    <3>1. n \in new
      BY <1>1, <1>2, <1>3, <1>14, <1>16, <2>1, <2>3
    <3>2. stored[Slot(n)] = m.texts[n - m.first + 1]
      BY <1>12, <2>1, <3>1
    <3>3. PICK i : i = n - m.first + 1
      OBVIOUS
    <3>4. i \in 1 .. Len(m.texts)
      BY <1>8, <3>1, <3>3
    <3>5. m.texts[i] = log[m.first + (i - 1)]
      BY <1>16, <3>4, ToldParts
    <3>6. m.first + (i - 1) = n
      BY <1>2, <2>1, <3>3 DEF F
    <3> QED
      BY <3>2, <3>3, <3>5, <3>6
  <2> QED
    BY <1>1, <2>1, <2>2, <2>3
<1> HIDE DEF newest
<1> QED
  BY <1>6, <1>11, <1>14, <1>15, <1>16

LEMMA ReceiveStep ==
    ASSUME IInv, NEW i \in 1 .. Len(path.flight), ClReceive(i)
    PROVE  IInv'
<1>1. PICK m, next : m = path.flight[i] /\ next = AfterCommands(cl, m)
  OBVIOUS
<1>2. m \in Told /\ path \in PathOf(Told)
  <2>1. path \in PathOf(Told)
    BY DEF IInv
  <2>2. path.flight \in Seq(Told)
    BY <2>1, PathParts
  <2> QED
    BY <1>1, <2>1, <2>2, ElementOfSeq
<1>3. /\ path' = [path EXCEPT !.flight = AfterArrival(path.flight, i)]
      /\ \/ m.kind = "gamestate" /\ cl' = AfterGameState(next, m)
         \/ m.kind = "snapshot" /\ cl' \in {next, AfterSnapshot(next, m)}
         \/ m.kind = "cleared" /\ cl' = [cl EXCEPT !.connected = FALSE]
      /\ toServer' = toServer
      /\ UNCHANGED <<sv, log, gameDrops, gameStates, executed, shown, stranded>>
  BY <1>1 DEF ClReceive, svVars
<1>4. PICK g : g = AfterArrival(path.flight, i)
  OBVIOUS
<1>5. /\ path' \in PathOf(Told) /\ OnPath(path') \subseteq OnPath(path)
      /\ path'.flight = AfterArrival(path.flight, i)
      /\ path'.current = path.current /\ path'.queue = path.queue
      /\ ~stranded => ~Strands(path') /\ InOrder(path', BuiltOrder)
  BY <1>3, <1>4, FlightStep
<1>6. /\ cl \in ClientHalf /\ Len(cl.snapshots) <= SnapshotBackup
      /\ toServer' \in Seq(Packets)
      /\ executed' \in Seq(Text) /\ shown' \in Sequence
      /\ cl.snapshots \in Seq(SnapshotRead)
      /\ SnapshotBackup \in Nat \ {0}
  BY <1>3, ServerCommandsAssumption DEF IInv, ClientHalf
<1>7. ASSUME ~stranded
      PROVE  /\ ~Strands(path') /\ InOrder(path', BuiltOrder)
             /\ Sorted(toServer', AckOrder)
             /\ sv.reliableAcknowledge <= cl.serverCommandSequence
             /\ shown <= cl.lastExecuted
             /\ cl.lastExecuted <= cl.serverCommandSequence
             /\ \A j \in 1 .. Len(cl.snapshots) :
                   /\ cl.snapshots[j].built = cl.snapshots[j].commandNum
                   /\ cl.snapshots[j].commandNum <= cl.serverCommandSequence
             /\ cl.serverCommandSequence <= m.built
  BY <1>2, <1>3, <1>5, <1>7, ToldParts DEF IInv, InStep
<1>8. CASE m.kind = "cleared"
  <2>1. cl' = [cl EXCEPT !.connected = FALSE]
    BY <1>3, <1>8
  <2>2. /\ cl' \in ClientHalf
        /\ cl'.serverCommandSequence = cl.serverCommandSequence
        /\ cl'.serverCommands = cl.serverCommands
        /\ cl'.snapshots = cl.snapshots /\ cl'.lastExecuted = cl.lastExecuted
    BY <1>6, <2>1 DEF ClientHalf
  <2>3. ~stranded /\ ~Overflown(sv) =>
           /\ Len(executed') = cl'.lastExecuted
           /\ \A n \in 1 .. cl'.lastExecuted : executed'[n] = log[n]
    BY <1>3, <2>2 DEF IInv, ClientHasLog
  <2> QED
    BY <1>3, <1>5, <1>6, <1>7, <2>2, <2>3, QuietStep
(* The commands were parsed; k is what the client makes of the rest.        *)
<1>9. ASSUME m.kind # "cleared", cl' \in ClientHalf,
             cl'.serverCommandSequence = next.serverCommandSequence
                \/ cl'.serverCommandSequence = m.built,
             cl'.serverCommands = next.serverCommands,
             cl'.lastExecuted = cl.lastExecuted,
             Len(cl'.snapshots) <= SnapshotBackup,
             ~stranded => \A j \in 1 .. Len(cl'.snapshots) :
                             /\ cl'.snapshots[j].built = cl'.snapshots[j].commandNum
                             /\ cl'.snapshots[j].commandNum <= m.built
      PROVE  IInv'
  <2>1. /\ next.serverCommandSequence <= sv.reliableSequence
        /\ ~stranded =>
              /\ next.serverCommandSequence = m.built
              /\ sv.reliableSequence - m.built < MaxReliable =>
                    next.serverCommands[Slot(m.built)] = sv.reliableCommands[Slot(m.built)]
        /\ ~stranded /\ ~Overflown(sv) =>
              \A n \in 1 .. m.built :
                 n > m.built - MaxReliable => next.serverCommands[Slot(n)] = log[n]
    BY <1>1, <1>2, <1>9, CommandsParsed
  <2>2. m.built <= sv.reliableSequence /\ m.built \in Nat
    BY <1>2, ToldParts
  <2>3. cl'.serverCommandSequence <= sv.reliableSequence
    BY <1>9, <2>1, <2>2
  <2>4. ~stranded => cl'.serverCommandSequence = m.built
    BY <1>9, <2>1
  <2>5. ASSUME ~stranded
        PROVE  /\ cl.serverCommandSequence <= cl'.serverCommandSequence
               /\ \A x \in OnPath(path') : cl'.serverCommandSequence <= x.built
    BY <1>1, <1>5, <1>7, <2>4, <2>5, BehindArrival
  <2>6. cl.serverCommandSequence \in Nat /\ cl.lastExecuted \in Nat
        /\ sv.reliableAcknowledge \in Nat
    BY InvariantParts
  <2>7. InStep'
    <3> SUFFICES ASSUME ~stranded
                 PROVE  InStep'
      BY <1>3 DEF InStep
    <3>1. /\ sv.reliableAcknowledge <= m.built /\ cl.lastExecuted <= m.built
      BY <1>7, <2>2, <2>6
    <3>2. sv.reliableSequence - m.built < MaxReliable =>
             sv.reliableCommands[Slot(m.built)] = KeyOf(cl')
      BY <1>9, <2>1, <2>4 DEF KeyOf
    <3>3. (KeyOf(cl))' = KeyOf(cl')
      BY DEF KeyOf
    <3> QED
      BY <1>3, <1>7, <1>9, <2>4, <3>1, <3>2, <3>3 DEF InStep
  <2>8. ClientHasLog'
    <3> SUFFICES ASSUME ~stranded, ~Overflown(sv)
                 PROVE  ClientHasLog'
      BY <1>3 DEF ClientHasLog
    <3>1. \A n \in 1 .. m.built :
             n > m.built - MaxReliable => cl'.serverCommands[Slot(n)] = log[n]
      BY <1>9, <2>1
    <3>2. /\ Len(executed) = cl.lastExecuted
          /\ \A n \in 1 .. cl.lastExecuted : executed[n] = log[n]
      BY DEF IInv, ClientHasLog
    <3> QED
      BY <1>3, <1>9, <2>4, <3>1, <3>2 DEF ClientHasLog
  <2> QED
    BY <1>3, <1>5, <1>6, <1>9, <2>3, <2>5, <2>7, <2>8, ClientStep
<1>10. ASSUME m.kind # "cleared"
       PROVE  /\ next \in ClientHalf /\ next.lastExecuted = cl.lastExecuted
              /\ next.snapshots = cl.snapshots
              /\ ~stranded => next.serverCommandSequence = m.built
              /\ ~stranded => \A j \in 1 .. Len(cl.snapshots) :
                                 /\ cl.snapshots[j].built = cl.snapshots[j].commandNum
                                 /\ cl.snapshots[j].commandNum <= m.built
  <2>1. /\ next \in ClientHalf /\ next.lastExecuted = cl.lastExecuted
        /\ next.snapshots = cl.snapshots
        /\ ~stranded => next.serverCommandSequence = m.built
    BY <1>1, <1>2, <1>10, CommandsParsed
  <2>2. ASSUME ~stranded, NEW j \in 1 .. Len(cl.snapshots)
        PROVE  /\ cl.snapshots[j].built = cl.snapshots[j].commandNum
               /\ cl.snapshots[j].commandNum <= m.built
    <3>1. cl.snapshots[j] \in SnapshotRead
      BY <1>6, ElementOfSeq
    <3>2. cl.snapshots[j].commandNum \in Nat
      <4>1. MaxCommands \in Nat
        BY InvariantParts
      <4>2. cl.snapshots[j].commandNum \in Sequence
        BY <3>1 DEF SnapshotRead
      <4> QED
        BY <4>1, <4>2 DEF Sequence
    <3>3. /\ cl.snapshots[j].built = cl.snapshots[j].commandNum
          /\ cl.snapshots[j].commandNum <= cl.serverCommandSequence
          /\ cl.serverCommandSequence <= m.built
      BY <1>7, <2>2
    <3>4. cl.serverCommandSequence \in Nat /\ m.built \in Nat
      BY <1>2, InvariantParts, ToldParts
    <3> QED
      BY <3>2, <3>3, <3>4
  <2> QED
    BY <2>1, <2>2
<1>11. CASE m.kind = "gamestate" /\ cl' = AfterGameState(next, m)
  <2>1. PICK none \in Seq(SnapshotRead) : none = <<>> /\ Len(none) = 0
    BY EmptySeq
  <2>2. cl' = [next EXCEPT !.serverCommandSequence = m.built, !.gameState = TRUE,
                           !.inGame = FALSE, !.snapshots = none]
    BY <1>11, <2>1 DEF AfterGameState
  <2>3. m.built \in Sequence
    BY <1>2 DEF Told, ServerMessage
  <2>4. /\ cl' \in ClientHalf /\ cl'.serverCommandSequence = m.built
        /\ cl'.serverCommands = next.serverCommands
        /\ cl'.lastExecuted = next.lastExecuted /\ cl'.snapshots = none
    BY <1>10, <1>11, <2>2, <2>3 DEF ClientHalf
  <2>5. Len(cl'.snapshots) <= SnapshotBackup /\ \A j \in 1 .. Len(cl'.snapshots) : FALSE
    BY <1>6, <2>1, <2>4
  <2> QED
    BY <1>9, <1>10, <1>11, <2>4, <2>5
<1>12. CASE m.kind = "snapshot" /\ cl' = next
  <2>1. Len(cl'.snapshots) <= SnapshotBackup
    BY <1>6, <1>10, <1>12
  <2> QED
    BY <1>9, <1>10, <1>12, <2>1
<1>13. CASE m.kind = "snapshot" /\ cl' = AfterSnapshot(next, m)
  <2>1. PICK read : read = [commandNum |-> next.serverCommandSequence,
                            built |-> m.built, active |-> m.active]
    OBVIOUS
  <2>2. PICK kept : kept = IF Len(cl.snapshots) < SnapshotBackup THEN cl.snapshots
                           ELSE Tail(cl.snapshots)
    OBVIOUS
  <2>3. PICK new : new = Append(kept, read)
    OBVIOUS
  <2>4. cl' = [next EXCEPT !.snapshots = new]
    BY <1>10, <1>13, <2>1, <2>2, <2>3 DEF AfterSnapshot
  <2>5. read \in SnapshotRead
    <3>1. m.built \in Sequence /\ m.active \in BOOLEAN
      BY <1>2 DEF Told, ServerMessage
    <3>2. next.serverCommandSequence \in Sequence
      BY <1>10, <1>13 DEF ClientHalf
    <3> QED
      BY <2>1, <3>1, <3>2 DEF SnapshotRead
  <2>6. /\ kept \in Seq(SnapshotRead) /\ Len(kept) < SnapshotBackup
        /\ \A j \in 1 .. Len(kept) : \E k \in 1 .. Len(cl.snapshots) :
              kept[j] = cl.snapshots[k]
    <3>1. CASE Len(cl.snapshots) < SnapshotBackup
      BY <1>6, <2>2, <3>1
    <3>2. CASE ~(Len(cl.snapshots) < SnapshotBackup)
      <4>1. cl.snapshots # <<>> /\ Len(cl.snapshots) \in Nat
        BY <1>6, <3>2, EmptySeq, LenProperties
      <4>2. PICK f : f = cl.snapshots
        OBVIOUS
      <4>3. /\ Tail(f) \in Seq(SnapshotRead) /\ Len(Tail(f)) = Len(f) - 1
            /\ Elements(Tail(f)) \subseteq Elements(f)
        BY <1>6, <4>1, <4>2, TailKeepsOrder
      <4>4. Len(kept) < SnapshotBackup
        BY <1>6, <2>2, <3>2, <4>1, <4>2, <4>3
      <4> QED
        BY <2>2, <3>2, <4>2, <4>3, <4>4 DEF Elements
    <3> QED
      BY <3>1, <3>2
  <2>7. /\ new \in Seq(SnapshotRead) /\ Len(new) = Len(kept) + 1
        /\ Len(kept) \in Nat /\ new[Len(kept) + 1] = read
        /\ \A j \in 1 .. Len(kept) : new[j] = kept[j]
    BY <2>3, <2>5, <2>6, AppendProperties, LenProperties
  <2>8. /\ cl' \in ClientHalf
        /\ cl'.serverCommandSequence = next.serverCommandSequence
        /\ cl'.serverCommands = next.serverCommands
        /\ cl'.lastExecuted = next.lastExecuted /\ cl'.snapshots = new
    BY <1>10, <1>13, <2>4, <2>7 DEF ClientHalf
  <2>9. Len(new) <= SnapshotBackup
    BY <1>6, <2>6, <2>7
  <2>10. ASSUME ~stranded, NEW j \in 1 .. Len(new)
         PROVE  new[j].built = new[j].commandNum /\ new[j].commandNum <= m.built
    <3>1. CASE j = Len(kept) + 1
      <4>1. /\ new[j] = read /\ read.built = m.built
            /\ read.commandNum = next.serverCommandSequence
        BY <2>1, <2>7, <3>1
      <4>2. next.serverCommandSequence = m.built /\ m.built \in Nat
        BY <1>2, <1>10, <1>13, <2>10, ToldParts
      <4> QED
        BY <4>1, <4>2
    <3>2. CASE j \in 1 .. Len(kept)
      <4>1. PICK k \in 1 .. Len(cl.snapshots) : new[j] = cl.snapshots[k]
        BY <2>6, <2>7, <3>2
      <4> QED
        BY <1>10, <1>13, <2>10, <4>1
    <3> QED
      BY <2>7, <3>1, <3>2
  <2> QED
    BY <1>9, <1>10, <1>13, <2>8, <2>9, <2>10
<1> QED
  BY <1>3, <1>8, <1>11, <1>12, <1>13

(* The cgame executes k commands, the ones behind those it executed, which  *)
(* the snapshot it moves on to came after.                                  *)
LEMMA CgStep ==
    ASSUME IInv, UNCHANGED <<svVars, toServer, path, gameStates, stranded>>,
           cl.snapshots # <<>>, NEW k \in Nat,
           cl' \in ClientHalf,
           cl'.serverCommandSequence = cl.serverCommandSequence,
           cl'.serverCommands = cl.serverCommands,
           cl'.snapshots \in {cl.snapshots, Tail(cl.snapshots)},
           cl'.lastExecuted = cl.lastExecuted + k,
           \A i \in 1 .. k : /\ cl.lastExecuted + i <= Snapshot.commandNum
                             /\ ~CycledOut(cl, cl.lastExecuted + i),
           executed' = executed \o [i \in 1 .. k |-> TextOf(cl.lastExecuted + i)],
           \/ shown' = shown
           \/ /\ shown' = Snapshot.built
              /\ Snapshot.commandNum <= cl.lastExecuted + k
    PROVE  IInv'
<1> DEFINE E == cl.lastExecuted
           S == cl.serverCommandSequence
           texts == [i \in 1 .. k |-> TextOf(E + i)]
<1>1. /\ E \in Nat /\ S \in Nat /\ cl.serverCommands \in Ring
      /\ S <= sv.reliableSequence /\ MaxReliable \in Nat \ {0}
  BY InvariantParts
<1>2. /\ sv' = sv /\ log' = log /\ gameDrops' = gameDrops /\ toServer' = toServer
      /\ path' = path /\ gameStates' = gameStates /\ stranded' = stranded
  BY DEF svVars
<1>3. /\ cl.snapshots \in Seq(SnapshotRead)
      /\ Len(cl.snapshots) <= SnapshotBackup
      /\ Len(cl.snapshots) \in Nat \ {0}
  BY EmptySeq, LenProperties DEF IInv, ClientHalf
<1>4. Snapshot \in SnapshotRead
  BY <1>3, ElementOfSeq DEF Snapshot
<1>5. /\ Snapshot.commandNum \in Nat /\ Snapshot.built \in Sequence
      /\ Snapshot.built \in Nat
  BY <1>4, InvariantParts DEF SnapshotRead, Sequence
<1>6. ASSUME NEW i \in 1 .. k
      PROVE  E + i \in Nat /\ TextOf(E + i) \in Text
  <2>1. E + i \in Nat
    BY <1>1
  <2>2. Slot(E + i) \in 0 .. MaxReliable - 1
    BY <2>1, SlotOf
  <2> QED
    BY <1>1, <2>1, <2>2 DEF TextOf, Ring
<1>7. /\ texts \in Seq(Text) /\ Len(texts) = k
      /\ \A i \in 1 .. k : texts[i] = TextOf(E + i)
  <2>1. texts \in [1 .. k -> Text]
    BY <1>6
  <2> QED
    BY <2>1, IsASeq, LenProperties
<1>8. executed \in Seq(Text) /\ executed' = executed \o texts
  BY DEF IInv
<1> HIDE DEF texts, E, S
<1>9. /\ executed' \in Seq(Text) /\ Len(executed') = Len(executed) + k
      /\ Len(executed) \in Nat
      /\ \A n \in 1 .. Len(executed) + k :
            executed'[n] = IF n <= Len(executed) THEN executed[n]
                           ELSE texts[n - Len(executed)]
  <2>1. /\ executed \o texts \in Seq(Text)
        /\ Len(executed \o texts) = Len(executed) + Len(texts)
        /\ \A n \in 1 .. Len(executed) + Len(texts) :
              (executed \o texts)[n] = IF n <= Len(executed) THEN executed[n]
                                       ELSE texts[n - Len(executed)]
    BY <1>7, <1>8, ConcatProperties
  <2> QED
    BY <1>7, <1>8, <2>1, LenProperties
<1>10. /\ Len(cl'.snapshots) <= SnapshotBackup
       /\ \A j \in 1 .. Len(cl'.snapshots) : \E l \in 1 .. Len(cl.snapshots) :
             cl'.snapshots[j] = cl.snapshots[l]
  <2>1. CASE cl'.snapshots = cl.snapshots
    BY <1>3, <2>1
  <2>2. CASE cl'.snapshots = Tail(cl.snapshots)
    <3>1. PICK f : f = cl.snapshots
      OBVIOUS
    <3>2. /\ Tail(f) \in Seq(SnapshotRead) /\ Len(Tail(f)) = Len(f) - 1
          /\ Elements(Tail(f)) \subseteq Elements(f)
      BY <1>3, <3>1, TailKeepsOrder
    <3>3. Len(Tail(f)) <= SnapshotBackup
      BY <1>3, <3>1, <3>2, ServerCommandsAssumption
    <3> QED
      BY <2>2, <3>1, <3>2, <3>3 DEF Elements
  <2> QED
    BY <2>1, <2>2
<1>11. ASSUME ~stranded
       PROVE  /\ shown' <= E + k /\ E + k <= S
              /\ \A i \in 1 .. k : E + i <= S
  <2>1. /\ shown <= E /\ E <= S
        /\ Snapshot.built = Snapshot.commandNum /\ Snapshot.commandNum <= S
    <3>1. 1 \in 1 .. Len(cl.snapshots)
      BY <1>3
    <3> QED
      BY <1>11, <3>1 DEF IInv, InStep, Snapshot, E, S
  <2>2. \A i \in 1 .. k : E + i <= Snapshot.commandNum
    BY DEF E
  <2>3. shown \in Nat
    BY InvariantParts DEF IInv, Sequence
  <2>4. E + k <= S
    <3>1. CASE k = 0
      BY <1>1, <2>1, <3>1
    <3>2. CASE k # 0
      <4>1. k \in 1 .. k
        BY <3>2
      <4>2. E + k <= Snapshot.commandNum
        BY <2>2, <4>1
      <4> QED
        BY <1>1, <1>5, <2>1, <4>2
    <3> QED
      BY <3>1, <3>2
  <2>5. shown' <= E + k
    <3>1. CASE shown' = shown
      BY <1>1, <2>1, <2>3, <3>1
    <3>2. CASE shown' = Snapshot.built /\ Snapshot.commandNum <= E + k
      BY <2>1, <3>2
    <3> QED
      BY <3>1, <3>2 DEF E
  <2>6. \A i \in 1 .. k : E + i <= S
    BY <1>1, <2>4
  <2> QED
    BY <2>4, <2>5, <2>6
<1>12. ASSUME ~stranded, ~Overflown(sv)
       PROVE  /\ Len(executed') = E + k
              /\ \A n \in 1 .. E + k : executed'[n] = log[n]
  <2>1. /\ Len(executed) = E /\ \A n \in 1 .. E : executed[n] = log[n]
        /\ \A n \in 1 .. S : n > S - MaxReliable => cl.serverCommands[Slot(n)] = log[n]
    BY <1>12 DEF IInv, ClientHasLog, E, S
  <2>2. ASSUME NEW n \in 1 .. E + k
        PROVE  executed'[n] = log[n]
    <3>1. CASE n <= E
      <4>1. n \in 1 .. Len(executed) + k /\ n \in 1 .. E
        BY <2>1, <2>2, <3>1
      <4> QED
        BY <1>9, <2>1, <3>1, <4>1
    <3>2. CASE ~(n <= E)
      <4>1. PICK i : i = n - E
        OBVIOUS
      <4>2. i \in 1 .. k /\ E + i = n /\ n \in 1 .. Len(executed) + k
        BY <1>1, <2>1, <3>2, <4>1
      <4>3. executed'[n] = TextOf(n)
        BY <1>7, <1>9, <2>1, <3>2, <4>1, <4>2
      <4>4. ~CycledOut(cl, n)
        BY <4>2 DEF E
      <4>5. n \in 1 .. S /\ n > S - MaxReliable
        <5>1. n <= S
          BY <1>11, <1>12, <4>2
        <5>2. ~(n <= S - MaxReliable)
          BY <4>4 DEF CycledOut, S
        <5> QED
          BY <1>1, <5>1, <5>2
      <4> QED
        BY <2>1, <4>3, <4>5 DEF TextOf
    <3> QED
      BY <3>1, <3>2
  <2> QED
    BY <1>9, <2>1, <2>2
<1>13. /\ path' \in PathOf(Told) /\ OnPath(path') \subseteq OnPath(path)
       /\ toServer' \in Seq(Packets) /\ shown' \in Sequence
       /\ ~stranded => /\ ~Strands(path') /\ InOrder(path', BuiltOrder)
                       /\ Sorted(toServer', AckOrder)
  BY <1>2, <1>5 DEF IInv, InStep
<1>14. /\ ~stranded => /\ shown' <= cl'.lastExecuted
                       /\ cl'.lastExecuted <= cl.serverCommandSequence
       /\ ~stranded /\ ~Overflown(sv) =>
             /\ Len(executed') = cl'.lastExecuted
             /\ \A n \in 1 .. cl'.lastExecuted : executed'[n] = log[n]
  BY <1>11, <1>12 DEF E, S
<1> QED
  BY <1>2, <1>9, <1>10, <1>13, <1>14, QuietStep

LEMMA CgActions ==
    ASSUME IInv, CgSkipSnapshot \/ CgShowSnapshot \/ CgDisconnects
    PROVE  IInv'
<1> DEFINE E == cl.lastExecuted
           N == Snapshot.commandNum
<1>1. cl.snapshots # <<>>
  BY DEF CgSkipSnapshot, CgShowSnapshot, CgDisconnects, CgProcesses
<1>2. /\ cl \in ClientHalf /\ E \in Nat /\ E \in Sequence
      /\ cl.snapshots \in Seq(SnapshotRead)
      /\ Tail(cl.snapshots) \in Seq(SnapshotRead)
      /\ MaxCommands \in Nat
  <2>1. cl \in ClientHalf /\ cl.snapshots \in Seq(SnapshotRead) /\ E \in Sequence
    BY DEF IInv, ClientHalf
  <2>2. PICK f : f = cl.snapshots
    OBVIOUS
  <2>3. Tail(f) \in Seq(SnapshotRead)
    BY <1>1, <2>1, <2>2, TailKeepsOrder
  <2> QED
    BY <2>1, <2>2, <2>3, InvariantParts
<1>3. Snapshot \in SnapshotRead
  <2>1. Len(cl.snapshots) \in Nat \ {0}
    BY <1>1, <1>2, EmptySeq, LenProperties
  <2> QED
    BY <1>2, <2>1, ElementOfSeq DEF Snapshot
<1>4. N \in Nat /\ N \in Sequence
  BY <1>2, <1>3 DEF SnapshotRead, Sequence
<1>5. Asked = E + 1 .. N
  BY DEF Asked
<1>6. CASE CgSkipSnapshot
  <2>1. /\ cl' = [cl EXCEPT !.snapshots = Tail(cl.snapshots)]
        /\ UNCHANGED <<svVars, toServer, path, gameStates, executed, shown, stranded>>
    BY <1>6 DEF CgSkipSnapshot
  <2>2. /\ cl' \in ClientHalf
        /\ cl'.serverCommandSequence = cl.serverCommandSequence
        /\ cl'.serverCommands = cl.serverCommands
        /\ cl'.snapshots = Tail(cl.snapshots)
        /\ cl'.lastExecuted = E
    BY <1>2, <2>1 DEF ClientHalf
  <2>3. PICK none : none = [i \in 1 .. 0 |-> TextOf(cl.lastExecuted + i)]
    OBVIOUS
  <2>4. none = <<>>
    BY <2>3
  <2>5. executed' = executed \o none
    BY <2>1, <2>4, ConcatEmptySeq DEF IInv
  <2>6. cl'.lastExecuted = cl.lastExecuted + 0
    BY <1>2, <2>2
  <2>7. 0 \in Nat /\ \A i \in 1 .. 0 : FALSE
    OBVIOUS
  <2> QED
    BY <1>1, <2>1, <2>2, <2>3, <2>5, <2>6, <2>7, CgStep
<1>7. CASE CgShowSnapshot
  <2>1. PICK k : k = Cardinality(Asked)
    OBVIOUS
  <2>2. k = IF E + 1 > N THEN 0 ELSE N - (E + 1) + 1
    <3> HIDE DEF E, N, Asked
    <3>1. PICK a, b : a = E + 1 /\ b = N
      OBVIOUS
    <3>2. a \in Int /\ b \in Int
      BY <1>2, <1>4, <3>1
    <3>3. Cardinality(a .. b) = IF a > b THEN 0 ELSE b - a + 1
      BY <3>2, FS_Interval
    <3> QED
      BY <1>5, <2>1, <3>1, <3>3
  <2>3. /\ k \in Nat /\ E + k \in Sequence /\ N <= E + k
        /\ \A i \in 1 .. k : E + i \in Asked /\ E + i <= N
    <3> HIDE DEF E, N, Asked
    <3>1. /\ k \in Nat /\ N <= E + k /\ E + k \in {E, N}
          /\ \A i \in 1 .. k : E + i \in E + 1 .. N /\ E + i <= N
      BY <1>2, <1>4, <2>2
    <3> QED
      BY <1>2, <1>4, <1>5, <3>1
  <2>4. /\ \A n \in Asked : ~CycledOut(cl, n)
        /\ executed' = executed \o [i \in 1 .. k |-> TextOf(cl.lastExecuted + i)]
        /\ shown' = Snapshot.built
        /\ cl' = [cl EXCEPT !.snapshots = Tail(cl.snapshots), !.inGame = TRUE,
                            !.lastExecuted = E + k]
        /\ UNCHANGED <<svVars, toServer, path, gameStates, stranded>>
    BY <1>7, <2>1 DEF CgShowSnapshot
  <2>5. /\ cl' \in ClientHalf
        /\ cl'.serverCommandSequence = cl.serverCommandSequence
        /\ cl'.serverCommands = cl.serverCommands
        /\ cl'.snapshots = Tail(cl.snapshots)
        /\ cl'.lastExecuted = cl.lastExecuted + k
    BY <1>2, <2>3, <2>4 DEF ClientHalf
  <2> QED
    BY <1>1, <2>3, <2>4, <2>5, CgStep
<1>8. CASE CgDisconnects
  <2>1. PICK n \in Asked :
          /\ \A j \in Asked : j < n => ~CycledOut(cl, j)
          /\ executed' = executed \o [i \in 1 .. n - 1 - cl.lastExecuted |->
                                         TextOf(cl.lastExecuted + i)]
          /\ cl' = [cl EXCEPT !.connected = FALSE, !.lastExecuted = n - 1]
          /\ UNCHANGED <<svVars, toServer, path, gameStates, shown, stranded>>
    BY <1>8 DEF CgDisconnects
  <2>2. PICK k : k = n - 1 - cl.lastExecuted
    OBVIOUS
  <2>3. /\ k \in Nat /\ n - 1 = cl.lastExecuted + k /\ n - 1 \in Sequence
        /\ \A i \in 1 .. k : E + i \in Asked /\ E + i <= N /\ E + i < n
    <3>1. n \in E + 1 .. N /\ k = n - 1 - E
      BY <1>5, <2>1, <2>2
    <3> HIDE DEF E, N, Asked
    <3>2. n \in Nat /\ E < n /\ n <= N
      BY <1>2, <1>4, <3>1
    <3>3. /\ k \in Nat /\ n - 1 = E + k /\ n - 1 \in 0 .. N
          /\ \A i \in 1 .. k : E + i \in E + 1 .. N /\ E + i <= N /\ E + i < n
      BY <1>2, <1>4, <3>1, <3>2
    <3>4. N <= MaxCommands + 10 /\ MaxCommands \in Nat
      BY <1>4, ServerCommandsAssumption DEF Sequence
    <3>5. n - 1 \in Sequence
      BY <1>4, <3>3, <3>4 DEF Sequence
    <3> QED
      BY <1>5, <3>3, <3>5 DEF E
  <2>4. /\ cl' \in ClientHalf
        /\ cl'.serverCommandSequence = cl.serverCommandSequence
        /\ cl'.serverCommands = cl.serverCommands
        /\ cl'.snapshots = cl.snapshots
        /\ cl'.lastExecuted = cl.lastExecuted + k
    BY <1>2, <2>1, <2>3 DEF ClientHalf
  <2>5. executed' = executed \o [i \in 1 .. k |-> TextOf(cl.lastExecuted + i)]
    BY <2>1, <2>2
  <2>6. \A i \in 1 .. k : /\ cl.lastExecuted + i <= Snapshot.commandNum
                          /\ ~CycledOut(cl, cl.lastExecuted + i)
    BY <2>1, <2>3
  <2> QED
    BY <1>1, <2>1, <2>3, <2>4, <2>5, <2>6, CgStep
<1> QED
  BY <1>6, <1>7, <1>8

(* The connection ends, a packet is written or something in flight is lost. *)
LEMMA ClDisconnectStep ==
    ASSUME IInv, ClDisconnect
    PROVE  IInv'
<1>1. /\ cl' = [cl EXCEPT !.connected = FALSE]
      /\ UNCHANGED <<sv, log, gameDrops, toServer, path, gameStates, executed, shown,
                     stranded>>
  BY DEF ClDisconnect, svVars
<1>2. /\ cl \in ClientHalf /\ Len(cl.snapshots) <= SnapshotBackup
      /\ cl.snapshots \in Seq(SnapshotRead)
      /\ path \in PathOf(Told) /\ toServer \in Seq(Packets)
      /\ executed \in Seq(Text) /\ shown \in Sequence
  BY DEF IInv, ClientHalf
<1>3. /\ cl' \in ClientHalf /\ cl'.snapshots = cl.snapshots
      /\ cl'.serverCommandSequence = cl.serverCommandSequence
      /\ cl'.serverCommands = cl.serverCommands
      /\ cl'.lastExecuted = cl.lastExecuted
  BY <1>1, <1>2 DEF ClientHalf
<1>4. ~stranded => /\ ~Strands(path') /\ InOrder(path', BuiltOrder)
                   /\ Sorted(toServer', AckOrder)
                   /\ shown' <= cl'.lastExecuted
                   /\ cl'.lastExecuted <= cl.serverCommandSequence
  BY <1>1, <1>3 DEF IInv, InStep
<1>5. ~stranded /\ ~Overflown(sv) =>
         /\ Len(executed') = cl'.lastExecuted
         /\ \A n \in 1 .. cl'.lastExecuted : executed'[n] = log[n]
  BY <1>1, <1>3 DEF IInv, ClientHasLog
<1> QED
  BY <1>1, <1>2, <1>3, <1>4, <1>5, QuietStep

(* The client's half is left alone, and so are the cgame's histories.       *)
LEMMA FlightsOnly ==
    ASSUME IInv, UNCHANGED <<sv, log, gameDrops, cl, gameStates, executed, shown, stranded>>,
           path' \in PathOf(Told), OnPath(path') \subseteq OnPath(path),
           \/ toServer' \in Seq(Packets)
           \/ \E p \in Packets : toServer' = Flying(toServer, p),
           ~stranded => /\ ~Strands(path') /\ InOrder(path', BuiltOrder)
                        /\ Sorted(toServer', AckOrder)
    PROVE  IInv'
<1>1. /\ cl \in ClientHalf /\ Len(cl.snapshots) <= SnapshotBackup
      /\ executed \in Seq(Text) /\ shown \in Sequence
  BY DEF IInv
<1>2. ~stranded => /\ ~Strands(path') /\ InOrder(path', BuiltOrder)
                   /\ Sorted(toServer', AckOrder)
                   /\ shown' <= cl'.lastExecuted
                   /\ cl'.lastExecuted <= cl.serverCommandSequence
  BY DEF IInv, InStep
<1>3. ~stranded /\ ~Overflown(sv) =>
         /\ Len(executed') = cl'.lastExecuted
         /\ \A n \in 1 .. cl'.lastExecuted : executed'[n] = log[n]
  BY DEF IInv, ClientHasLog
<1> QED
  BY <1>1, <1>2, <1>3, QuietStep

LEMMA ClWritePacketStep ==
    ASSUME IInv, ClWritePacket
    PROVE  IInv'
<1>1. PICK p : p = [ack       |-> cl.serverCommandSequence,
                    key       |-> KeyOf(cl),
                    gameState |-> cl.gameState]
  OBVIOUS
<1>2. /\ toServer' = Flying(toServer, p)
      /\ UNCHANGED <<sv, log, gameDrops, cl, path, gameStates, executed, shown, stranded>>
  BY <1>1 DEF ClWritePacket, svVars
<1>3. /\ cl \in ClientHalf /\ cl.serverCommandSequence \in Sequence
      /\ cl.serverCommandSequence \in Nat
      /\ cl.serverCommandSequence <= sv.reliableSequence
      /\ cl.serverCommands \in Ring /\ cl.gameState \in BOOLEAN
      /\ path \in PathOf(Told) /\ toServer \in Seq(Packets)
  BY InvariantParts DEF IInv, ClientHalf
<1>4. p \in Packets /\ p.ack = cl.serverCommandSequence
  <2>1. Slot(cl.serverCommandSequence) \in 0 .. MaxReliable - 1
    BY <1>3, SlotOf
  <2>2. KeyOf(cl) \in Text
    BY <1>3, <2>1 DEF KeyOf, Ring
  <2>3. /\ p \in ClientMessage /\ p.ack = cl.serverCommandSequence
        /\ p.key = KeyOf(cl)
    BY <1>1, <1>3, <2>2 DEF ClientMessage
  <2>4. ~stranded =>
           /\ sv.reliableAcknowledge <= p.ack
           /\ p.ack <= cl.serverCommandSequence
           /\ sv.reliableSequence - p.ack < MaxReliable =>
                 sv.reliableCommands[Slot(p.ack)] = p.key
    BY <1>3, <2>3 DEF IInv, InStep
  <2> QED
    BY <1>3, <2>3, <2>4 DEF Packets
<1>5. ASSUME ~stranded
      PROVE  Sorted(toServer', AckOrder)
  <2>1. ASSUME NEW q \in Elements(toServer)
        PROVE  <<q, p>> \in AckOrder
    <3>1. q \in Packets
      BY <1>3, ElementsType
    <3>2. q \in ClientMessage /\ p \in ClientMessage /\ q.ack <= p.ack
      BY <1>4, <1>5, <3>1, PacketParts
    <3> QED
      BY <3>2 DEF AckOrder
  <2>2. Before(Elements(toServer), {p}, AckOrder)
    BY <2>1 DEF Before
  <2>3. Sorted(toServer, AckOrder)
    BY <1>5 DEF IInv, InStep
  <2> QED
    BY <1>2, <1>3, <1>4, <2>2, <2>3, FlyingKeepsOrder
<1>6. ~stranded => ~Strands(path') /\ InOrder(path', BuiltOrder)
  BY <1>2 DEF IInv, InStep
<1> QED
  BY <1>2, <1>3, <1>4, <1>5, <1>6, FlightsOnly

LEMMA LoseStep ==
    ASSUME IInv, Lose
    PROVE  IInv'
<1>1. UNCHANGED <<sv, log, gameDrops, cl, gameStates, executed, shown, stranded>>
  BY DEF Lose, svVars
<1>2. /\ path \in PathOf(Told) /\ toServer \in Seq(Packets)
      /\ path.flight \in Seq(Told)
      /\ ~stranded => /\ ~Strands(path) /\ InOrder(path, BuiltOrder)
                      /\ Sorted(toServer, AckOrder)
  <2>1. path \in PathOf(Told)
    BY DEF IInv
  <2> QED
    BY <2>1, PathParts DEF IInv, InStep
<1>3. ASSUME NEW i \in DOMAIN toServer, toServer' = AfterLoss(toServer, i), path' = path
      PROVE  IInv'
  <2>1. i \in 1 .. Len(toServer)
    BY <1>2
  <2>2. /\ toServer' \in Seq(Packets)
        /\ Sorted(toServer, AckOrder) => Sorted(toServer', AckOrder)
    BY <1>2, <1>3, <2>1, LossKeepsOrder
  <2> QED
    BY <1>1, <1>2, <1>3, <2>2, FlightsOnly
<1>4. ASSUME NEW i \in DOMAIN path.flight,
             path' = [path EXCEPT !.flight = AfterLoss(path.flight, i)],
             toServer' = toServer
      PROVE  IInv'
  <2>1. i \in 1 .. Len(path.flight)
    BY <1>2
  <2>2. PICK g : g = AfterLoss(path.flight, i)
    OBVIOUS
  <2>3. /\ path' \in PathOf(Told) /\ OnPath(path') \subseteq OnPath(path)
        /\ ~stranded => ~Strands(path') /\ InOrder(path', BuiltOrder)
    BY <1>4, <2>1, <2>2, FlightStep
  <2> QED
    BY <1>1, <1>2, <1>4, <2>3, FlightsOnly
<1> QED
  BY <1>3, <1>4 DEF Lose

(* SV_SendClientMessages and SV_SendClientGameState.                        *)
LEMMA SendActions ==
    ASSUME IInv, SendFragment \/ SendSnapshot \/ SendGameState
    PROVE  IInv'
<1>1. /\ sv \in Half /\ gameStates \in 0 .. MaxGameStates /\ MaxGameStates \in Nat
      /\ sv.reliableAcknowledge <= sv.reliableSequence
  BY InvariantParts, ServerCommandsAssumption DEF IInv
<1>2. CASE SendFragment
  BY <1>1, <1>2, SendStep DEF SendFragment, svVars
<1>3. CASE SendSnapshot
  <2>1. PICK n \in SnapshotSizes :
           \E e \in {Message(sv, "snapshot", n), Cleared(Message(sv, "snapshot", n))} :
              Sends(SvTransmit(path, e, 0))
    BY <1>3 DEF SendSnapshot
  <2>2. PICK m : m = Message(sv, "snapshot", n)
    OBVIOUS
  <2>3. PICK e \in {m, Cleared(m)} : Sends(SvTransmit(path, e, 0))
    BY <2>1, <2>2
  <2>4. e \in Told /\ e.built = sv.reliableSequence
    BY <1>1, <2>1, <2>2, <2>3, MessageIsTold
  <2>5. UNCHANGED <<sv, log, gameDrops, gameStates>>
    BY <1>3 DEF SendSnapshot, svVars
  <2> QED
    BY <1>1, <2>3, <2>4, <2>5, SendStep
<1>4. CASE SendGameState
  <2>1. /\ sv.state # "zombie" /\ gameStates < MaxGameStates
        /\ sv' = [sv EXCEPT !.state = "primed"]
        /\ gameStates' = gameStates + 1
        /\ UNCHANGED <<log, gameDrops>>
    BY <1>4 DEF SendGameState
  <2>2. PICK n \in GameStateSizes : Sends(SvTransmit(path, Message(sv', "gamestate", n), 0))
    BY <1>4 DEF SendGameState
  <2>3. /\ sv' \in Half
        /\ sv'.reliableSequence = sv.reliableSequence
        /\ sv'.reliableAcknowledge = sv.reliableAcknowledge
        /\ sv'.reliableCommands = sv.reliableCommands
    BY <2>1, ServerStays
  <2>4. PICK c, m : c = sv' /\ m = Message(c, "gamestate", n)
    OBVIOUS
  <2>5. m \in Told /\ m.built = sv.reliableSequence
    BY <2>3, <2>4, MessageIsTold
  <2>6. gameStates' \in 0 .. MaxGameStates
    BY <1>1, <2>1
  <2> QED
    BY <2>1, <2>2, <2>4, <2>5, <2>6, SendStep
<1> QED
  BY <1>2, <1>3, <1>4

-----------------------------------------------------------------------------
(* The invariant. *)

LEMMA InitIsSound ==
    ASSUME Init
    PROVE  IInv
<1>1. /\ MaxReliable \in Nat \ {0} /\ SnapshotBackup \in Nat \ {0}
      /\ MaxCommands \in Nat /\ MaxGameStates \in Nat
  BY ServerCommandsAssumption
<1>2. NoCommands \in Ring /\ \A k \in Nat : NoCommands[Slot(k)] = 0
  <2>1. \A k \in Nat : Slot(k) \in 0 .. MaxReliable - 1
    BY SlotOf
  <2> QED
    BY <1>1, <2>1 DEF NoCommands, Ring, Text
<1>3. /\ sv \in Half /\ sv.state = "connected"
      /\ sv.reliableSequence = 0 /\ sv.reliableAcknowledge = 0
      /\ sv.reliableCommands = NoCommands
  BY <1>2 DEF Init, Half, States
<1>4. /\ cl \in ClientHalf /\ cl.serverCommandSequence = 0 /\ cl.lastExecuted = 0
      /\ cl.snapshots = <<>> /\ cl.serverCommands = NoCommands
  BY <1>1, <1>2 DEF Init, ClientHalf, Sequence
<1>5. ServerIsSound(Here)
  <2>1. PICK h : h = Here
    OBVIOUS
  <2>2. /\ h \in [c : Half, log : Seq(Text), gameDrops : Nat]
        /\ h.c = sv /\ h.log = <<>>
    BY <1>3, <2>1 DEF Init, Here
  <2> QED
    BY <1>3, <2>1, <2>2 DEF ServerIsSound, RingIsLog
<1>6. WindowIsBounded(sv)
  <2>1. ~(0 - 0 > MaxReliable) /\ 0 <= MaxCommands /\ 0 <= MaxCommands + 10
    BY <1>1
  <2> QED
    BY <1>3, <2>1 DEF WindowIsBounded, Overflown
<1>7. /\ toServer = <<>> /\ toServer \in Seq(Packets)
      /\ executed = <<>> /\ executed \in Seq(Text) /\ shown = 0 /\ shown \in Sequence
      /\ gameStates \in 0 .. MaxGameStates /\ stranded \in BOOLEAN
      /\ Len(cl.snapshots) <= SnapshotBackup
  <2>1. 0 <= MaxCommands + 10 /\ 0 <= MaxGameStates /\ 0 <= SnapshotBackup
    BY <1>1
  <2>2. 0 \in Sequence /\ 0 \in 0 .. MaxGameStates /\ Len(cl.snapshots) = 0
    BY <1>1, <1>4, <2>1 DEF Sequence
  <2>3. /\ toServer = <<>> /\ executed = <<>> /\ shown = 0 /\ gameStates = 0
        /\ stranded = FALSE
    BY DEF Init
  <2>4. toServer \in Seq(Packets) /\ executed \in Seq(Text)
    BY <2>3
  <2> QED
    BY <2>1, <2>2, <2>3, <2>4
<1>8. /\ path \in PathOf(Told) /\ path.flight = <<>> /\ path.current = <<>>
      /\ path.queue = <<>>
  BY DEF Init, IdlePath, PathOf
<1>9. InStep
  <2>1. KeyOf(cl) = 0
    BY <1>2, <1>4 DEF KeyOf
  <2>2. sv.reliableCommands[Slot(cl.serverCommandSequence)] = 0
    BY <1>2, <1>3, <1>4
  <2>3. InOrder(path, BuiltOrder) /\ Sorted(toServer, AckOrder) /\ ~Strands(path)
    BY <1>7, <1>8 DEF InOrder, Sorted, Before, Elements, Strands
  <2> QED
    BY <1>3, <1>4, <1>7, <2>1, <2>2, <2>3 DEF InStep
<1>10. ClientHasLog
  BY <1>4, <1>7 DEF ClientHasLog
<1> QED
  BY <1>3, <1>4, <1>5, <1>6, <1>7, <1>8, <1>9, <1>10 DEF IInv

LEMMA NextIsSound ==
    ASSUME IInv, [Next]_vars
    PROVE  IInv'
<1>1. ASSUME NEW i \in DOMAIN path.flight, ClReceive(i)
      PROVE  IInv'
  <2>1. path \in PathOf(Told)
    BY DEF IInv
  <2>2. i \in 1 .. Len(path.flight)
    BY <2>1, PathParts
  <2> QED
    BY <1>1, <2>2, ReceiveStep
<1>2. ASSUME NEW i \in DOMAIN toServer, SvReceive(i)
      PROVE  IInv'
  <2>1. toServer \in Seq(Packets)
    BY DEF IInv
  <2>2. i \in 1 .. Len(toServer)
    BY <2>1
  <2> QED
    BY <1>2, <2>2, SvReceiveStep
<1>3. CASE SvAddCommand \/ SvDropClient
  BY <1>3, AddStep
<1>4. CASE SendFragment \/ SendSnapshot \/ SendGameState
  BY <1>4, SendActions
<1>5. CASE ClDisconnect \/ ClWritePacket \/ Lose
  BY <1>5, ClDisconnectStep, ClWritePacketStep, LoseStep
<1>6. CASE CgSkipSnapshot \/ CgShowSnapshot \/ CgDisconnects
  BY <1>6, CgActions
<1>7. CASE UNCHANGED vars
  <2>1. UNCHANGED <<sv, log, gameDrops, cl, toServer, path, gameStates, executed, shown,
                    stranded>>
    BY <1>7 DEF vars, svVars
  <2>2. /\ path \in PathOf(Told) /\ toServer \in Seq(Packets)
        /\ ~stranded => /\ ~Strands(path) /\ InOrder(path, BuiltOrder)
                        /\ Sorted(toServer, AckOrder)
    BY DEF IInv, InStep
  <2> QED
    BY <2>1, <2>2, FlightsOnly
<1> QED
  BY <1>1, <1>2, <1>3, <1>4, <1>5, <1>6, <1>7 DEF Next

LEMMA Invariance == Spec => []IInv
<1> QED
  BY InitIsSound, NextIsSound, PTL DEF Spec

-----------------------------------------------------------------------------
(* The variables keep their types: no more than ten commands are added      *)
(* past the bound, whatever overflows while a client is dropped             *)
(* (sv_main.c:132-168, sv_client.c:413-481).                                *)
THEOREM TypeCorrect == Spec => []TypeOK
<1>1. ASSUME IInv
      PROVE  TypeOK
  <2>1. /\ path \in PathOf(Told) /\ toServer \in Seq(Packets)
        /\ cl \in ClientHalf /\ Len(cl.snapshots) <= SnapshotBackup
        /\ gameStates \in 0 .. MaxGameStates
        /\ executed \in Seq(Text) /\ shown \in Sequence /\ stranded \in BOOLEAN
    BY <1>1 DEF IInv
  <2>2. toServer \in Seq(ClientMessage)
    <3>1. Packets \subseteq ClientMessage
      BY DEF Packets
    <3> QED
      BY <2>1, <3>1, SequenceOfMore
  <2>3. path \in PathOf(ServerMessage)
    <3>1. Told \subseteq ServerMessage
      BY DEF Told
    <3> QED
      BY <2>1, <3>1, PathOfMore
  <2>4. /\ path.left \in Nat /\ path.current \in Seq(ServerMessage)
        /\ path.queue \in Seq(ServerMessage) /\ path.flight \in Seq(ServerMessage)
    BY <2>3, PathParts
  <2>5. (path.left > 0) = (Len(path.current) = 1)
    BY <2>3, <2>4 DEF PathOf
  <2>6. sv \in ServerHalf
    <3>1. /\ sv \in Half /\ sv.reliableSequence \in Sequence
          /\ sv.reliableAcknowledge \in Nat
          /\ sv.reliableAcknowledge <= sv.reliableSequence
      BY <1>1, InvariantParts
    <3>2. sv.reliableAcknowledge \in Sequence
      BY <3>1, ServerCommandsAssumption DEF Sequence
    <3> QED
      BY <3>1, <3>2 DEF Half, States, ServerHalf
  <2>7. log \in Seq(Text) /\ gameDrops \in Nat
    BY <1>1, InvariantParts
  <2> QED
    BY <2>1, <2>2, <2>4, <2>5, <2>6, <2>7 DEF TypeOK
<1> QED
  BY <1>1, Invariance, PTL

(* What the server takes for acknowledged is stored by the client           *)
(* (sv_client.c:1685-1698), for every ring and any loss of messages.        *)
THEOREM AcknowledgedStored == Spec => []AcknowledgedIsStored
<1>1. IInv => AcknowledgedIsStored
  BY DEF IInv, InStep, AcknowledgedIsStored
<1> QED
  BY <1>1, Invariance, PTL

(* A snapshot is shown after the commands that were added before it was     *)
(* built (sv_main.c:135-136).                                               *)
THEOREM ShownAfter == Spec => []ShownAfterItsCommands
<1>1. IInv => ShownAfterItsCommands
  BY DEF IInv, InStep, ShownAfterItsCommands
<1> QED
  BY <1>1, Invariance, PTL

(* The cgame executes the commands the server added, each once, in order    *)
(* and with its own text (cl_parse.c:802-818, cl_cgame.c:266-288,           *)
(* cg_servercmds.c:1184-1190), however small the rings are.                 *)
THEOREM ExecutedInOrder == Spec => []ExecutedAsAdded
<1>1. ASSUME IInv
      PROVE  ExecutedAsAdded
  <2> SUFFICES ASSUME ~Overflowed, ~stranded
               PROVE  /\ Len(executed) = cl.lastExecuted
                      /\ cl.lastExecuted <= Len(log)
                      /\ executed = SubSeq(log, 1, Len(executed))
    BY DEF ExecutedAsAdded
  <2>1. ~Overflown(sv)
    BY DEF Overflown, Overflowed
  <2>2. /\ executed \in Seq(Text) /\ Len(executed) = cl.lastExecuted
        /\ \A n \in 1 .. cl.lastExecuted : executed[n] = log[n]
        /\ cl.lastExecuted <= cl.serverCommandSequence
    BY <1>1, <2>1 DEF IInv, InStep, ClientHasLog
  <2>3. /\ log \in Seq(Text) /\ Len(log) \in Nat /\ cl.lastExecuted \in Nat
        /\ cl.lastExecuted <= Len(log)
    <3>1. /\ log \in Seq(Text) /\ Len(log) = sv.reliableSequence
          /\ sv.reliableSequence \in Nat /\ cl.lastExecuted \in Nat
          /\ cl.serverCommandSequence \in Nat
          /\ cl.serverCommandSequence <= sv.reliableSequence
      BY <1>1, InvariantParts
    <3> QED
      BY <2>2, <3>1
  <2>4. PICK t, k : t = SubSeq(log, 1, k) /\ k = cl.lastExecuted
    OBVIOUS
  <2>5. t \in Seq(Text) /\ Len(t) = k /\ \A n \in 1 .. k : t[n] = log[n]
    <3>1. k \in Nat /\ k <= Len(log)
      BY <2>3, <2>4
    <3> QED
      BY <2>3, <2>4, <3>1
  <2>6. executed = t
    BY <2>2, <2>4, <2>5, SeqEqual
  <2> QED
    BY <2>2, <2>3, <2>4, <2>6
<1> QED
  BY <1>1, Invariance, PTL

(* "modify the key with the last sent and acknowledged server command"      *)
(* (sv_net_chan.c:116): both ends find the same text for it.                *)
THEOREM PacketsAreDecoded == Spec => []PacketsDecode
<1>1. ASSUME IInv
      PROVE  PacketsDecode
  <2> SUFFICES ASSUME ~stranded, NEW i \in DOMAIN toServer,
                      sv.reliableSequence - toServer[i].ack < MaxReliable
               PROVE  Decodes(sv, toServer[i])
    BY DEF PacketsDecode
  <2>1. toServer \in Seq(Packets)
    BY <1>1 DEF IInv
  <2>2. toServer[i] \in Packets
    BY <2>1, ElementOfSeq
  <2> QED
    BY <1>1, <2>2, PacketParts DEF Decodes
<1> QED
  BY <1>1, Invariance, PTL
=============================================================================
