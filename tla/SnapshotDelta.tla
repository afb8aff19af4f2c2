--------------------------- MODULE SnapshotDelta ---------------------------
(***************************************************************************)
(* Snapshots of one client, delta compressed against an earlier snapshot   *)
(* that the client has acknowledged.  Each end keeps its frames in a ring  *)
(* indexed by the message number, and the entities of those frames in      *)
(* another ring: the server's is shared by all clients, and the client     *)
(* reads the base from its own while it writes the new snapshot to it.     *)
(* sv_snapshot.c, cl_parse.c and cl_cgame.c, with the gamestates that      *)
(* clear the client's half, and a map change that clears the server's.     *)
(*                                                                         *)
(* The state of an entity is a number that tells its versions apart: the   *)
(* message that last changed it, 0 for one that never changes, and -m for  *)
(* its baseline in map m.  A delta says which version it was taken from;   *)
(* read from any other, it gives Garbled.                                  *)
(*                                                                         *)
(* Messages arrive in the order they were sent, if at all (NetChan): one   *)
(* that is never received, or is received after a later one, is lost.  The *)
(* queue of the send path, map_restart, pure servers and clients that are  *)
(* dropped are left to other modules.                                      *)
(***************************************************************************)
EXTENDS SendPath, Integers, FiniteSets

CONSTANTS
    Garbled,              \* a version that a wrong base has produced
    Backup,               \* PACKET_BACKUP: frames kept at each end
    DeltaMargin,          \* the 3 in PACKET_BACKUP - 3
    NumSnapshotEntities,  \* svs.numSnapshotEntities
    MaxParseEntities,     \* MAX_PARSE_ENTITIES
    ParseMargin,          \* the 128 in MAX_PARSE_ENTITIES-128
    EndOfEntities,        \* MAX_GENTITIES-1, which ends a snapshot's entities
    MaxEntitiesInSnapshot, \* MAX_ENTITIES_IN_SNAPSHOT: given to the cgame
    Views,                \* sets of entities the client may see at once
    Unchanging,           \* entities whose state never changes
    MaxSequence,          \* bound of the model: messages the server sends
    MaxSpawns,            \* bound of the model: map changes
    MaxEvents             \* bound of the model: map changes and other
                          \* clients' snapshots

ASSUME SnapshotDeltaAssumption ==
    /\ {Backup, DeltaMargin, NumSnapshotEntities, MaxParseEntities, ParseMargin}
          \subseteq Nat \ {0}
    /\ DeltaMargin < Backup
    /\ {EndOfEntities, MaxEntitiesInSnapshot} \subseteq Nat \ {0}
    /\ \A view \in Views : view \subseteq 1 .. EndOfEntities - 1
    /\ MaxSequence \in Nat \ {0} /\ {MaxSpawns, MaxEvents} \subseteq Nat

VARIABLES
    sv,        \* client_t and svs: frames, deltaMessage, snapshotEntities
    cl,        \* cl and clc: snapshots, parseEntities
    toServer,  \* client packets in flight, the oldest first
    toClient,  \* server messages in flight, the oldest first
    events     \* map changes and other clients' snapshots so far

vars == <<sv, cl, toServer, toClient, events>>

Slot(n) == n % Backup
SvSlot(n) == n % NumSnapshotEntities
ClSlot(n) == n % MaxParseEntities

Versions == (-MaxSpawns - 1 .. MaxSequence) \cup {Garbled}
Entity == [number : Nat, version : Versions]
NoEntity == [number |-> 0, version |-> 0]
Blank(size) == [k \in 0 .. size - 1 |-> NoEntity]

ServerFrame == [ps : 0 .. MaxSequence, first : Nat, count : Nat]
NoServerFrame == [ps |-> 0, first |-> 0, count |-> 0]

ServerHalf == [state         : {"connected", "primed", "active"},
               map           : 1 .. MaxSpawns + 1,
               outgoing      : 1 .. MaxSequence + 1,
               deltaMessage  : -1 .. MaxSequence,
               gameStateNum  : -1 .. MaxSequence,
               frames        : [0 .. Backup - 1 -> ServerFrame],
               entities      : [0 .. NumSnapshotEntities - 1 -> Entity],
               next          : Nat]

(* entities is what the server had put in the snapshot, for the properties. *)
ClientFrame == [valid      : BOOLEAN,
                messageNum : 0 .. MaxSequence,
                active     : BOOLEAN,
                ps         : (0 .. MaxSequence) \cup {Garbled},
                start      : Nat,
                count      : Nat,
                entities   : Seq(Entity)]
NoClientFrame == [valid |-> FALSE, messageNum |-> 0, active |-> FALSE, ps |-> 0,
                  start |-> 0, count |-> 0, entities |-> <<>>]

ClientHalf == [map        : 1 .. MaxSpawns + 1,
               sequence   : 1 .. MaxSequence,
               snap       : 0 .. MaxSequence,
               snapshots  : [0 .. Backup - 1 -> ClientFrame],
               entities   : [0 .. MaxParseEntities - 1 -> Entity],
               next       : Nat]

Change == [number : Nat \ {0}, kind : {"update", "remove"},
           from : Versions, to : Versions]

ServerMessage == [kind      : {"snapshot", "gamestate"},
                  sequence  : 1 .. MaxSequence,
                  map       : 1 .. MaxSpawns + 1,
                  active    : BOOLEAN,
                  delta     : 0 .. Backup,
                  psFrom    : 0 .. MaxSequence,
                  changes   : Seq(Change),
                  entities  : Seq(Entity)]

ClientMessage == [map : 1 .. MaxSpawns + 1, ack : 1 .. MaxSequence,
                  delta : BOOLEAN]

TypeOK ==
    /\ sv \in ServerHalf
    /\ cl \in ClientHalf
    /\ toServer \in Seq(ClientMessage)
    /\ toClient \in Seq(ServerMessage)
    /\ Len(toServer) <= MaxInFlight /\ Len(toClient) <= MaxInFlight
    /\ events \in 0 .. MaxEvents

(* The client has just received its first gamestate, which was message 1.   *)
Init ==
    /\ sv = [state        |-> "primed",
             map          |-> 1,
             outgoing     |-> 2,
             deltaMessage |-> -1,
             gameStateNum |-> 1,
             frames       |-> [k \in 0 .. Backup - 1 |-> NoServerFrame],
             entities     |-> Blank(NumSnapshotEntities),
             next         |-> 0]
    /\ cl = [map       |-> 1,
             sequence  |-> 1,
             snap      |-> 0,
             snapshots |-> [k \in 0 .. Backup - 1 |-> NoClientFrame],
             entities  |-> Blank(MaxParseEntities),
             next      |-> 0]
    /\ toServer = <<>>
    /\ toClient = <<>>
    /\ events = 0

-----------------------------------------------------------------------------
(* The server builds and writes a snapshot. *)

(* Numbers in their order, each once. *)
Ascending(S) ==
    CHOOSE s \in [1 .. Cardinality(S) -> S] :
        /\ \A n \in S : \E i \in DOMAIN s : s[i] = n
        /\ \A i, j \in DOMAIN s : i < j => s[i] < s[j]

(* The entities of a view, by number, in their state at message n. *)
Seen(view, n) ==
    LET numbers == Ascending(view)
    IN  [i \in DOMAIN numbers |->
            [number  |-> numbers[i],
             version |-> IF numbers[i] \in Unchanging THEN 0 ELSE n]]

(* Entities put into the shared ring. *)
Copied(s, seen) ==
    [s EXCEPT !.next = @ + Len(seen),
              !.entities = [k \in DOMAIN @ |->
                  IF \E i \in DOMAIN seen : SvSlot(s.next + i - 1) = k
                  THEN seen[CHOOSE i \in DOMAIN seen :
                              /\ SvSlot(s.next + i - 1) = k
                              /\ \A j \in i + 1 .. Len(seen) :
                                    SvSlot(s.next + j - 1) # k]
                  ELSE @[k]]]

(* SV_BuildClientSnapshot, for a client that is not a zombie. *)
Built(s, seen) ==
    [Copied(s, seen) EXCEPT
        !.frames[Slot(s.outgoing)] =
            [ps |-> s.outgoing, first |-> s.next, count |-> Len(seen)]]

(* Seeded fault: a frame counts as held after a turn of the ring. *)
OutOfDateLate(s) == s.outgoing - s.deltaMessage >= Backup + 2

(* "client hasn't gotten a good message through in a long time" *)
OutOfDate(s) == s.outgoing - s.deltaMessage >= Backup - DeltaMargin

BaseFrame(s) == s.frames[Slot(s.deltaMessage)]

(* Seeded fault: the ring is taken for twice its size. *)
RolledOffLate(s) == BaseFrame(s).first <= s.next - 2 * NumSnapshotEntities

(* "the snapshot's entities may still have rolled off the buffer" *)
RolledOff(s) == BaseFrame(s).first <= s.next - NumSnapshotEntities

UsesDelta(s) ==
    /\ s.deltaMessage > 0
    /\ s.state = "active"
    /\ ~OutOfDate(s)
    /\ ~RolledOff(s)

(* The entities of the base, as the ring has them now. *)
BaseEntities(s) ==
    IF UsesDelta(s)
    THEN [i \in 1 .. BaseFrame(s).count |->
             s.entities[SvSlot(BaseFrame(s).first + i - 1)]]
    ELSE <<>>

HasNumber(entities, n) == \E i \in DOMAIN entities : entities[i].number = n
WithNumber(entities, n) ==
    entities[CHOOSE i \in DOMAIN entities : entities[i].number = n]

(* SV_EmitPacketEntities: an entity that is new is sent from its baseline,  *)
(* one that has gone is removed, one that has not changed is not mentioned. *)
IsMentioned(old, new, n) ==
    \/ HasNumber(old, n) # HasNumber(new, n)
    \/ HasNumber(old, n) /\ WithNumber(old, n) # WithNumber(new, n)

ChangeOf(old, new, map, n) ==
    LET from == IF HasNumber(old, n) THEN WithNumber(old, n).version ELSE -map
    IN  IF HasNumber(new, n)
        THEN [number |-> n, kind |-> "update",
              from |-> from, to |-> WithNumber(new, n).version]
        ELSE [number |-> n, kind |-> "remove", from |-> from, to |-> 0]

Changes(old, new, map) ==
    LET numbers == Ascending({n \in 1 .. EndOfEntities - 1 : IsMentioned(old, new, n)})
    IN  [i \in DOMAIN numbers |-> ChangeOf(old, new, map, numbers[i])]

(* SV_WriteSnapshotToClient, for s with the new frame built. *)
Snapshot(s, seen) ==
    [kind     |-> "snapshot",
     sequence |-> s.outgoing,
     map      |-> s.map,
     active   |-> s.state = "active",
     delta    |-> IF UsesDelta(s) THEN s.outgoing - s.deltaMessage ELSE 0,
     psFrom   |-> IF UsesDelta(s) THEN BaseFrame(s).ps ELSE 0,
     changes  |-> Changes(BaseEntities(s), seen, s.map),
     entities |-> seen]

GameState(s) ==
    [kind |-> "gamestate", sequence |-> s.outgoing, map |-> s.map,
     active |-> FALSE, delta |-> 0, psFrom |-> 0, changes |-> <<>>,
     entities |-> <<>>]

CanSend == sv.outgoing <= MaxSequence

Sends(s, m) ==
    /\ toClient' = Flying(toClient, m)
    /\ sv' = [s EXCEPT !.outgoing = @ + 1]

(* SV_SendClientSnapshot *)
SvSendSnapshot ==
    /\ CanSend
    /\ \E view \in Views :
          LET seen == Seen(view, sv.outgoing)
              built == Built(sv, seen)
          IN  Sends(built, Snapshot(built, seen))
    /\ UNCHANGED <<cl, toServer, events>>

(* SV_BuildClientSnapshot for another client uses up the shared ring. *)
SvBuildForOther ==
    /\ events < MaxEvents
    /\ events' = events + 1
    /\ \E view \in Views :
          sv' = Copied(sv, [i \in 1 .. Cardinality(view) |-> NoEntity])
    /\ UNCHANGED <<cl, toServer, toClient>>

(* SV_SpawnServer: a new ring, new baselines and a new serverId; what the   *)
(* client_t says of frames and deltas stays.                                *)
SvSpawnServer ==
    /\ sv.map <= MaxSpawns
    /\ events < MaxEvents
    /\ events' = events + 1
    /\ sv' = [sv EXCEPT !.state = "connected",
                        !.map = @ + 1,
                        !.entities = Blank(NumSnapshotEntities),
                        !.next = 0]
    /\ UNCHANGED <<cl, toServer, toClient>>

-----------------------------------------------------------------------------
(* The client. *)

BaseOf(c, m) == c.snapshots[Slot(m.sequence - m.delta)]

(* CL_ParseSnapshot: "Delta from invalid frame", "Delta frame too old" and  *)
(* "Delta parseEntitiesNum too old".                                        *)
BaseUsable(c, m) ==
    \/ m.delta = 0
    \/ /\ BaseOf(c, m).valid
       /\ BaseOf(c, m).messageNum = m.sequence - m.delta
       /\ c.next - BaseOf(c, m).start <= MaxParseEntities - ParseMargin

(* What the base reads behind its last entity: 99999, past every number.    *)
BehindLast == EndOfEntities + 1

(* How far CL_ParsePacketEntities has come: base entity i is the next one,  *)
(* and number is what was read as its number.                               *)
Merging(c, base, i) ==
    [entities |-> c.entities, next |-> c.next, i |-> i,
     number |-> IF i < base.count
                THEN c.entities[ClSlot(base.start + i)].number ELSE BehindLast]

Advanced(g, base) == Merging(g, base, g.i + 1)

(* CL_DeltaEntity: an entity with the number that ends a snapshot's         *)
(* entities has been removed; it is written to the ring, but not counted.   *)
Written(g, entity) ==
    [g EXCEPT !.entities[ClSlot(g.next)] = entity,
              !.next = IF entity.number = EndOfEntities THEN @ ELSE @ + 1]

(* What MSG_ReadDeltaEntity makes of an entity that is removed. *)
Gone == [number |-> EndOfEntities, version |-> 0]

Erased(g) == Written(g, Gone)

(* MSG_ReadDeltaEntity, from an entity of the given version. *)
Applied(g, change, version) ==
    IF change.kind = "remove" THEN Erased(g)
    ELSE Written(g, [number  |-> change.number,
                     version |-> IF version = change.from THEN change.to
                                 ELSE Garbled])

Current(g, base) == g.entities[ClSlot(base.start + g.i)]

(* Base entities below n that the message does not mention are copied; the  *)
(* step is repeated until the base is past n.                               *)
CopyNext(g, base, n) ==
    IF g.number >= n THEN g
    ELSE Advanced(Written(g, Current(g, base)), base)

CopiedBelow(g, base, n) ==
    LET after[k \in 0 .. base.count] ==
            IF k = 0 THEN g ELSE CopyNext(after[k - 1], base, n)
    IN  after[base.count]

(* One entity of the message: a delta from the base, or from the baseline   *)
(* of the map the client has the gamestate of.                              *)
ChangeRead(g, base, change, map) ==
    LET h == CopiedBelow(g, base, change.number)
    IN  IF h.number = change.number
        THEN Advanced(Applied(h, change, Current(h, base).version), base)
        ELSE Applied(h, change, -map)

(* CL_ParsePacketEntities *)
PacketEntities(c, base, m) ==
    LET after[k \in 0 .. Len(m.changes)] ==
            IF k = 0 THEN Merging(c, base, 0)
            ELSE ChangeRead(after[k - 1], base, m.changes[k], c.map)
    IN  CopiedBelow(after[Len(m.changes)], base, BehindLast)

(* Seeded fault: the last of the dropped messages is forgotten. *)
SkippedButLast(c, m) == c.snap + 1 .. m.sequence - 2

(* The messages between the last snapshot and this one, a turn of the ring  *)
(* at most.                                                                 *)
Skipped(c, m) ==
    LET first == IF m.sequence - (c.snap + 1) >= Backup
                 THEN m.sequence - (Backup - 1) ELSE c.snap + 1
    IN  first .. m.sequence - 1

(* CL_ParseSnapshot.  The entities of an invalid snapshot are parsed too,   *)
(* and take up the ring.                                                    *)
AfterSnapshot(c, m) ==
    LET base == IF m.delta = 0 THEN NoClientFrame ELSE BaseOf(c, m)
        merged == PacketEntities(c, base, m)
        parsed == [c EXCEPT !.entities = merged.entities, !.next = merged.next,
                            !.sequence = m.sequence]
        frame == [valid      |-> TRUE,
                  messageNum |-> m.sequence,
                  active     |-> m.active,
                  ps         |-> IF base.ps = m.psFrom THEN m.sequence ELSE Garbled,
                  start      |-> c.next,
                  count      |-> merged.next - c.next,
                  entities   |-> m.entities]
    IN  IF ~BaseUsable(c, m) THEN parsed
        ELSE [parsed EXCEPT
                !.snap = m.sequence,
                !.snapshots = [k \in DOMAIN @ |->
                    IF k = Slot(m.sequence) THEN frame
                    ELSE IF \E n \in Skipped(c, m) : Slot(n) = k
                         THEN [@[k] EXCEPT !.valid = FALSE]
                         ELSE @[k]]]

(* CL_ParseGamestate: CL_ClearState wipes cl. *)
AfterGameState(c, m) ==
    [map |-> m.map, sequence |-> m.sequence, snap |-> 0,
     snapshots |-> [k \in DOMAIN c.snapshots |-> NoClientFrame],
     entities |-> Blank(MaxParseEntities), next |-> 0]

ClReceive(i) ==
    LET m == toClient[i]
    IN  /\ toClient' = AfterArrival(toClient, i)
        /\ cl' = IF m.kind = "gamestate" THEN AfterGameState(cl, m)
                 ELSE AfterSnapshot(cl, m)
        /\ UNCHANGED <<sv, toServer, events>>

(* Seeded fault: the last valid snapshot is asked for, whatever came since. *)
WantsDeltaFromLast(c) == c.snap # 0

(* A delta is asked for when the last message was a valid snapshot.         *)
WantsDelta(c) == c.snap # 0 /\ c.sequence = c.snap

(* CL_WritePacket.  Packets without moves, of a client that still loads the *)
(* map, change nothing at the server.                                       *)
ClWritePacket ==
    /\ toServer' = Flying(toServer,
          [map   |-> cl.map,
           ack   |-> cl.sequence,
           delta |-> WantsDelta(cl)])
    /\ UNCHANGED <<sv, cl, toClient, events>>

-----------------------------------------------------------------------------
(* The server reads a client packet. *)

(* SV_UserMove, with SV_ClientEnterWorld for the first move. *)
AfterMove(s, p) ==
    [s EXCEPT !.state = "active",
              !.deltaMessage = IF s.state = "active" /\ p.delta
                               THEN p.ack ELSE -1]

(* SV_ExecuteClientMessage.  A packet for an earlier map has the gamestate  *)
(* sent again, unless the client may still get the last one.                *)
SvReceive(i) ==
    LET p == toServer[i]
        current == p.map = sv.map
        missed == p.ack > sv.gameStateNum
        primed == [sv EXCEPT !.state = "primed", !.gameStateNum = sv.outgoing]
    IN  /\ toServer' = AfterArrival(toServer, i)
        /\ \/ /\ ~current /\ missed
              /\ CanSend
              /\ Sends(primed, GameState(primed))
           \/ /\ current \/ ~missed
              /\ sv' = IF current THEN AfterMove(sv, p) ELSE sv
              /\ UNCHANGED toClient
        /\ UNCHANGED <<cl, events>>

Next ==
    \/ SvSendSnapshot
    \/ SvBuildForOther
    \/ SvSpawnServer
    \/ \E i \in DOMAIN toClient : ClReceive(i)
    \/ ClWritePacket
    \/ \E i \in DOMAIN toServer : SvReceive(i)

Spec == Init /\ [][Next]_vars

-----------------------------------------------------------------------------
(* CL_GetSnapshot gives the frame: it is valid and its entities are still   *)
(* in the ring.                                                             *)
Readable(frame) ==
    frame.valid /\ cl.next - frame.start < MaxParseEntities

(* Of more than MAX_ENTITIES_IN_SNAPSHOT entities the cgame gets the first. *)
EntitiesRead(frame) ==
    LET count == IF frame.count > MaxEntitiesInSnapshot
                 THEN MaxEntitiesInSnapshot ELSE frame.count
    IN  [i \in 1 .. count |-> cl.entities[ClSlot(frame.start + i - 1)]]

Truncated(entities) ==
    IF Len(entities) > MaxEntitiesInSnapshot
    THEN SubSeq(entities, 1, MaxEntitiesInSnapshot) ELSE entities

(* What the cgame is given is what the server saw, up to its limit of       *)
(* entities: the player and the first MAX_ENTITIES_IN_SNAPSHOT entities of  *)
(* every snapshot built for an active client come out of the deltas intact, *)
(* after losses, gamestates and map changes and although all four rings are *)
(* reused (sv_snapshot.c:122-208, cl_parse.c:203-325, cl_cgame.c:120-166);  *)
(* the entities past the limit are missing, those with the highest numbers. *)
(* This holds while no snapshot has more than ParseMargin entities that its *)
(* base has not: the client reads the base while it overwrites it.          *)
ActiveSnapshotsAsBuilt ==
    \A k \in DOMAIN cl.snapshots :
        LET frame == cl.snapshots[k]
        IN  Readable(frame) /\ frame.active =>
                /\ frame.ps = frame.messageNum
                /\ EntitiesRead(frame) = Truncated(frame.entities)

(* "Delta from invalid frame (not supposed to happen!)" (cl_parse.c:249-255): *)
(* the client still has the base of every delta on its way, whatever else    *)
(* is lost or comes before it.                                               *)
BaseIsHeld ==
    \A i \in DOMAIN toClient :
        LET m == toClient[i]
        IN  m.delta # 0 /\ m.map = cl.map =>
                /\ BaseOf(cl, m).valid
                /\ BaseOf(cl, m).messageNum = m.sequence - m.delta

(* "so if there was a dropped packet it won't look like something valid"     *)
(* (cl_parse.c:292-303): asked for a snapshot by its number, CL_GetSnapshot  *)
(* gives that one or none, although invalid snapshots, gamestates and losses *)
(* leave slots untouched.                                                    *)
SlotsHoldTheirNumber ==
    \A n \in 1 .. cl.snap :
        LET frame == cl.snapshots[Slot(n)]
        IN  cl.snap - n < Backup /\ frame.valid => frame.messageNum = n
=============================================================================
