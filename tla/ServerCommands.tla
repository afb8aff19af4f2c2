--------------------------- MODULE ServerCommands ---------------------------
(***************************************************************************)
(* Reliable commands from the server to one client: SV_AddServerCommand    *)
(* puts them in a ring, every server message repeats the ones that are not *)
(* acknowledged, the client stores them in a ring of its own, and the      *)
(* cgame executes the ones that came before a snapshot when it moves on to *)
(* that snapshot.  Every client packet acknowledges the last one stored.   *)
(*                                                                         *)
(* A command's text is its number, or one of the three texts a drop adds;  *)
(* 0 is the empty string.  A server message whose body the client cannot   *)
(* decode (see ClientCommands) counts as lost here, or disconnects.        *)
(***************************************************************************)
EXTENDS SendPath, Integers, FiniteSets, FiniteSetsExt

CONSTANTS
    MaxReliable,     \* MAX_RELIABLE_COMMANDS
    SnapshotBackup,  \* snapshots the client keeps for the cgame
    Dropped,         \* the text of the print SV_DropClient broadcasts
    PlayerGone,      \* a configstring the game changes for a lost player
    Disconnect,      \* the text of the disconnect command
    SnapshotSizes,   \* datagrams a snapshot may take
    GameStateSizes,  \* datagrams a gamestate may take
    GameChanges,     \* configstrings the game may change for a lost player
    MaxCommands,     \* bound of the model: commands added before a drop
    MaxGameStates    \* bound of the model: gamestates sent to the client

ASSUME ServerCommandsAssumption ==
    /\ MaxReliable \in Nat \ {0}
    /\ SnapshotBackup \in Nat \ {0}
    /\ {Dropped, PlayerGone, Disconnect} \cap Nat = {}
    /\ SnapshotSizes \subseteq Nat \ {0}
    /\ GameStateSizes \subseteq Nat \ {0}
    /\ GameChanges \subseteq 0 .. 3
    /\ MaxCommands \in Nat
    /\ MaxGameStates \in Nat

VARIABLES
    sv,         \* client_t: state, reliableSequence, -Acknowledge, -Commands
    cl,         \* clc and cl: what the client has stored and executed
    toServer,   \* client packets in flight, the oldest first
    path,       \* the server's send path and its messages in flight
    gameStates, \* gamestates sent so far
    log,        \* history: log[n] is the text added as command n
    executed,   \* history: the texts the cgame executed
    shown,      \* history: reliableSequence when the shown snapshot was built
    gameDrops,  \* history: GAME_CLIENT_DISCONNECT calls for the client
    stranded    \* history: the send queue was stranded once

svVars == <<sv, log, gameDrops>>
vars == <<svVars, cl, toServer, path, gameStates, executed, shown, stranded>>

Slot(n) == n % MaxReliable

Text == (0 .. MaxCommands) \cup {Dropped, PlayerGone, Disconnect}
Sequence == 0 .. MaxCommands + 10
Ring == [0 .. MaxReliable - 1 -> Text]

ServerHalf == [state               : {"connected", "primed", "active", "zombie"},
               reliableSequence    : Sequence,
               reliableAcknowledge : Sequence,
               reliableCommands    : Ring]

SnapshotRead == [commandNum : Sequence, built : Sequence, active : BOOLEAN]

ClientHalf == [connected             : BOOLEAN,
               gameState             : BOOLEAN,
               serverCommandSequence : Sequence,
               serverCommands        : Ring,
               lastExecuted          : Sequence,
               inGame                : BOOLEAN,
               snapshots             : Seq(SnapshotRead)]

ServerMessage == [kind      : {"snapshot", "gamestate", "cleared"},
                  first     : Nat \ {0},
                  texts     : Seq(Text),
                  built     : Sequence,
                  active    : BOOLEAN,
                  datagrams : SnapshotSizes \cup GameStateSizes \cup {1},
                  key       : {0}]

ClientMessage == [ack : Sequence, key : Text, gameState : BOOLEAN]

TypeOK ==
    /\ sv \in ServerHalf
    /\ cl \in ClientHalf
    /\ Len(cl.snapshots) <= SnapshotBackup
    /\ toServer \in Seq(ClientMessage)
    /\ path.left \in Nat
    /\ \A s \in {path.current, path.queue, path.flight} : s \in Seq(ServerMessage)
    /\ (path.left > 0) = (Len(path.current) = 1)
    /\ gameStates \in 0 .. MaxGameStates
    /\ log \in Seq(Text)
    /\ executed \in Seq(Text)
    /\ shown \in Sequence
    /\ gameDrops \in Nat
    /\ stranded \in BOOLEAN

NoCommands == [i \in 0 .. MaxReliable - 1 |-> 0]

Init ==
    /\ sv = [state               |-> "connected",
             reliableSequence    |-> 0,
             reliableAcknowledge |-> 0,
             reliableCommands    |-> NoCommands]
    /\ cl = [connected             |-> TRUE,
             gameState             |-> FALSE,
             serverCommandSequence |-> 0,
             serverCommands        |-> NoCommands,
             lastExecuted          |-> 0,
             inGame                |-> FALSE,
             snapshots             |-> <<>>]
    /\ toServer = <<>>
    /\ path = IdlePath
    /\ gameStates = 0
    /\ log = <<>>
    /\ executed = <<>>
    /\ shown = 0
    /\ gameDrops = 0
    /\ stranded = FALSE

-----------------------------------------------------------------------------
(* Adding commands.  SV_AddServerCommand and SV_DropClient call each other, *)
(* so they are operators on h, a record of client_t and the two histories.  *)

Here == [c |-> sv, log |-> log, gameDrops |-> gameDrops]

BecomesServer(h) == sv' = h.c /\ log' = h.log /\ gameDrops' = h.gameDrops

(* The command is counted, and stored over the one MaxReliable before it.   *)
Counted(h, text) ==
    [h EXCEPT !.c.reliableSequence = @ + 1, !.log = Append(@, text)]

Stored(h, text) ==
    [Counted(h, text) EXCEPT
        !.c.reliableCommands[Slot(h.c.reliableSequence + 1)] = text]

(* "we check == instead of >=". *)
Overflows(c) ==
    c.reliableSequence + 1 - c.reliableAcknowledge = MaxReliable + 1

(* How many configstrings the game changes when it is told of the lost      *)
(* player for the first time, and again on the way of that.                 *)
Changes == [{0, 1} -> GameChanges]

(* VM_Call(GAME_CLIENT_DISCONNECT): ClientDisconnect clears the string of   *)
(* the player and sets the scores of both teams or the string of the winner,*)
(* three strings at most that can differ.  Each is sent if it is changed,   *)
(* to a client that is active at that moment.                               *)
GameDisconnect(h, changes, Add(_, _)) ==
    LET called == [h EXCEPT !.gameDrops = @ + 1]
        Set(g, i) == IF g.c.state = "active" /\ i <= changes[h.gameDrops]
                     THEN Add(g, PlayerGone) ELSE g
    IN  Set(Set(Set(called, 1), 2), 3)

(* SV_DropClient, with Add for the commands it adds on its way. *)
DroppedBy(h, changes, Add(_, _)) ==
    LET told == Add(h, Dropped)
        gone == Add(GameDisconnect(told, changes, Add), Disconnect)
    IN  [gone EXCEPT !.c.state = "zombie"]

(* An overflowing command is counted but not stored; the commands that the  *)
(* drop it causes adds are past the window, where Overflows is false.       *)
AddServerCommand(h, changes, text) ==
    IF h.c.state \in {"connected", "zombie"} THEN h
    ELSE IF Overflows(h.c) THEN DroppedBy(Counted(h, text), changes, Stored)
    ELSE Stored(h, text)

(* Any other call of SV_DropClient: a kick, a timeout, a disconnect command. *)
DropClient(h, changes) ==
    LET Add(g, text) == AddServerCommand(g, changes, text)
    IN  DroppedBy(h, changes, Add)

SvAddCommand ==
    /\ sv.state \in {"primed", "active"}
    /\ sv.reliableSequence < MaxCommands
    /\ \E changes \in Changes :
          BecomesServer(AddServerCommand(Here, changes, sv.reliableSequence + 1))
    /\ UNCHANGED <<cl, toServer, path, gameStates, executed, shown, stranded>>

SvDropClient ==
    /\ sv.state # "zombie"
    /\ \E changes \in Changes : BecomesServer(DropClient(Here, changes))
    /\ UNCHANGED <<cl, toServer, path, gameStates, executed, shown, stranded>>

-----------------------------------------------------------------------------
(* Sending. *)

(* Seeded fault: the newest command is left for the next message. *)
PendingButLast(c) ==
    [i \in 1 .. c.reliableSequence - c.reliableAcknowledge - 1 |->
        c.reliableCommands[Slot(c.reliableAcknowledge + i)]]

(* SV_UpdateServerCommandsToClient. *)
Pending(c) ==
    [i \in 1 .. c.reliableSequence - c.reliableAcknowledge |->
        c.reliableCommands[Slot(c.reliableAcknowledge + i)]]

Message(c, kind, n) ==
    [kind |-> kind, first |-> c.reliableAcknowledge + 1, texts |-> Pending(c),
     built |-> c.reliableSequence, active |-> c.state = "active",
     datagrams |-> n, key |-> 0]

(* A snapshot that overflows its buffer is cleared and sent empty.          *)
Cleared(m) == [m EXCEPT !.kind = "cleared", !.texts = <<>>, !.datagrams = 1]

Sends(next) ==
    /\ path' = next
    /\ stranded' = (stranded \/ Strands(next))
    /\ UNCHANGED <<cl, toServer, executed, shown>>

(* SV_SendClientMessages, zombies included. *)
SendFragment ==
    /\ path.left > 0
    /\ Sends(SvTransmitNextFragment(path, 0))
    /\ UNCHANGED <<svVars, gameStates>>

SendSnapshot ==
    /\ path.left = 0
    /\ \E n \in SnapshotSizes :
          LET m == Message(sv, "snapshot", n)
          IN  \E sends \in {m, Cleared(m)} : Sends(SvTransmit(path, sends, 0))
    /\ UNCHANGED <<svVars, gameStates>>

(* SV_SendClientGameState, called while a client's packet is executed. *)
SendGameState ==
    /\ sv.state # "zombie"
    /\ gameStates < MaxGameStates
    /\ sv' = [sv EXCEPT !.state = "primed"]
    /\ \E n \in GameStateSizes :
          Sends(SvTransmit(path, Message(sv', "gamestate", n), 0))
    /\ gameStates' = gameStates + 1
    /\ UNCHANGED <<log, gameDrops>>

-----------------------------------------------------------------------------
(* The client. *)

(* The numbers of the commands in m that CL_ParseCommandString stores. *)
NewNumbers(c, m) ==
    {n \in m.first .. m.first + Len(m.texts) - 1 : n > c.serverCommandSequence}

(* The commands of a message, parsed in order. *)
AfterCommands(c, m) ==
    LET new == NewNumbers(c, m)
        in(k) == {n \in new : Slot(n) = k}
    IN  [c EXCEPT
            !.serverCommandSequence = IF new = {} THEN @ ELSE Max(new),
            !.serverCommands = [k \in DOMAIN @ |->
                IF in(k) = {} THEN @[k]
                ELSE m.texts[Max(in(k)) - m.first + 1]]]

(* CL_ParseGamestate: cl is cleared, and the cgame starts again from        *)
(* lastExecutedServerCommand.                                               *)
AfterGameState(c, m) ==
    [c EXCEPT !.serverCommandSequence = m.built,
              !.gameState = TRUE,
              !.inGame = FALSE,
              !.snapshots = <<>>]

(* Seeded fault: the oldest snapshot is not overwritten. *)
AfterSnapshotKeepsAll(c, m) ==
    [c EXCEPT !.snapshots = Append(@,
        [commandNum |-> c.serverCommandSequence,
         built      |-> m.built,
         active     |-> m.active])]

(* CL_ParseSnapshot, for a snapshot that is valid; the oldest one it keeps  *)
(* is overwritten.                                                          *)
AfterSnapshot(c, m) ==
    LET read == [commandNum |-> c.serverCommandSequence,
                 built      |-> m.built,
                 active     |-> m.active]
        kept == IF Len(c.snapshots) < SnapshotBackup THEN c.snapshots
                ELSE Tail(c.snapshots)
    IN  [c EXCEPT !.snapshots = Append(kept, read)]

(* CL_ParseServerMessage.  A cleared message is read past its end, which is *)
(* an error that disconnects.                                               *)
ClReceive(i) ==
    LET m == path.flight[i]
        next == AfterCommands(cl, m)
    IN  /\ cl.connected
        /\ path' = [path EXCEPT !.flight = AfterArrival(@, i)]
        /\ \/ m.kind = "gamestate" /\ cl' = AfterGameState(next, m)
           \/ m.kind = "snapshot" /\ cl' \in {next, AfterSnapshot(next, m)}
           \/ m.kind = "cleared" /\ cl' = [cl EXCEPT !.connected = FALSE]
        /\ UNCHANGED <<svVars, toServer, gameStates, executed, shown, stranded>>

(* The user or an error ends the connection. *)
ClDisconnect ==
    /\ cl.connected
    /\ cl' = [cl EXCEPT !.connected = FALSE]
    /\ UNCHANGED <<svVars, toServer, path, gameStates, executed, shown, stranded>>

(* Seeded fault: the key is the command the cgame executed last. *)
KeyOfExecuted(c) == c.serverCommands[Slot(c.lastExecuted)]

(* "the last received now acknowledged server command" *)
KeyOf(c) == c.serverCommands[Slot(c.serverCommandSequence)]

(* CL_WritePacket and CL_Netchan_Encode. *)
ClWritePacket ==
    /\ cl.connected
    /\ toServer' = Flying(toServer,
          [ack       |-> cl.serverCommandSequence,
           key       |-> KeyOf(cl),
           gameState |-> cl.gameState])
    /\ UNCHANGED <<svVars, cl, path, gameStates, executed, shown, stranded>>

-----------------------------------------------------------------------------
(* The cgame moves on to the oldest snapshot it has not processed. *)

Snapshot == cl.snapshots[1]

(* The numbers CG_ExecuteNewServerCommands asks CL_GetServerCommand for. *)
Asked == cl.lastExecuted + 1 .. Snapshot.commandNum

(* Seeded fault: the slot of the next command counts as still valid. *)
CycledOutLate(c, n) == n < c.serverCommandSequence - MaxReliable

(* CL_GetServerCommand: the command was overwritten by a newer one. *)
CycledOut(c, n) == n <= c.serverCommandSequence - MaxReliable

TextOf(n) == cl.serverCommands[Slot(n)]

CgProcesses ==
    /\ cl.connected
    /\ cl.gameState
    /\ cl.snapshots # <<>>

(* Before the first one, snapshots that are not active are passed over. *)
CgSkipSnapshot ==
    /\ CgProcesses
    /\ ~cl.inGame
    /\ ~Snapshot.active
    /\ cl' = [cl EXCEPT !.snapshots = Tail(@)]
    /\ UNCHANGED <<svVars, toServer, path, gameStates, executed, shown, stranded>>

CgShowSnapshot ==
    /\ CgProcesses
    /\ cl.inGame \/ Snapshot.active
    /\ \A n \in Asked : ~CycledOut(cl, n) /\ TextOf(n) # Disconnect
    /\ executed' = executed \o [i \in 1 .. Cardinality(Asked) |->
                                   TextOf(cl.lastExecuted + i)]
    /\ shown' = Snapshot.built
    /\ cl' = [cl EXCEPT !.snapshots = Tail(@),
                        !.inGame = TRUE,
                        !.lastExecuted = @ + Cardinality(Asked)]
    /\ UNCHANGED <<svVars, toServer, path, gameStates, stranded>>

(* "a reliable command was cycled out", or the disconnect command.  The      *)
(* client's connection is wiped; lastExecuted keeps what was executed.      *)
CgDisconnects ==
    /\ CgProcesses
    /\ cl.inGame \/ Snapshot.active
    /\ \E n \in Asked :
          /\ CycledOut(cl, n) \/ TextOf(n) = Disconnect
          /\ \A k \in Asked : k < n => ~CycledOut(cl, k) /\ TextOf(k) # Disconnect
          /\ executed' = executed \o [i \in 1 .. n - 1 - cl.lastExecuted |->
                                         TextOf(cl.lastExecuted + i)]
          /\ cl' = [cl EXCEPT !.connected = FALSE, !.lastExecuted = n - 1]
    /\ UNCHANGED <<svVars, toServer, path, gameStates, shown, stranded>>

-----------------------------------------------------------------------------
(* The server reads a client packet: SV_PacketEvent, SV_ExecuteClientMessage. *)

(* Seeded fault: the oldest acknowledgement of the window counts as out of it. *)
OutOfWindowAtEdge(c, p) == p.ack <= c.reliableSequence - MaxReliable

(* "when the client message is fux0red the acknowledgement numbers can be   *)
(* out of range": older than the window.                                    *)
OutOfWindow(c, p) == p.ack < c.reliableSequence - MaxReliable

(* The acknowledgement is taken from the header, which is not encoded; one  *)
(* that is out of the window acknowledges everything.                       *)
AfterHeader(c, p) ==
    [c EXCEPT !.reliableAcknowledge =
        IF OutOfWindow(c, p) THEN c.reliableSequence ELSE p.ack]

(* The key SV_Netchan_Decode finds is the one of the client. *)
Decodes(c, p) == c.reliableCommands[Slot(p.ack)] = p.key

(* The body is read.  It may have a usercmd for the current gamestate, which *)
(* brings a client that is primed into the world, or none, or be of a map    *)
(* before; the rest of it changes nothing here.                              *)
ReadsBody(c, p) == ~OutOfWindow(c, p) /\ p.gameState /\ Decodes(c, p)

(* SV_ClientEnterWorld also sends the configstrings that have changed since *)
(* the gamestate: none or, here, one.                                       *)
EnteredWorld(h) ==
    LET active == [h EXCEPT !.c.state = "active"]
        n == h.c.reliableSequence + 1
    IN  {active} \cup
        IF n <= MaxCommands
        THEN {AddServerCommand(active, changes, n) : changes \in Changes}
        ELSE {}

SvReceive(i) ==
    LET p == toServer[i]
        read == [Here EXCEPT !.c = AfterHeader(@, p)]
    IN  /\ toServer' = AfterArrival(toServer, i)
        /\ \/ sv.state = "zombie" /\ BecomesServer(Here)
           \/ sv.state # "zombie" /\ BecomesServer(read)
           \/ /\ ReadsBody(sv, p)
              /\ sv.state = "primed"
              /\ \E h \in EnteredWorld(read) : BecomesServer(h)
        /\ UNCHANGED <<cl, path, gameStates, executed, shown, stranded>>

Lose ==
    /\ \/ /\ \E i \in DOMAIN toServer : toServer' = AfterLoss(toServer, i)
          /\ UNCHANGED path
       \/ /\ \E i \in DOMAIN path.flight :
                path' = [path EXCEPT !.flight = AfterLoss(@, i)]
          /\ UNCHANGED toServer
    /\ UNCHANGED <<svVars, cl, gameStates, executed, shown, stranded>>

Next ==
    \/ SvAddCommand
    \/ SvDropClient
    \/ SendFragment
    \/ SendSnapshot
    \/ SendGameState
    \/ \E i \in DOMAIN path.flight : ClReceive(i)
    \/ ClDisconnect
    \/ ClWritePacket
    \/ CgSkipSnapshot
    \/ CgShowSnapshot
    \/ CgDisconnects
    \/ \E i \in DOMAIN toServer : SvReceive(i)
    \/ Lose

Spec == Init /\ [][Next]_vars

-----------------------------------------------------------------------------
(* The window was passed: an old command was lost, and the client dropped.  *)
Overflowed == sv.reliableSequence - sv.reliableAcknowledge > MaxReliable

(* The cgame executes the commands the server added, each once, in order    *)
(* and with its own text (cl_parse.c:802-818, cl_cgame.c:266-288,           *)
(* cg_servercmds.c:1184-1190), although both rings are reused and the       *)
(* cgame lags behind the client: unless the server has dropped the client   *)
(* for an overflow, or the send queue was stranded.                         *)
ExecutedAsAdded ==
    ~Overflowed /\ ~stranded =>
        /\ Len(executed) = cl.lastExecuted
        /\ cl.lastExecuted <= Len(log)
        /\ executed = SubSeq(log, 1, Len(executed))

(* A command "is guaranteed to not have future snapshot_t executed before   *)
(* it is executed" (sv_main.c:135-136): when the cgame shows a snapshot it  *)
(* has executed every command that was added before the snapshot was built. *)
ShownAfterItsCommands == ~stranded => shown <= cl.lastExecuted

(* What the server takes for acknowledged, and will not send again, is      *)
(* stored by the client (sv_client.c:1685-1698).                            *)
AcknowledgedIsStored ==
    ~stranded => sv.reliableAcknowledge <= cl.serverCommandSequence

(* "modify the key with the last sent and acknowledged server command"      *)
(* (sv_net_chan.c:116): both ends find the same text for it, as long as     *)
(* fewer than MaxReliable commands were added since.                        *)
PacketsDecode ==
    ~stranded =>
        \A i \in DOMAIN toServer :
            sv.reliableSequence - toServer[i].ack < MaxReliable
                => Decodes(sv, toServer[i])

(* "We check == instead of >= so a broadcast print added by SV_DropClient() *)
(* doesn't cause a recursive drop client" (sv_main.c:155-156): dropping a   *)
(* client does not drop it again on the way, so the game is told once.      *)
DroppedOnce == gameDrops <= 1
=============================================================================
