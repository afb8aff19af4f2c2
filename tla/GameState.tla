------------------------------ MODULE GameState ------------------------------
(***************************************************************************)
(* How a client follows the server through map changes, map_restarts and   *)
(* configstring changes: serverId tells the server which gamestate a       *)
(* packet was written under, the gamestate is sent again to a client that  *)
(* has missed it, and configstrings reach a client inside a gamestate or   *)
(* by reliable "cs" commands, which are held back while it is primed.      *)
(* sv_init.c, sv_ccmds.c and sv_client.c, cl_parse.c and cl_cgame.c.       *)
(*                                                                         *)
(* Reliable commands come in order and once (ServerCommands): the log has  *)
(* all that were added, and a message says how far it reaches.  Messages   *)
(* arrive in order if at all, and are not held up in the send queue.       *)
(* serverId is com_frameTime, here a count; the map a client is in is      *)
(* named by the serverId it was spawned with, restartedServerId.           *)
(*                                                                         *)
(* Message numbers are only compared with gamestateMessageNum, so they are *)
(* reduced to that: a message is later than the last gamestate, or not.    *)
(***************************************************************************)
EXTENDS SendPath, Integers, FiniteSetsExt

CONSTANTS
    SnapshotBackup,  \* snapshots the client keeps for the cgame
    MaxSpawns,       \* bound of the model: map changes
    MaxRestarts,     \* bound of the model: map_restarts
    MaxChanges       \* bound of the model: changes of the other configstring

ASSUME GameStateAssumption ==
    /\ SnapshotBackup \in Nat \ {0}
    /\ {MaxSpawns, MaxRestarts, MaxChanges} \subseteq Nat

VARIABLES
    sv,        \* server_t, and client_t of the one client
    cl,        \* clc and cl
    toServer,  \* client packets in flight, the oldest first
    toClient,  \* server messages in flight, the oldest first
    log,       \* the reliable commands added so far
    counts,    \* spawns, restarts and changes so far
    history    \* what has happened, for the properties

vars == <<sv, cl, toServer, toClient, log, counts, history>>

(* CS_SYSTEMINFO, whose value is the serverId, and one that the game sets.  *)
Index == {"systeminfo", "other"}

ServerId == 0 .. 2 + MaxSpawns + MaxRestarts
Value == 0 .. 2 + MaxSpawns + MaxRestarts + MaxChanges
Strings == [Index -> Value]
Command == [kind : {"cs"}, index : Index, value : Value] \cup
           [kind : {"map_restart"}]

ServerHalf == [serverId          : ServerId,
               restartedServerId : ServerId,
               configstrings     : Strings,
               modified          : BOOLEAN,
               state             : {"connected", "primed", "active"},
               csUpdated         : SUBSET Index]

SnapshotRead == [commandNum : Nat, active : BOOLEAN]

ClientHalf == [map        : ServerId,
               serverId   : ServerId,
               gameState  : Strings,
               later      : BOOLEAN,
               executed   : Nat,
               inGame     : BOOLEAN,
               snapshots  : Seq(SnapshotRead)]

ServerMessage == [kind     : {"snapshot", "gamestate"},
                  commands : Nat,
                  active   : BOOLEAN,
                  later    : BOOLEAN,
                  map      : ServerId,
                  strings  : Strings]

ClientMessage == [serverId : ServerId, map : ServerId, later : BOOLEAN]

TypeOK ==
    /\ sv \in ServerHalf
    /\ cl \in ClientHalf
    /\ Len(cl.snapshots) <= SnapshotBackup
    /\ cl.executed <= Len(log)
    /\ toServer \in Seq(ClientMessage)
    /\ toClient \in Seq(ServerMessage)
    /\ log \in Seq(Command)
    /\ counts \in [spawns   : 0 .. MaxSpawns,
                   restarts : 0 .. MaxRestarts,
                   changes  : 0 .. MaxChanges]
    /\ history \in [stale : BOOLEAN, forced : BOOLEAN, raced : BOOLEAN,
                    needless : BOOLEAN]

(* A client that has just connected to a server in its first map, which may *)
(* have been restarted in this frame.                                       *)
Init ==
    /\ \E restarted \in BOOLEAN :
          sv = [serverId          |-> IF restarted THEN 2 ELSE 1,
                restartedServerId |-> 1,
                configstrings     |-> [systeminfo |-> 1, other |-> 1],
                modified          |-> restarted,
                state             |-> "connected",
                csUpdated         |-> {}]
    /\ cl = [map       |-> 0,
             serverId  |-> 0,
             gameState |-> [i \in Index |-> 0],
             later     |-> TRUE,
             executed  |-> 0,
             inGame    |-> FALSE,
             snapshots |-> <<>>]
    /\ toServer = <<>>
    /\ toClient = <<>>
    /\ log = <<>>
    /\ counts = [spawns |-> 0, restarts |-> 0, changes |-> 0]
    /\ history = [stale |-> FALSE, forced |-> FALSE, raced |-> FALSE,
                  needless |-> FALSE]

-----------------------------------------------------------------------------
(* Configstrings and commands, on h, a record of the server and the log.    *)

Here == [sv |-> sv, log |-> log]
Becomes(h) == sv' = h.sv /\ log' = h.log

(* SV_AddServerCommand: no commands before the gamestate has been sent.     *)
AddServerCommand(h, command) ==
    IF h.sv.state = "connected" THEN h
    ELSE [h EXCEPT !.log = Append(@, command)]

(* SV_SendConfigstring.  A long string in pieces (bcs0, bcs1, bcs2) counts  *)
(* as one command.                                                          *)
SendConfigstring(h, index) ==
    AddServerCommand(h, [kind |-> "cs", index |-> index,
                         value |-> h.sv.configstrings[index]])

(* Seeded fault: a change is forgotten while the client is primed. *)
SetConfigstringUnmarked(h, index, value) ==
    LET set == [h EXCEPT !.sv.configstrings[index] = value]
    IN  IF h.sv.state = "active" THEN SendConfigstring(set, index) ELSE set

(* SV_SetConfigstring, while no map is being spawned. *)
SetConfigstring(h, index, value) ==
    LET set == [h EXCEPT !.sv.configstrings[index] = value]
    IN  IF value = h.sv.configstrings[index] THEN h
        ELSE IF h.sv.state = "active" THEN SendConfigstring(set, index)
        ELSE IF h.sv.state = "primed" THEN [set EXCEPT !.sv.csUpdated = @ \cup {index}]
        ELSE set

(* SV_UpdateConfigstrings; CS_SYSTEMINFO has the lower index. *)
UpdateConfigstrings(h) ==
    LET send(g, index) == IF index \in h.sv.csUpdated
                          THEN SendConfigstring(g, index) ELSE g
    IN  [send(send(h, "systeminfo"), "other") EXCEPT !.sv.csUpdated = {}]

(* SV_ClientEnterWorld *)
ClientEnterWorld(h) == UpdateConfigstrings([h EXCEPT !.sv.state = "active"])

(* Seeded fault: serverId does not count the map_restarts before. *)
NextServerIdOfMap == 3 + counts.spawns

(* com_frameTime, which is another one each time. *)
NextServerId == 3 + counts.spawns + counts.restarts

NextValue == 2 + counts.spawns + counts.changes

(* The game changes a configstring, with a value it has not had. *)
SvSetConfigstring ==
    /\ counts.changes < MaxChanges
    /\ counts' = [counts EXCEPT !.changes = @ + 1]
    /\ Becomes(SetConfigstring(Here, "other", NextValue))
    /\ UNCHANGED <<cl, toServer, toClient, history>>

(* SV_SpawnServer: the configstrings are set anew, and nothing is sent.     *)
SvSpawnServer ==
    /\ counts.spawns < MaxSpawns
    /\ counts' = [counts EXCEPT !.spawns = @ + 1]
    /\ sv' = [sv EXCEPT !.serverId = NextServerId,
                        !.restartedServerId = NextServerId,
                        !.configstrings = [systeminfo |-> NextServerId,
                                           other      |-> NextValue],
                        !.modified = FALSE,
                        !.state = "connected"]
    /\ UNCHANGED <<cl, toServer, toClient, log, history>>

(* SV_MapRestart_f.  The serverId is a cvar, which SV_Frame will notice; a  *)
(* client enters the world whatever its state was.                          *)
SvMapRestart ==
    /\ counts.restarts < MaxRestarts
    /\ counts' = [counts EXCEPT !.restarts = @ + 1]
    /\ LET restarted == [Here EXCEPT !.sv.serverId = NextServerId,
                                     !.sv.modified = TRUE]
           told == AddServerCommand(restarted, [kind |-> "map_restart"])
       IN  Becomes(ClientEnterWorld(told))
    /\ history' = [history EXCEPT !.forced = @ \/ cl.map # sv.restartedServerId]
    /\ UNCHANGED <<cl, toServer, toClient>>

-----------------------------------------------------------------------------
(* Sending. *)

Snapshot(h) == [kind |-> "snapshot", commands |-> Len(h.log),
                active |-> h.sv.state = "active", later |-> TRUE,
                map |-> 0, strings |-> [i \in Index |-> 0]]

GameStateMessage(h) == [kind |-> "gamestate", commands |-> Len(h.log),
                        active |-> FALSE, later |-> FALSE,
                        map |-> h.sv.restartedServerId,
                        strings |-> h.sv.configstrings]

(* "update infostrings if anything has been changed" *)
InfostringsUpdated(h) ==
    IF h.sv.modified
    THEN [SetConfigstring(h, "systeminfo", h.sv.serverId)
             EXCEPT !.sv.modified = FALSE]
    ELSE h

(* SV_Frame, in which a snapshot may be due. *)
SvFrame(due) ==
    LET h == InfostringsUpdated(Here)
    IN  /\ Becomes(h)
        /\ toClient' = IF due THEN Flying(toClient, Snapshot(h)) ELSE toClient
        /\ UNCHANGED <<cl, toServer, counts, history>>

(* With a new gamestate, all messages before are earlier than the last one. *)
Earlier(messages) ==
    [i \in DOMAIN messages |-> [messages[i] EXCEPT !.later = FALSE]]

(* The client has a gamestate of this map already, or it is on its way.     *)
HasGameState ==
    \/ cl.map = sv.restartedServerId
    \/ \E i \in DOMAIN toClient : toClient[i].map = sv.restartedServerId

(* SV_SendClientGameState *)
SendClientGameState ==
    /\ sv' = [sv EXCEPT !.state = "primed"]
    /\ toClient' = Flying(Earlier(toClient), GameStateMessage(Here))
    /\ cl' = [cl EXCEPT !.later = FALSE]
    /\ history' = [history EXCEPT
                      !.raced = @ \/ sv.modified,
                      !.needless = @ \/ HasGameState]
    /\ UNCHANGED log

-----------------------------------------------------------------------------
(* The client. *)

(* A gamestate that overtakes a "cs" command.                               *)
OvertakesConfigstring(m) ==
    \E k \in cl.executed + 1 .. m.commands : log[k].kind = "cs"

(* CL_ParseGamestate, CL_SystemInfoChanged; the cgame starts again behind   *)
(* the last command it executed.                                            *)
ClReceiveGameState(i) ==
    LET m == toClient[i]
    IN  /\ m.kind = "gamestate"
        /\ toClient' = AfterArrival(toClient, i)
        /\ cl' = [cl EXCEPT !.map = m.map,
                            !.serverId = m.strings["systeminfo"],
                            !.gameState = m.strings,
                            !.later = FALSE,
                            !.inGame = FALSE,
                            !.snapshots = <<>>]
        /\ history' = [history EXCEPT !.stale = @ \/ OvertakesConfigstring(m)]
        /\ UNCHANGED <<sv, toServer, log, counts>>

(* Seeded fault: snapshots the cgame has not read are never given up. *)
KeptAll(read) == Append(cl.snapshots, read)

(* The cgame finds the last SnapshotBackup snapshots. *)
Kept(read) ==
    Append(IF Len(cl.snapshots) < SnapshotBackup THEN cl.snapshots
           ELSE Tail(cl.snapshots), read)

(* CL_ParseCommandString and CL_ParseSnapshot, of a snapshot that is valid.  *)
ClReceiveSnapshot(i) ==
    LET m == toClient[i]
        read == [commandNum |-> m.commands, active |-> m.active]
    IN  /\ m.kind = "snapshot"
        /\ toClient' = AfterArrival(toClient, i)
        /\ cl' = [cl EXCEPT !.later = m.later,
                            !.snapshots = IF cl.map = 0 THEN <<>>
                                          ELSE Kept(read)]
        /\ UNCHANGED <<sv, toServer, log, counts, history>>

(* The commands that set a configstring. *)
Changes(commands, index, from, to) ==
    {k \in from .. to : commands[k].kind = "cs" /\ commands[k].index = index}

(* CL_GetServerCommand, CL_ConfigstringModified, for commands in order: what *)
(* becomes of a configstring.                                                *)
ValueAfter(old, commands, index, from, to) ==
    LET changes == Changes(commands, index, from, to)
    IN  IF changes = {} THEN old ELSE commands[Max(changes)].value

(* CG_ProcessSnapshots, CG_ExecuteNewServerCommands: the oldest snapshot.   *)
(* The first one must be active.  CL_SystemInfoChanged takes the serverId    *)
(* from its configstring.                                                    *)
CgShowSnapshot ==
    LET snapshot == cl.snapshots[1]
        shows == cl.inGame \/ snapshot.active
        after(old, index) ==
            ValueAfter(old, log, index, cl.executed + 1, snapshot.commandNum)
        shown == IF shows
                 THEN [cl EXCEPT
                          !.gameState = [i \in Index |-> after(@[i], i)],
                          !.serverId = after(@, "systeminfo"),
                          !.executed = snapshot.commandNum,
                          !.inGame = TRUE]
                 ELSE cl
    IN  /\ cl.snapshots # <<>>
        /\ cl' = [shown EXCEPT !.snapshots = Tail(@)]
        /\ UNCHANGED <<sv, toServer, toClient, log, counts, history>>

(* CL_WritePacket *)
ClWritePacket ==
    /\ toServer' = Flying(toServer,
          [serverId |-> cl.serverId, map |-> cl.map, later |-> cl.later])
    /\ UNCHANGED <<sv, cl, toClient, log, counts, history>>

-----------------------------------------------------------------------------
(* The server reads a client packet: SV_ExecuteClientMessage. *)

IsCurrent(p) == p.serverId = sv.serverId

(* Seeded fault: packets of the map before count as before a map_restart.   *)
BeforeMapRestartOrSpawn(p) ==
    p.serverId >= sv.restartedServerId - 1 /\ p.serverId < sv.serverId

(* "they just haven't caught the map_restart yet" *)
BeforeMapRestart(p) ==
    p.serverId >= sv.restartedServerId /\ p.serverId < sv.serverId

(* Seeded fault: a gamestate that may still arrive is sent again. *)
HasDroppedGameStateAlways(p) == ~BeforeMapRestart(p)

(* "we can tell that the client has dropped the last gamestate we sent"     *)
HasDroppedGameState(p) == ~BeforeMapRestart(p) /\ p.later

(* The first packet of a current client that has loaded the map has a move. *)
SvReceiveMove(i) ==
    LET p == toServer[i]
    IN  /\ IsCurrent(p)
        /\ toServer' = AfterArrival(toServer, i)
        /\ Becomes(IF sv.state = "primed" THEN ClientEnterWorld(Here) ELSE Here)
        /\ UNCHANGED <<cl, toClient, counts, history>>

SvReceiveOther(i) ==
    LET p == toServer[i]
        rest == AfterArrival(toServer, i)
    IN  /\ ~IsCurrent(p)
        /\ \/ /\ HasDroppedGameState(p)
              /\ SendClientGameState
              /\ toServer' = Earlier(rest)
           \/ /\ ~HasDroppedGameState(p)
              /\ toServer' = rest
              /\ UNCHANGED <<sv, cl, toClient, log, history>>
        /\ UNCHANGED counts

SvReceive(i) == SvReceiveMove(i) \/ SvReceiveOther(i)

ReceiveGameState == \E i \in DOMAIN toClient : ClReceiveGameState(i)
ReceiveSnapshot == \E i \in DOMAIN toClient : ClReceiveSnapshot(i)
ReceivePacket == \E i \in DOMAIN toServer : SvReceive(i)

Next ==
    \/ SvSetConfigstring
    \/ SvSpawnServer
    \/ SvMapRestart
    \/ \E due \in BOOLEAN : SvFrame(due)
    \/ ReceiveGameState
    \/ ReceiveSnapshot
    \/ CgShowSnapshot
    \/ ClWritePacket
    \/ ReceivePacket

Spec == Init /\ [][Next]_vars

(* Server frames come round and the client keeps sending and showing what   *)
(* it has; of the messages that are sent again and again, some arrive.      *)
Fairness ==
    /\ WF_vars(SvFrame(TRUE))
    /\ WF_vars(ClWritePacket)
    /\ WF_vars(CgShowSnapshot)
    /\ SF_vars(ReceivePacket)
    /\ SF_vars(ReceiveSnapshot)
    /\ SF_vars(ReceiveGameState)

FairSpec == Spec /\ Fairness

-----------------------------------------------------------------------------
(* The client is in the server's map and has executed all its commands.     *)
HasCaughtUp ==
    /\ sv.state = "active"
    /\ ~sv.modified
    /\ cl.map = sv.restartedServerId
    /\ cl.executed = Len(log)

(* "any configstring changes should be reliably transmitted to all clients" *)
(* (sv_init.c:607-609): a client that has caught up has the server's        *)
(* configstrings, whether they changed before its gamestate was sent, while *)
(* it was primed, in a map_restart or later.  The exception is a gamestate  *)
(* that overtakes a "cs" command: the cgame starts again at                 *)
(* lastExecutedServerCommand (cl_cgame.c:760-762) and executes the command  *)
(* afterwards, over the newer value.                                        *)
ConfigstringsReachTheClient ==
    HasCaughtUp /\ ~history.stale => cl.gameState = sv.configstrings

(* "when we get the next packet from a connected client, the new gamestate  *)
(* will be sent" (sv_init.c:542-543): no packet the server takes for one of *)
(* the current game was written in another map.  The exception is a         *)
(* map_restart that finds the client without the gamestate of the map: it   *)
(* puts the client into the world all the same, and if the gamestate is not *)
(* sent, or is lost, the "cs" for the new serverId reaches the old map.     *)
PacketsAreOfThisMap ==
    \A i \in DOMAIN toServer :
        IsCurrent(toServer[i]) /\ ~history.forced
            => toServer[i].map = sv.restartedServerId

(* The gamestate is "resent if the client acknowledges a later message but  *)
(* has the wrong gamestate" (sv_client.c:490-491), and only then: not to a  *)
(* client that has it, and not while it is on its way.  The exception is a  *)
(* "cs" command with an older serverId, as above.                           *)
GameStateIsSentIfMissed == ~history.stale => ~history.needless

InTheWorld ==
    /\ sv.state = "active"
    /\ cl.serverId = sv.serverId
    /\ cl.map = sv.restartedServerId

(* However maps, restarts and losses fall, the client gets into the world   *)
(* in the end (sv_client.c:1711-1724).  There are two exceptions: the one   *)
(* above, and a gamestate sent between a map_restart and the frame that     *)
(* notices the new serverId.  It has the old one, so the client's packets   *)
(* are ignored for good, and the change waits for the client to enter.      *)
EntersTheWorld == <>(history.forced \/ history.raced) \/ <>[]InTheWorld
=============================================================================
