# A TLA+ model of the network core of Source-Remastered

The program is a Quake III engine (`Engine/`, `Shared/`) with the ZEQ2 game on
top of it (`Game/`). `INDEX.md` is the repository's own map; `BACKLOG-BOTS.md`
and `PRUEBAS.md` describe the training bots and how they are tested by hand.
There are no automated tests.

The protocol between the server and its clients is what is hard to test here.
It is several small state machines on unreliable datagrams, which share
sequence numbers, rings and acknowledgements. This project models that
protocol. Paths below are relative to `src/`.

## 1. Inventory

### Network core

| component | state | operations | what makes it correct |
|---|---|---|---|
| **Netchan**, `Shared/net_chan.c` | `netchan_t` at each end: sequence numbers, the buffer being sent in fragments, the buffer being assembled | `Netchan_Setup`, `_Transmit`, `_TransmitNextFragment`, `_Process` | messages come whole, in order, none twice; a partial message can still complete |
| **Send path**, `Engine/server/sv_net_chan.c`, `sv_snapshot.c` | `netchan_start_queue`, `netchan_end_queue`, `nextSnapshotTime` | `SV_Netchan_Transmit`, `SV_Netchan_TransmitNextFragment`, `SV_SendClientMessages`, `SV_SendClientGameState`, `SV_FinalMessage` | no message lost or repeated by the queue, order kept, everything queued is sent |
| **Commands, client to server**, `Engine/client/cl_main.c`, `cl_input.c`, `cl_parse.c`; `Engine/server/sv_client.c` | `clc.reliable*`, `client_t.lastClientCommand` | `CL_AddReliableCommand`, `CL_WritePacket`, `CL_ParseServerMessage`, `SV_ClientCommand` | each command executed once, in order, with its own text |
| **Commands, server to client**, `sv_main.c`, `sv_client.c`, `cl_parse.c`, `cl_cgame.c`, `Game/CGame/cg_servercmds.c`, `cg_snapshot.c` | `client_t.reliable*`, `clc.serverCommands`, `lastExecutedServerCommand`, the snapshots of the cgame | `SV_AddServerCommand`, `SV_DropClient`, `CL_ParseCommandString`, `CL_GetServerCommand`, `CG_ProcessSnapshots` | as above, and no snapshot is shown before the commands older than it |
| **Message keys**, `sv_net_chan.c`, `cl_net_chan.c` | `lastClientCommandString`, the command rings | encode and decode at both ends | both ends use the same key |
| **Client state machine**, `sv_client.c`, `sv_main.c`, `sv_init.c` | `client_t.state`: free, zombie, connected, primed, active | connect, gamestate, enter world, drop, timeout | a client is dropped once, its final messages go out |
| **Connection**, `sv_client.c`, `sv_main.c`, `cl_main.c` | challenges, slots, `lastPacketTime`, `timeoutCount` | challenge, connect, reconnect, `SV_CheckTimeouts` | a slot has one owner; old datagrams do not disturb a new connection |
| **Snapshot deltas**, `sv_snapshot.c`, `cl_parse.c` | rings of 32 frames and of entities at both ends | `SV_WriteSnapshotToClient`, `CL_ParseSnapshot` | both ends delta from the same frame |
| **Gamestate and map change**, `sv_init.c`, `sv_ccmds.c`, `sv_client.c` | `serverId`, `restartedServerId`, `configstrings`, `csUpdated` | `SV_SpawnServer`, `SV_MapRestart_f`, `SV_SetConfigstring`, `SV_ExecuteClientMessage` | a client ends up with the current configstrings |
| **Download**, `sv_client.c`, `cl_parse.c` | a window of blocks and three counters | `SV_WriteDownloadToClient`, `SV_NextDownload_f`, `CL_ParseDownload` | the file arrives whole; the window moves on |
| **VoIP queue**, `sv_client.c`, `sv_snapshot.c` | `voipPacket[64]`, `queuedVoipPackets` | `SV_UserVoip`, `SV_WriteVoipToClient` | packets leave in order, none twice |
| **Loopback**, `Shared/net_chan.c` | two rings of 16 datagrams | `NET_SendLoopPacket`, `NET_GetLoopPacket` | the newest 16 arrive in order |

How they interact. The game and `SV_SetConfigstring` call
`SV_AddServerCommand`; `SV_Frame` calls `SV_SendClientMessages`, which builds a
snapshot (acknowledgement of client commands, commands not acknowledged, delta)
and hands it to `SV_Netchan_Transmit`, which encodes and cuts it, or queues it.
The client's `Netchan_Process` puts it together, `CL_Netchan_Decode` decodes it
with the client command it acknowledges, and `CL_ParseServerMessage` stores
commands and snapshots, which the cgame takes later, each frame, through system
calls. Client packets take the other way: `CL_WritePacket` to
`SV_ExecuteClientMessage`, which moves both acknowledgements on and may call
`SV_SendClientGameState` or `SV_DropClient` on the spot. All of it runs in one
thread at each end. The interleavings are those of the two ends, of the
datagrams between them, and of the calls made while a packet is executed and
while the fragments of an earlier message are still going out.

### Everything else

- **Game**: player movement with power levels, transformations and tiers
  (`Game/Game/bg_pmove.c`, `g_tiers.c`), a state machine over one player's
  counters; BotLite (`g_botlite_*.c`), whose bots are added, removed and reset
  by client number; combat, items, rounds (`g_*.c`).
- **CGame and UI**: prediction, effects, drawing, menus.
- **Services of the main loop** (`Shared/common.c`, `cmd.c`, `cvar.c`): a
  bounded event queue and a bounded command buffer, both of which drop on
  overflow.
- **Files, VM, collision, bit packing** (`Shared/files.c`, `vm*.c`, `cm_*.c`,
  `msg.c`, `huffman.c`).
- **Renderer, sound, SDL, system**, the old bot library (files without code), vendored
  libraries and tools.

`PROJECT.json` lists each of them with its status, and every hazard with its
line.

## 2. Modules

| module | what it is | lines of the code |
|---|---|---|
| `MessageChannel` | abstract: what a channel may do with the messages it is given | none |
| `NetChan` | one direction of a channel: fragments, network, reassembly | `net_chan.c:86-458` |
| `SvSendQueue` | the server's send path by its control only | `sv_net_chan.c:131-194` and its callers |
| `SvNetChan` | `NetChan` with the queue in front; implements `MessageChannel` and `SvSendQueue` | the same, with bytes and sequence numbers |
| `SendPath` | the send path as operators, for messages that say something | the same |
| `CommandStream` | abstract: commands are executed once, in order | none |
| `ClientCommands` | reliable commands from client to server, over `SendPath`; implements `CommandStream` | `cl_main.c:455-481`, `cl_input.c:742-937`, `cl_parse.c:826-907`, `sv_client.c:1360-1408`, `1667-1779` |
| `ServerCommands` | reliable commands from server to client, over `SendPath`, up to the cgame | `sv_main.c:132-212`, `sv_client.c:413-587`, `cl_parse.c:203-325`, `455-536`, `802-818`, `cl_cgame.c:120-310`, `cg_snapshot.c` |
| `SnapshotDelta` | delta compressed snapshots, with the rings at both ends | `sv_snapshot.c:55-208`, `443-664`, `cl_parse.c:64-325`, `455-536`, `cl_cgame.c:120-166` |
| `GameState` | map changes, map_restarts and configstrings | `sv_init.c:34-146`, `402-618`, `sv_ccmds.c:229-350`, `sv_client.c:494-587`, `1667-1731`, `cl_cgame.c:202-258` |
| `Connection` | the handshake, disconnects, timeouts and zombies | `sv_client.c:53-481`, `sv_main.c:805-969`, `cl_main.c:1185-1483`, `1988-2083`, `2252-2466` |
| `MC*` | small instances of the above | |
| `SendPathProofs` | lemmas about `SendPath`, orders of messages, slots of a ring, recursion over an interval | |
| `SvNetChanProofs` | theorems about `NetChan` and `SvNetChan`, which extends it | |
| `SvSendQueueProofs`, `ClientCommandsProofs`, `ServerCommandsProofs`, `SnapshotDeltaProofs`, `GameStateProofs`, `ConnectionProofs` | theorems about the module of that name | |

### NetChan

`out` and `in` are the sender's and the receiver's half of `netchan_t`.
`network` is the set of datagrams ever sent. The receiver may process any of
them at any time, which is loss, duplication, delay and reordering.
`Transmit`, `TransmitNextFragment` are the two calls of the sender. `Process`
splits `Netchan_Process` by its outcome: `DiscardStale`, `ProcessWhole`,
`ProcessFragment` (nothing handed over), `FinishMessage`. `sent` and
`delivered` are histories. Truncated datagrams and headers with a wrong length,
which no sender of this program produces, are left out. The qport and address
that select the channel are left out too.

### SvSendQueue, SvNetChan, SendPath

`SvTransmit` and `SvTransmitNextFragment` are the two functions of
`sv_net_chan.c`. They are operators on a value, because `SV_FinalMessage` makes
two such calls in one step and because `SV_Netchan_TransmitNextFragment`
transmits a second message on its own. In `SvSendQueue` the value says of the
current and of the waiting messages whether they are copies of the final one, and
`finalSent` follows from the datagrams the two calls emit. The actions are the callers:
`SendFragment` and `SendSnapshot` (the two branches of `SV_SendClientMessages`),
`SendGameState` (called while a packet is executed, whatever the channel is
doing) and `FinalMessage`. `frame` stands for `svs.time`, so that a frame is a
step even when the send path looks as before.

`SvNetChan` has the bytes and the network, `SvSendQueue` the number of datagrams
only. `SvNetChan` is shown to implement `SvSendQueue`, so what `SvSendQueue`
says about the queue is about the code's queue. `SendPath` has the same two
operators on messages with contents, whose datagrams arrive in order or not at
all. `NetChan` shows that this is what the channel makes of them.

### ClientCommands

`cl` is the part of `clc` with the client's ring, `sv` the part of `client_t`
that executes commands, `toServer` and `path.flight` the messages in flight.
A command's text is its number. A message's `key` is the command the server
mixed into it. `executed` is what `SV_ExecuteClientCommand` was called with (it
may still refuse a game command under flood protection). A message that the
client cannot decode has a wrong key but a good header: the acknowledgement is
read before the key applies, the rest may be anything, an error included
(`ClReceive`). `DisconnectFrom` is `CL_Disconnect` with its packets.

### ServerCommands

`sv` has the server's ring and the client's state, `cl` the client's ring, the
command executed last and the snapshots the cgame has not processed yet.
`AddServerCommand` and `DropClient` are the two functions that call each other.
The recursion is bounded (past the window nothing overflows), so they are written
without one: `DroppedBy` takes the operator that adds. Between the print and the
disconnect of `SV_DropClient` the game may change configstrings, which are
commands too (`GameDisconnect`). `ClientDisconnect` clears the player's
(`Game/Game/g_client.c:1199`), `CalculateRanks` sets the scores of both teams in a
team game (`g_main.c:761-763`), and a tournament updates the winner's
(`g_client.c:1171-1176`): three that can differ at most, `GameChanges` of them.
`CheckExitRules` is empty (`g_main.c:1135`), `BotLite_OnClientDisconnect` clears a
record (`g_botlite_main.c:14`), and neither adds a command. `ClReceive` is `CL_ParseServerMessage` by message kind,
`CgSkipSnapshot`, `CgShowSnapshot` and `CgDisconnects` are the outcomes of
`CG_ProcessSnapshots` for the next snapshot, and `SvReceive` is
`SV_ExecuteClientMessage` for a packet that is ignored, only acknowledges, or
brings the client into the world. Whether a packet that decodes has a usercmd for
the current map is open, so it may do either. The release build is modelled (`NDEBUG`): an
acknowledgement out of the window does not drop the client.

### SnapshotDelta

`sv` has the client's frames, the message it asked a delta from, and
`svs.snapshotEntities`, which all clients share (`SvBuildForOther` is a snapshot
for another one). `cl` has `cl.snapshots` and `cl.parseEntities`. An entity's
state is a version number; a delta names the version it was taken from, and
gives `Garbled` when it is read from another. `Changes` is
`SV_EmitPacketEntities`. `PacketEntities` is the merge of
`CL_ParsePacketEntities`, step by step, because the client reads the base from
the ring it writes to. A removed entity is written to the ring with the number
that ends a snapshot's entities (`Gone`) and is not counted, as in
`CL_DeltaEntity`. `EntitiesRead` is what `CL_GetSnapshot` copies for the cgame, at
most `MaxEntitiesInSnapshot` entities. `SvSpawnServer` empties the server's ring and
leaves the frames that point into it.

### GameState

`sv` is `server_t` with the state of one client, `cl` the client's
`gameState`, `serverId` and the snapshots the cgame has not shown. `log` is the
sequence of reliable commands; `ServerCommands` shows that they arrive in order
and once, so that here a message only says how far it reaches. Configstrings are
`CS_SYSTEMINFO`, whose value is the serverId, and one more. `SetConfigstring`,
`UpdateConfigstrings`, `AddServerCommand` and `ClientEnterWorld` are operators
on a record of server and log, because `SV_MapRestart_f` calls several of them
in one step. `SvFrame` is the part of `SV_Frame` that notices a changed
serverId, with the snapshots it may send. Message numbers are only ever compared
with `gamestateMessageNum`, and are reduced to `later`, the outcome. `history`
records the three situations of section 4.

### Connection

One client machine, with one address and qport, that connects, leaves, crashes
and connects again, and the slot for it. `InitCrashed` is a client that was
connected a moment ago, whose datagrams are still on their way. Datagrams are
sets with an age: any order, loss, a bounded number of duplicates, and no
arrival after `MaxDelay`. `Tick` is the time; it waits until the timers that are
due have been looked at. A packet stands for any number of sequenced packets.
One made with another challenge is garbage, if its sequence number lets it pass
at all, so a garbage packet may count as heard or be ignored, and a garbage
message may end the connection with an error. The timers of the two ends are
`SvCheckTimeouts`, `ClCheckTimeout` and `ClCheckForResend`.

## 3. Runs

Every run exhausts its state space. "Seeded fault" operators beside a definition
are the variants `PROJECT.json` lists under `mutants`: each property fails under
one of them.

| run | states | shows |
|---|---|---|
| `netchan` | 32,179 | `NetChanInv`, `DeliveredIntact`: no splicing, cutting or repetition; `StillCompletable`: the fragments of a message always still complete it when they come once in order, whatever came before; `ImplementsChannel` |
| `svnetchan` | 55,299 | the same with the queue in front; `QueueLosesNothing`; `OrderedUnlessStranded`; `ImplementsSendQueue` |
| `svsendqueue` | 864 | `FragmentsPullTheQueue` (liveness): the queue drains while long snapshots keep coming; `FinalMessageGoesOut`: when exactly a copy of the final message goes out |
| `svsendqueue_stuck` | violation | `QueuedIsSent`, finding 1 |
| `clientcommands` | 92,729 | `ImplementsCommandStream`, `UnacknowledgedIsHeld`, `LostOnlyIfStranded`, `CommandReachesServer` (liveness) |
| `clientcommands_key` | violation | `KeyIsAcknowledged`, finding 2 |
| `servercommands` | 3,765,460 | `ExecutedAsAdded`, `ShownAfterItsCommands`, `AcknowledgedIsStored`, `PacketsDecode` |
| `servercommands_drop` | violation | `DroppedOnce`, finding 3 |
| `snapshotdelta` | 1,718,056 | `ActiveSnapshotsAsBuilt`: what the cgame is given is what the server saw, up to the entities it takes; `BaseIsHeld`: the base of every delta on its way is there; `SlotsHoldTheirNumber` |
| `gamestate` | 212,807 | `ConfigstringsReachTheClient`, `PacketsAreOfThisMap`, `GameStateIsSentIfMissed`, `EntersTheWorld` (liveness) |
| `connection` | 200,777 | `KeysAgree`, `NotResetWhileConnected`, `GetsIn` (liveness), `SlotIsFreed` (liveness) |
| `connection_stuck` | violation | `DroppedClientLeaves`, finding 4 |

Bounds, and why they are enough:

- `MCNetChan`: fragments of 2 bytes, a buffer of 5, 3 messages of 0, 1, 2, 4 or
  5 bytes in two versions. That is empty and short messages, the exact multiple
  of a fragment (one and two of them) and an odd one; three messages let a
  partial message be interrupted and passed by.
- `MCSvNetChan`: snapshots of 1 and 4 datagrams (the last one empty), gamestates
  of 2 and 3, 4 messages of which 2 are gamestates. Two messages can wait in the
  queue, and one can be stranded and overtaken.
- `MCSvSendQueue`: messages of 1 to 3 datagrams and two gamestates. The run says
  `CHECK_DEADLOCK FALSE` because the server really stops after its final
  message.
- `MCClientCommands`: a window of 2 for 3 commands, so the ring is reused; two
  messages in flight each way; snapshots of 1 or 2 datagrams and a gamestate of
  2, so the queue can be used and stranded.
- `MCServerCommands`: a window of 2 for 3 commands plus those of a drop, with two
  configstrings the game changes, so both rings are reused and the window
  overflows; one snapshot kept for the
  cgame, one message in flight each way; two gamestates, so that one is sent to a
  client that is already in the game. The cgame lags by more than the window.
  With a window of 4, 5 commands and one gamestate (3,118,216 states) the same
  properties hold. The violation run keeps that larger window, and three
  configstrings.
- `MCSnapshotDelta`: rings of 4 frames and of 10 and 9 entities, 7 messages, two
  views of three entities that share two, of which the cgame takes two; a map
  change or a snapshot for another client. Every ring is reused at least once, an entity enters before and behind
  those of the base, and one is not mentioned because it does not change.
  Entities are numbered below `EndOfEntities`, the number that ends a snapshot's
  entities. No view has more than one entity that the other has not, and
  `ParseMargin` is 4, so the run is inside the condition of section 4.
- `MCGameState`: one map change, a map_restart besides one that may have
  happened in this frame, one configstring change; a message in flight each way.
  That is every order of the three events against a gamestate and a first move.
- `MCConnection`: the limits have the proportions of the code (retransmit 3 s,
  reconnect limit 3 s, zombie 2 s, disconnect after 3 s of silence) with a delay
  of at most 1 s. The two timeouts, 200 s in the code, are 3, the least at which
  they are not shorter than the others. One connect by the user, from a new
  client or after a crash; one kick; one duplicated datagram. Nine challenge
  numbers are enough for one never to be given out while it is in use.

A message that finds `MaxInFlight` messages in flight displaces the oldest one,
which is a loss. So the bound cuts delays, never the program's steps.

Fairness. `SvSendQueue` assumes that `SV_SendClientMessages` goes on running: it
is called in every `SV_Frame` (`sv_main.c:1126`). `ClientCommands` assumes weak
fairness of `CL_WritePacket`, called in every client frame, and strong fairness
of the server's receipt: the network may lose any packet, but not every one of
those that are sent again and again. Nothing is assumed of messages to the
client, of a disconnect or of a drop. `GameState` assumes that server frames go
on, that the client goes on sending and the cgame showing, and that each kind of
message that is sent again and again arrives now and then. `Connection` assumes
the same of frames at both ends (`sv_main.c:1123`, `cl_main.c:2621-2627`), of
time, and of the four connectionless datagrams of the handshake.
`connection_stuck` assumes it of every packet as well, so that its
counterexample is not a network that is dead.

## 4. What the runs show of the code

Findings, one for each run that expects a violation:

1. **A queued message may never be sent** (`svsendqueue_stuck`).
   `SV_Netchan_Transmit` queues a message and emits the next fragment of the
   current one with `Netchan_TransmitNextFragment`. When that was the last one,
   nothing pulls the queue until another long message ends. Short snapshots go
   past it. `FragmentsPullTheQueue` is what remains of the comment's promise.
   The properties named "unless stranded" say what depends on it: the order of
   messages, the acknowledgements, and the client's commands.
2. **A queued message is encoded with a key that does not belong to its
   acknowledgement** (`clientcommands_key`), and the client cannot decode it.
3. **A drop near a full window drops twice** (`servercommands_drop`). The game
   sees two `GAME_CLIENT_DISCONNECT` calls.

4. **A client whose slot is gone hangs** (`connection_stuck`). Its packets are
   answered with "disconnect". `CL_PacketEvent` sets `clc.lastPacketTime` before
   it looks at the packet (`cl_main.c:2395`), so `CL_DisconnectPacket` always
   finds that a packet came within three seconds and ignores it, and
   `CL_CheckTimeout` never fires, because the answers keep coming.

What `GameState` shows. Its properties name three exceptions; each was found by
the run, and without it the property is false:

- `stale`: a gamestate overtakes a "cs" command. `SV_SendClientGameState` writes
  `reliableSequence`, and the client's cgame starts again at
  `lastExecutedServerCommand` (`cl_cgame.c:760-762`). A "cs" it had not executed
  is executed after the gamestate, over the newer string. If it is
  `CS_SYSTEMINFO`, the client goes back to an old serverId for a while, and may
  be sent a gamestate it has.
- `raced`: a gamestate is sent between `SV_MapRestart_f`, which changes
  `sv.serverId` (`sv_ccmds.c:282`), and the `SV_Frame` that updates
  `CS_SYSTEMINFO` (`sv_main.c:1092`). A dedicated server reads packets in
  between (`sv_main.c:1058-1063`). The gamestate has the old serverId. The
  client's packets then count as from before the map_restart
  (`sv_client.c:1712`) and are ignored, while the new string waits in
  `csUpdated` for the client to enter the world. It never does.
- `forced`: `SV_MapRestart_f` sets every connected client to `CS_ACTIVE`
  (`sv_ccmds.c:341`), also one that has not got the gamestate of the map. If that
  gamestate is not on its way, the client gets the map's commands in the old map,
  the new serverId among them, and nobody notices.

What `SnapshotDelta` shows:

- The server sends up to 1024 entities (`sv_snapshot.c:238`), and the cgame is
  given the first 256 of them, those with the lowest numbers
  (`cl_cgame.c:152-156`). `ActiveSnapshotsAsBuilt` speaks of those. The rest is in
  the client's ring all the same, and a base for the next delta.
- `ActiveSnapshotsAsBuilt` holds as long as no view has more than `ParseMargin`
  entities that another has not, the 128 of `cl_parse.c:256`
  (`ViewsChangeLittle` in `SnapshotDeltaProofs`). The condition is exact: with
  rings of 5 frames and 4 entities, no limit at the cgame, `ParseMargin` 1 and the
  views `{3}` and `{1, 3}` TLC finds no error in 450,711 states, and with `{3}` and `{1, 2, 3}` the property violated. The client takes a
  base that is `ParseMargin` short of a turn of the ring, writes the two new
  entities in front of it, and the second overwrites the base before it is read.
  A snapshot may have 1024 entities and nothing in the code limits how many are
  new, so in the code this is a condition and not a fact.
- Between a map change and the gamestate the snapshots are of the new map, and
  the client decodes them with the old baselines. They are garbled. They are also
  marked not active, and the cgame is wiped before any of them matters, so the
  property speaks of active ones.

What `Connection` shows:

- `KeysAgree` needs `misled`: a connectResponse does not say what it answers
  (`cl_main.c:2305-2321`). A client that connects again can take a late one for
  its own, and then uses a challenge the server's slot does not have, until the
  packets it cannot decode end the connection.
- `GetsIn` needs `ChallengeIsGone`: a second getchallenge gives the entry a new
  number (`sv_client.c:93`) while the client already has the first one, or
  `SV_DropClient` clears the entry (`sv_client.c:428-432`). The client repeats
  its connect, is told "No or bad challenge", and never asks for a new one.

Further observations, each a precondition of a property above:

- Without "stranded", `CommandReachesServer` is false: an old acknowledgement
  that is out of the window makes `CL_ParseServerMessage` take every command for
  acknowledged, and those are never sent.
- `SentInOrder` (the comment at `sv_net_chan.c:171-172`) is false once the queue
  was stranded, so it is stated as `OrderedUnlessStranded`.
- With a window that is exactly full, the slot of the acknowledged command holds
  the newest one, so the server decodes the packets wrongly until a newer
  acknowledgement comes. `PacketsDecode` therefore says "fewer than".
- `FinalMessageGoesOut` says when the final message does go out. With an idle
  channel the two calls emit two datagrams, so the first copy goes out if it takes
  no more than two; a copy of three stops after its second one. With one datagram
  of an earlier message left, the first call emits that one and queues the first
  copy, and the second call emits the first datagram of the second copy, which is
  all of it if it takes one. With more left, both copies stay in the queue.

The exceptions `raced`, `forced`, `misled` and `ChallengeIsGone` are hazards of the
code that do go wrong. The properties that name them say that nothing else does,
so in `PROJECT.json` these four hazards are not listed as covered; without its
exception TLC finds each of the properties violated.

## 5. Proofs

A theorem holds for every value of the constants that satisfies the named
assumptions of the module. They are only the types and signs of the parameters,
with one exception, `DelayAssumption` of `Connection` (below). One theorem has a
hypothesis besides, `ViewsChangeLittle` of `SnapshotsAsBuilt`.

| module | theorem | says |
|---|---|---|
| `SvNetChanProofs`, on `NetChan` | `TypeCorrect`, `ChannelAgrees`, `DeliveryCorrect`, `FragmentsStillComplete`, `Refinement` | `TypeOK`, `NetChanInv`, `DeliveredIntact` and `DeliveredInOrder`, `StillCompletable`, `ImplementsChannel` |
| `SvNetChanProofs`, on `SvNetChan` | `SvTypeCorrect`, `SvChannelAgrees`, `OrderIsKept`, `NothingIsLost`, `SvRefinement`, `SendQueueRefinement` | `SvTypeOK`, `NetChanInv`, `OrderedUnlessStranded`, `QueueLosesNothing`, `ImplementsChannel`, `ImplementsSendQueue` |
| `SvSendQueueProofs` | `TypeCorrect`, `FinalMessageIsSent` | `TypeOK`, `FinalMessageGoesOut` |
| `ClientCommandsProofs` | `TypeCorrect`, `UnacknowledgedHeld`, `LostOnlyThen`, `CommandStreamRefinement` | `TypeOK`, `UnacknowledgedIsHeld`, `LostOnlyIfStranded`, `ImplementsCommandStream` |
| `ServerCommandsProofs` | `TypeCorrect`, `ExecutedInOrder`, `ShownAfter`, `AcknowledgedStored`, `PacketsAreDecoded` | `TypeOK`, `ExecutedAsAdded`, `ShownAfterItsCommands`, `AcknowledgedIsStored`, `PacketsDecode` |
| `SnapshotDeltaProofs` | `SlotsCorrect`, `BaseHeld`, `TypeCorrect`, `SnapshotsAsBuilt` | `SlotsHoldTheirNumber`, `BaseIsHeld`, `TypeOK`, `ActiveSnapshotsAsBuilt` |
| `GameStateProofs` | `TypeCorrect`, `ConfigstringsReach`, `PacketsOfThisMap`, `SentIfMissed` | `TypeOK`, `ConfigstringsReachTheClient`, `PacketsAreOfThisMap`, `GameStateIsSentIfMissed` |
| `ConnectionProofs` | `TypeCorrect`, `KeysCorrect`, `ChannelIsNotReset` | `TypeOK`, `KeysAgree`, `NotResetWhileConnected` |

### The arguments

**NetChan.** "What was delivered is what was sent" is not inductive: it says
nothing of a half assembled message or of a datagram still on its way.
`NetChanInv` adds the three facts it needs. Every datagram in the network is the
slice of the message its header names. The sender's buffer is the last message
of the history. The part assembled is a prefix of the message it belongs to. A
fragment that continues the prefix extends it to a longer prefix, and since a
fragment shorter than `FragmentSize` is a slice that reaches the end, the message
it completes is whole (`SliceProperties` and the lemmas after it). Datagrams
once in the network stay true when the history grows, because it only grows at
its end. The refinement follows from the invariant: the message a step hands
over is `sent` at that sequence number, which is more than `incomingSequence`.

`StillCompletable` says what a sequence of fragments would do to the receiver, by
recursion over them. A recursion over `0 .. n` is a theorem of its own here:
`RecursionExists` takes the step as a function on a set of states and gives the
sequence of its values, by induction up to `n` on a set (`IntervalInduction`), so
that no rule with an operator parameter is needed. Each fragment then finds the
part assembled where it begins, either because the last one left it there or
because the part kept was already past it (`PartAligned`, `ReplayedEnds`), and the
last one, which is shorter than `FragmentSize` even when it is empty, completes
the message. The invariant it needs (`CompleteInv`) is that a kept part ends
where a fragment of its message begins, and that all fragments of a message but
the one going out are on the wire.

**SvNetChan.** A step makes up to two calls of the channel, and a call may pull
the queue. So the two functions are shown to keep a path (sender, network,
history, queue) in agreement, as operators on a value, and the steps are put
together from that (`PathAgrees`, `SvInv`). What a call does to the histories is
one of four things (`Waits`, `GoesOut`, `Continued`, `Popped`), and order and
bags are looked at for each. For the refinement of `SvSendQueue` the fragments
left are counted: the start of a fragment is a multiple of `FragmentSize`, and
the quotient is how many have gone.

**ClientCommands.** The invariant `IInv` says of the client that its ring holds
the last commands it added and that no more than a ring of them is
unacknowledged (`ClientIsSound`); of every packet in flight that it has the
commands from its first number on, and, unless a queue was stranded, begins
where the server is at the latest (`Packets`); and of the server's messages that
their acknowledgements rise on the whole path, through what is being sent,
queued and in flight, from what the client knows to what the server has executed
(`AcknowledgedInOrder`). The client takes an acknowledgement as it comes
(`cl_parse.c:837-841`), so that last part has to hold by itself; it fails with a
stranded queue, and that is why the theorems name it. The disconnect command may
take the slot of the oldest unacknowledged command, and the invariant says so.

**ServerCommands.** `IInv` relates four views of one log: the server's ring
(`ServerIsSound`), each message on the path (`Told`), the client's ring and what
the cgame has executed (`ClientHasLog`). `InStep` orders them: the commands a
message was built with rise along the path, acknowledgements rise along the way
back, and each end is ahead of what the other has heard. `WindowIsBounded` is
the bound on the mutual recursion of `SV_AddServerCommand` and `SV_DropClient`:
a client that is not dropped has not overflown, and no more than ten commands
are added past the bound of the model: the print, three configstrings and the
disconnect, and once again if one of them overflows the window (`AddsOrDrops`). `SendPathProofs` has the lemmas about
order on a path and about rings that four of the modules use.

**SnapshotDelta.** Nothing of `SlotsCorrect` and `BaseHeld` depends on what a
snapshot contains, so for them the entities stay any value and the merge is not
opened. `IInv` says that a base the client may name, the server may use, or a
message on its way does use, is held (`Holds`: it was valid, and is in its slot
as long as less than a turn of the ring has come since), and that a slot that is
valid has the number it is asked for. The step that matters is a valid snapshot: the slots of the
messages skipped are invalidated, at most a turn of them, and each is a turn from
any base it shares a slot with. Gamestates need an argument of their own: a
packet of the client's map that acknowledges a message behind the last gamestate,
or an active client, is in the map the server is in, so no base of an earlier map
is ever used, although the numbers go on.

`SnapshotsAsBuilt` opens the merge. `MergeCorrect` is about
`CL_ParsePacketEntities` alone: if the ring still has the base that the delta was
taken from, and the new snapshot has no more than `ParseMargin` entities that the
base has not, the merge leaves the new snapshot in the ring. It is an induction
over the changes of the message, inside which another goes over the entities that
are copied, with `RecursionExists` and `IntervalInduction` of `SendPathProofs` for
both. Between two changes the merge has written the new entities below a number,
reads the base at the first entity not below it, and is ahead of where it reads by
no more than the entities that have come (`Fresh`), so what it still has to read
is not overwritten. That count is where `ParseMargin` is needed, and all of the
hypothesis. The invariant `EntitiesAgree` then relates the ends: the server's ring
still has the entities of each frame it may use as a base, or says it has not
(`RolledOff`) (`Linked`); a snapshot on its way is the delta from what the client
has under the number of its base (`SnapshotAgrees`); a frame of the client in
which nothing was garbled is in its ring as the server saw it, up to a turn of the
ring (`Decoded`, `FrameAgrees`). A snapshot of another map is not active, a
gamestate empties the client's half, and the gamestate of the map comes before its
first active snapshot (`MapsInOrder`), so the garbled snapshots of a map change
are never a base.

**GameState.** serverIds only grow, and a map is known by the one it began with,
`restartedServerId`. So every serverId on its way, in a packet, a gamestate or a
"cs" command, is on one side of it, and `IInv` says on which. A client in the
server's map, a packet it wrote and the commands it has still to execute have
serverIds of the map (`ClientFollows`, `PacketIsSound`, `OfThisMap`); a client in
another map has older ones, and so have all the commands of the log, because the
server adds none until the client is in the world (`ClientIsBehind`).
That is `PacketsAreOfThisMap`. For the configstrings the invariant looks ahead:
what a client in the map holds, with the commands behind the last one it
executed, is what the server holds, apart from those that wait for it to enter
the world (`Reaches`); the same of a gamestate that is still in flight, from the
command it was built at. A client that executes commands moves along the log and
stays on that path. One that reads a gamestate starts again at the last command
it has executed, which is only in step when the gamestate has not overtaken a
command, and that is the exception `history.stale`. `SentOrder` keeps the
messages in flight in the order of what they reach: a snapshot behind the last
gamestate cannot be followed by one before it, which is why a client that
acknowledges a message behind the gamestate, and is not in the map, has lost it
(`GameStateIsSentIfMissed`). All the lemmas about the server's actions say the
same thing of them, that a client and a gamestate which were on the path still
are (`Follows`).

**Connection.** Attempts of the client are numbered, and the invariant follows a
connect through its life. Nothing comes from a later attempt
(`NothingFromLater`); there is no connect before its challenge
(`ConnectsComeAfterChallenge`) and one challenge for each attempt
(`OneChallengePerAttempt`); once the server has taken a connect, the slot is that
attempt's and older connects are older than the slot's clocks (`AcceptedIsHeld`);
while an answer is on its way, the slot is not given up (`AnswersAreRecent`); and
connects that are left when the client is connected are too recent for
`sv_reconnectlimit` to let them pass (`ConnectsAreRecent`). The clocks are what
makes it true: `DelayAssumption` says that twice the delay of the network is less
than the reconnect limit, and the delay is no more than the zombie time and the
server's timeout. In the code these are 3, 2 and 200 seconds
(`sv_init.c:665-676`). A datagram that is older breaks the property in the code
too, because nothing in it says when it was sent. `KeysAgree` has the exception
`misled`, which each accepted connectResponse sets anew.

Every `IInv` was checked by TLC on the instances of section 3, or on smaller
ones, before it was proved.

### Model-checked only

Every invariant and every action property of a passing run is stated by a theorem,
and so are the refinements. What remains is liveness under fairness and `ENABLED`:
`FragmentsPullTheQueue`, `CommandReachesServer`, `EntersTheWorld`, `GetsIn`,
`SlotIsFreed`. That `SnapshotsAsBuilt` needs its hypothesis is shown by the two
instances of section 4, which are not among the runs.

## 6. Not modelled, and the plan

Not modelled in the components above: rates and snapshot intervals (a snapshot
may be due in any frame), more than one client, the fields of entities and user
commands, pure server checks, demos, the queue of a slot that is reused, integer
wrap-around of sequence numbers (`SV_Frame` restarts the server long before). The
last three modules of the table take an idle send path; what a stranded queue does to
gamestates and handshakes is not covered.

Not modelled at all, and why: the renderer, sound, collision, VM, file system and
bit packing are data conversion, geometry or input and output around tables; the
vendored libraries, compiler headers and tools under `Tools/` and `Engine/` are
not this program, although they are most of the tree; combat, menus and drawing
have no protocol. `PROJECT.json` says it for each.

Next modules, in this order, with the abstract specification each deserves:

1. `Download` - the window of blocks, resending, 16 bit block numbers. Promise:
   the file is a prefix at all times, and complete in the end.
2. `PowerLevel` - the counters of `PM_CheckPowerLevel`, `PM_CheckTransform` and
   `checkTier`; then `Voip`, `BotLite`, `Loopback`.
3. The send queue under `GameState`: `gamestateMessageNum` is set before the
   message is queued, and a stranded gamestate sets `serverCommandSequence` back.

Theorems to prove next: `GameState` over a send queue that may be stranded needs the
order of `SendPathProofs` in place of `SentOrder`. Liveness for server commands (a
command added is executed) goes to TLC, on a small instance of its own.
