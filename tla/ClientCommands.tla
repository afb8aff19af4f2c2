--------------------------- MODULE ClientCommands ---------------------------
(***************************************************************************)
(* Reliable commands from the client to the server: CL_AddReliableCommand  *)
(* puts them in a ring, every client packet repeats the ones that are not  *)
(* acknowledged, SV_ClientCommand executes the next one, and every server  *)
(* message carries the acknowledgement it was built with.                  *)
(*                                                                         *)
(* A command's text is its number, 0 is the empty string and Disconnect    *)
(* the disconnect command.  lastClientCommandString is the text of         *)
(* lastClientCommand, so the key of a server message is that number.       *)
(* A client packet whose body the server cannot decode or ignores (see     *)
(* ServerCommands) counts as lost here.                                    *)
(***************************************************************************)
EXTENDS SendPath, Integers, FiniteSetsExt

CONSTANTS
    MaxReliable,     \* MAX_RELIABLE_COMMANDS
    Disconnect,      \* the text of the disconnect command
    SnapshotSizes,   \* datagrams a snapshot may take
    GameStateSizes,  \* datagrams a gamestate may take
    MaxCommands,     \* bound of the model: commands the client adds
    MaxGameStates    \* bound of the model: gamestates sent to the client

ASSUME ClientCommandsAssumption ==
    /\ MaxReliable \in Nat \ {0}
    /\ Disconnect \notin Nat
    /\ SnapshotSizes \subseteq Nat \ {0}
    /\ GameStateSizes \subseteq Nat \ {0}
    /\ MaxCommands \in Nat
    /\ MaxGameStates \in Nat

VARIABLES
    cl,         \* clc: connected, reliableSequence, -Acknowledge, -Commands
    sv,         \* client_t: lastClientCommand, zombie
    toServer,   \* client packets in flight, the oldest first
    path,       \* the server's send path and its messages in flight
    gameStates, \* gamestates sent so far
    executed,   \* history: the texts the server executed
    stranded,   \* history: the send queue was stranded once
    lost        \* history: the server has dropped the client for lost commands

vars == <<cl, sv, toServer, path, gameStates, executed, stranded, lost>>

Slot(n) == n % MaxReliable

Text == (0 .. MaxCommands) \cup {Disconnect}

ClientHalf == [connected           : BOOLEAN,
               reliableSequence    : 0 .. MaxCommands + 1,
               reliableAcknowledge : 0 .. MaxCommands + 1,
               reliableCommands    : [0 .. MaxReliable - 1 -> Text]]

ServerHalf == [lastClientCommand : 0 .. MaxCommands + 1, zombie : BOOLEAN]

ServerMessage == [ack       : 0 .. MaxCommands + 1,
                  key       : 0 .. MaxCommands + 1,
                  datagrams : SnapshotSizes \cup GameStateSizes]

ClientMessage == [first : 1 .. MaxCommands + 2, texts : Seq(Text)]

TypeOK ==
    /\ cl \in ClientHalf
    /\ sv \in ServerHalf
    /\ toServer \in Seq(ClientMessage)
    /\ path.left \in Nat
    /\ \A s \in {path.current, path.queue, path.flight} : s \in Seq(ServerMessage)
    /\ (path.left > 0) = (Len(path.current) = 1)
    /\ gameStates \in 0 .. MaxGameStates
    /\ executed \in Seq(Text)
    /\ stranded \in BOOLEAN
    /\ lost \in BOOLEAN

Init ==
    /\ cl = [connected           |-> TRUE,
             reliableSequence    |-> 0,
             reliableAcknowledge |-> 0,
             reliableCommands    |-> [i \in 0 .. MaxReliable - 1 |-> 0]]
    /\ sv = [lastClientCommand |-> 0, zombie |-> FALSE]
    /\ toServer = <<>>
    /\ path = IdlePath
    /\ gameStates = 0
    /\ executed = <<>>
    /\ stranded = FALSE
    /\ lost = FALSE

-----------------------------------------------------------------------------
(* The client. *)

Unacknowledged(c) == c.reliableSequence - c.reliableAcknowledge

Stored(c, text) ==
    [c EXCEPT !.reliableSequence = @ + 1,
              !.reliableCommands[Slot(c.reliableSequence + 1)] = text]

(* The body of CL_WritePacket: every command after the acknowledged one.    *)
Packet(c) ==
    [first |-> c.reliableAcknowledge + 1,
     texts |-> [i \in 1 .. Unacknowledged(c) |->
                   c.reliableCommands[Slot(c.reliableAcknowledge + i)]]]

(* CL_Disconnect from the state c: the disconnect command is added even     *)
(* with a full window, its packet is sent (three times, for the case that   *)
(* one is lost) and clc is wiped.                                           *)
DisconnectFrom(c) ==
    LET last == Stored(c, Disconnect)
    IN  /\ cl' = [last EXCEPT !.connected = FALSE]
        /\ toServer' = Flying(toServer, Packet(last))

(* Seeded fault: one command too many before the overflow. *)
WindowFullLate(c) == Unacknowledged(c) > MaxReliable

(* The overflow condition of CL_AddReliableCommand for any command but      *)
(* disconnect.                                                              *)
WindowFull(c) == Unacknowledged(c) >= MaxReliable

ClAddCommand ==
    /\ cl.connected
    /\ cl.reliableSequence < MaxCommands
    /\ ~WindowFull(cl)
    /\ cl' = Stored(cl, cl.reliableSequence + 1)
    /\ UNCHANGED <<sv, toServer, path, gameStates, executed, stranded, lost>>

(* "Client command overflow" is an ERR_DROP, which disconnects. *)
ClOverflow ==
    /\ cl.connected
    /\ WindowFull(cl)
    /\ DisconnectFrom(cl)
    /\ UNCHANGED <<sv, path, gameStates, executed, stranded, lost>>

ClDisconnect ==
    /\ cl.connected
    /\ DisconnectFrom(cl)
    /\ UNCHANGED <<sv, path, gameStates, executed, stranded, lost>>

(* CL_WritePacket, whose fragments are all fired off at once. *)
ClWritePacket ==
    /\ cl.connected
    /\ toServer' = Flying(toServer, Packet(cl))
    /\ UNCHANGED <<cl, sv, path, gameStates, executed, stranded, lost>>

(* The key CL_Netchan_Decode finds for a message is the one it was encoded  *)
(* with.                                                                    *)
Decodes(c, m) == c.reliableCommands[Slot(m.ack)] = m.key

(* Seeded fault: an acknowledgement that is out of the window is believed. *)
AcknowledgedUnchecked(c, m) == [c EXCEPT !.reliableAcknowledge = m.ack]

(* Seeded fault: the oldest acknowledgement of the window counts as out of it. *)
AcknowledgedAtEdge(c, m) ==
    [c EXCEPT !.reliableAcknowledge =
        IF m.ack <= c.reliableSequence - MaxReliable
        THEN c.reliableSequence ELSE m.ack]

(* The beginning of CL_ParseServerMessage; an older acknowledgement than    *)
(* the last one is taken too.                                               *)
Acknowledged(c, m) ==
    [c EXCEPT !.reliableAcknowledge =
        IF m.ack < c.reliableSequence - MaxReliable
        THEN c.reliableSequence ELSE m.ack]

(* A body that was not decoded is parsed as it comes: it may end the parse  *)
(* or raise an error, which disconnects.                                    *)
ClReceive(i) ==
    LET m == path.flight[i]
        next == Acknowledged(cl, m)
    IN  /\ cl.connected
        /\ path' = [path EXCEPT !.flight = AfterArrival(@, i)]
        /\ \/ /\ cl' = next
              /\ UNCHANGED toServer
           \/ /\ ~Decodes(cl, m)
              /\ DisconnectFrom(next)
        /\ UNCHANGED <<sv, gameStates, executed, stranded, lost>>

-----------------------------------------------------------------------------
(* The server. *)

(* Seeded fault: the next command in turn is skipped too. *)
AfterNextInTurn(m) == sv.lastClientCommand + 3 - m.first

(* The position in packet m of the command behind lastClientCommand. *)
NextInTurn(m) == sv.lastClientCommand + 2 - m.first

(* The texts SV_ClientCommand executes: the new ones, up to a disconnect    *)
(* command, which ends the parse.                                           *)
NewTexts(m) ==
    LET new == {i \in DOMAIN m.texts : i >= NextInTurn(m)}
        ends == {i \in new : m.texts[i] = Disconnect}
    IN  IF new = {} THEN <<>>
        ELSE SubSeq(m.texts, NextInTurn(m),
                    IF ends = {} THEN Len(m.texts) ELSE Min(ends))

LosesCommands(m) == m.texts # <<>> /\ m.first > sv.lastClientCommand + 1

(* SV_PacketEvent and SV_ExecuteClientMessage; a zombie client's packet is  *)
(* not executed.                                                            *)
SvIgnore(i) ==
    /\ sv.zombie
    /\ toServer' = AfterArrival(toServer, i)
    /\ UNCHANGED <<cl, sv, path, gameStates, executed, stranded, lost>>

SvExecute(i) ==
    LET texts == NewTexts(toServer[i])
    IN  /\ ~sv.zombie
        /\ ~LosesCommands(toServer[i])
        /\ toServer' = AfterArrival(toServer, i)
        /\ executed' = executed \o texts
        /\ sv' = [lastClientCommand |-> sv.lastClientCommand + Len(texts),
                  zombie |-> \E j \in DOMAIN texts : texts[j] = Disconnect]
        /\ UNCHANGED <<cl, path, gameStates, stranded, lost>>

(* "Lost reliable commands". *)
SvLostCommands(i) ==
    /\ ~sv.zombie
    /\ LosesCommands(toServer[i])
    /\ toServer' = AfterArrival(toServer, i)
    /\ sv' = [sv EXCEPT !.zombie = TRUE]
    /\ lost' = TRUE
    /\ UNCHANGED <<cl, path, gameStates, executed, stranded>>

(* SV_DropClient for any other reason: a kick, a timeout, an overflow. *)
SvDropClient ==
    /\ ~sv.zombie
    /\ sv' = [sv EXCEPT !.zombie = TRUE]
    /\ UNCHANGED <<cl, toServer, path, gameStates, executed, stranded, lost>>

(* Every server message begins with lastClientCommand. *)
Message(n) ==
    [ack |-> sv.lastClientCommand, key |-> sv.lastClientCommand, datagrams |-> n]

Sends(next) ==
    /\ path' = next
    /\ stranded' = (stranded \/ Strands(next))
    /\ UNCHANGED <<cl, sv, toServer, executed, lost>>

(* SV_SendClientMessages, zombies included. *)
SendFragment ==
    /\ path.left > 0
    /\ Sends(SvTransmitNextFragment(path, sv.lastClientCommand))
    /\ UNCHANGED gameStates

SendSnapshot ==
    /\ path.left = 0
    /\ \E n \in SnapshotSizes :
          Sends(SvTransmit(path, Message(n), sv.lastClientCommand))
    /\ UNCHANGED gameStates

(* SV_SendClientGameState, called while a client's packet is executed. *)
SendGameState ==
    /\ ~sv.zombie
    /\ gameStates < MaxGameStates
    /\ \E n \in GameStateSizes :
          Sends(SvTransmit(path, Message(n), sv.lastClientCommand))
    /\ gameStates' = gameStates + 1

-----------------------------------------------------------------------------
(* The network loses a message. *)
Lose ==
    /\ \/ /\ \E i \in DOMAIN toServer : toServer' = AfterLoss(toServer, i)
          /\ UNCHANGED path
       \/ /\ \E i \in DOMAIN path.flight :
                path' = [path EXCEPT !.flight = AfterLoss(@, i)]
          /\ UNCHANGED toServer
    /\ UNCHANGED <<cl, sv, gameStates, executed, stranded, lost>>

SvReceive ==
    \E i \in DOMAIN toServer : SvIgnore(i) \/ SvExecute(i) \/ SvLostCommands(i)

Next ==
    \/ ClAddCommand
    \/ ClOverflow
    \/ ClDisconnect
    \/ ClWritePacket
    \/ \E i \in DOMAIN path.flight : ClReceive(i)
    \/ SvReceive
    \/ SvDropClient
    \/ SendFragment
    \/ SendSnapshot
    \/ SendGameState
    \/ Lose

(* The client sends packets and the server executes the ones that arrive;   *)
(* a packet that is sent again and again arrives some day.                  *)
Fairness == WF_vars(ClWritePacket) /\ SF_vars(SvReceive)

Spec == Init /\ [][Next]_vars /\ Fairness
-----------------------------------------------------------------------------
(* The server executes the commands the client added, each once, in order   *)
(* and with its own text, until one of the two ends the connection          *)
(* (cl_main.c:462-481, cl_input.c:775-780, sv_client.c:1360-1408), although *)
(* the ring is reused, packets are lost and acknowledgements come late.     *)
(* The disconnect command is not one of them.                               *)
Commands ==
    IF executed # <<>> /\ executed[Len(executed)] = Disconnect
    THEN SubSeq(executed, 1, Len(executed) - 1)
    ELSE executed

Stream ==
    INSTANCE CommandStream WITH
        added    <- cl.reliableSequence - (IF cl.connected THEN 0 ELSE 1),
        executed <- Commands,
        closed   <- sv.zombie

ImplementsCommandStream == Stream!Init /\ [][Stream!Next]_Stream!vars

(* Every command that is not acknowledged is still in the ring, so that it  *)
(* can be sent again.  An acknowledgement may go back, when the send queue  *)
(* was stranded; then the check in CL_ParseServerMessage keeps this true    *)
(* (cl_parse.c:838-842).                                                    *)
UnacknowledgedIsHeld ==
    cl.connected =>
        \A n \in cl.reliableAcknowledge + 1 .. cl.reliableSequence :
            cl.reliableCommands[Slot(n)] = n

(* The server sees a gap in the commands, and drops the client for it       *)
(* (sv_client.c:1376-1381), only after a stranded queue has let an old      *)
(* acknowledgement overtake a newer one.                                    *)
LostOnlyIfStranded == lost => stranded

(* "modify the key with the last received and with this message             *)
(* acknowledged client command" (sv_net_chan.c:65): the two are the same.   *)
KeyIsAcknowledged ==
    \A i \in DOMAIN path.flight : path.flight[i].key = path.flight[i].ack

(* "The given command will be transmitted to the server" (cl_main.c:458):   *)
(* a command the client added is executed, unless the connection ends or    *)
(* the send queue was stranded.                                             *)
CommandReachesServer ==
    \A n \in 1 .. MaxCommands :
        cl.reliableSequence >= n
            ~> \/ sv.lastClientCommand >= n
               \/ sv.zombie
               \/ ~cl.connected
               \/ stranded
=============================================================================
