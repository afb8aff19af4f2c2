----------------------------- MODULE Connection -----------------------------
(***************************************************************************)
(* How a client gets into a slot of the server and out of it again: the    *)
(* challenge, the connect, both ends' channels, disconnects, timeouts and  *)
(* zombies.  sv_client.c (SV_GetChallenge, SV_DirectConnect,               *)
(* SV_DropClient), sv_main.c (SV_PacketEvent, SV_CheckTimeouts) and        *)
(* cl_main.c.                                                              *)
(*                                                                         *)
(* One client, which has one address and one qport and may connect again   *)
(* and again, and the slot the server keeps for them.  Datagrams are lost, *)
(* duplicated and arrive in any order, but not later than MaxDelay; time   *)
(* passes in steps (of a second, say) in which many frames fit.            *)
(*                                                                         *)
(* A sequenced packet stands for any number of them.  Its key is made from *)
(* the challenge, so that packets of another connection decode to garbage. *)
(***************************************************************************)
EXTENDS Integers, FiniteSetsExt

CONSTANTS
    Retransmit,      \* RETRANSMIT_TIMEOUT of the client
    ReconnectLimit,  \* sv_reconnectlimit
    ZombieTime,      \* sv_zombietime
    SvTimeout,       \* sv_timeout
    ClTimeout,       \* cl_timeout
    MaxDelay,        \* bound of the network: how late a datagram arrives
    MaxAttempts,     \* bound of the model: connects by the user
    MaxKicks,        \* bound of the model: clients dropped by the server
    MaxDuplicates,   \* bound of the network: datagrams that arrive twice
    Challenge        \* the challenge numbers

ASSUME ConnectionAssumption ==
    /\ {Retransmit, ReconnectLimit, ZombieTime, SvTimeout, ClTimeout,
        MaxDelay, MaxAttempts, MaxKicks, MaxDuplicates} \subseteq Nat
    /\ Challenge \subseteq Nat \ {0} /\ 1 \in Challenge

(* The network delivers within the limits of the server: 3 and 2 seconds,   *)
(* and 200 (sv_init.c:665-676).                                             *)
ASSUME DelayAssumption ==
    /\ 2 * MaxDelay < ReconnectLimit
    /\ MaxDelay <= ZombieTime
    /\ MaxDelay <= SvTimeout

VARIABLES
    slot,        \* client_t
    challenges,  \* svs.challenges, the entries of this address
    cl,          \* cls and clc
    toServer,    \* datagrams on their way to the server
    toClient,    \* datagrams on their way to the client
    counts,      \* kicks and duplicates so far
    misled       \* it was an earlier connect whose connectResponse the client took

vars == <<slot, challenges, cl, toServer, toClient, counts, misled>>

NoChallenge == 0
Entry == 1 .. MaxAttempts + 2
NoEntry == [challenge |-> NoChallenge, connected |-> FALSE]
UsedEntry(challenge) == [challenge |-> challenge, connected |-> TRUE]

(* Seeded fault: a clock runs on where it no longer matters. *)
LaterUnbounded(clock, limit) == clock + 1

(* Clocks stop where they no longer matter. *)
Later(clock, limit) == IF clock < limit THEN clock + 1 ELSE clock
SvClock == IF SvTimeout > ZombieTime THEN SvTimeout + 1 ELSE ZombieTime + 1

Slot == [state        : {"free", "connected", "zombie"},
         attempt      : 0 .. MaxAttempts,
         challenge    : Challenge \cup {NoChallenge},
         sinceConnect : 0 .. ReconnectLimit,
         silent       : 0 .. SvClock]

(* A client_t of which only the state is looked at. *)
FreeSlot == [state |-> "free", attempt |-> 0, challenge |-> NoChallenge,
             sinceConnect |-> ReconnectLimit, silent |-> SvClock]

Client == [state     : {"disconnected", "connecting", "challenging",
                        "connected", "active"},
           attempt   : 0 .. MaxAttempts,
           challenge : Challenge \cup {NoChallenge},
           sinceSend : 0 .. Retransmit,
           silent    : 0 .. ClTimeout + 1]

Datagram(kinds) ==
    [kind : kinds, attempt : 0 .. MaxAttempts,
     challenge : Challenge \cup {NoChallenge}, age : 0 .. MaxDelay]

ToServerKinds == {"getchallenge", "connect", "packet", "leave"}
ToClientKinds == {"challengeResponse", "connectResponse", "message",
                  "dropped", "disconnect"}

TypeOK ==
    /\ slot \in Slot
    /\ challenges \in [Entry -> [challenge : Challenge \cup {NoChallenge},
                                 connected : BOOLEAN]]
    /\ cl \in Client
    /\ toServer \subseteq Datagram(ToServerKinds)
    /\ toClient \subseteq Datagram(ToClientKinds)
    /\ counts \in [kicks : 0 .. MaxKicks, duplicates : 0 .. MaxDuplicates]
    /\ misled \in BOOLEAN

(* The client is new to the server. *)
InitNew ==
    /\ slot = FreeSlot
    /\ challenges = [e \in Entry |-> NoEntry]
    /\ toServer = {}
    /\ toClient = {}

(* The client connected just before and crashed, with datagrams and answers *)
(* still on their way; the server does not know.                            *)
InitCrashed ==
    LET earlier(kind) == [kind |-> kind, attempt |-> 0, challenge |-> 1, age |-> 0]
    IN  /\ slot = [FreeSlot EXCEPT !.state = "connected", !.challenge = 1,
                                   !.sinceConnect = 0, !.silent = 0]
        /\ challenges = [e \in Entry |-> IF e = 1 THEN UsedEntry(1) ELSE NoEntry]
        /\ toServer = {earlier(kind) : kind \in {"connect", "packet"}}
        /\ toClient = {earlier(kind) : kind \in {"connectResponse", "message"}}

Init ==
    /\ InitNew \/ InitCrashed
    /\ cl = [state |-> "disconnected", attempt |-> 0, challenge |-> NoChallenge,
             sinceSend |-> Retransmit, silent |-> 0]
    /\ counts = [kicks |-> 0, duplicates |-> 0]
    /\ misled = FALSE

-----------------------------------------------------------------------------
(* The network. *)

FromClient(kind) ==
    [kind |-> kind, attempt |-> cl.attempt, challenge |-> cl.challenge, age |-> 0]

(* An answer goes back to the attempt that asked. *)
FromServer(kind, attempt, challenge) ==
    [kind |-> kind, attempt |-> attempt, challenge |-> challenge, age |-> 0]

(* A datagram that arrives may have been duplicated, and arrive once more.  *)
Duplicated ==
    /\ counts.duplicates < MaxDuplicates
    /\ counts' = [counts EXCEPT !.duplicates = @ + 1]

ArrivesAtServer(d) ==
    \/ toServer' = toServer \ {d} /\ UNCHANGED counts
    \/ toServer' = toServer /\ Duplicated
ArrivesAtClient(d) ==
    \/ toClient' = toClient \ {d} /\ UNCHANGED counts
    \/ toClient' = toClient /\ Duplicated

Older(flight) ==
    {[d EXCEPT !.age = @ + 1] : d \in {f \in flight : f.age < MaxDelay}}

-----------------------------------------------------------------------------
(* The client. *)

IsConnected == cl.state \in {"connected", "active"}

(* CL_Disconnect: the command is sent three times, and arrives or not. *)
Left == [cl EXCEPT !.state = "disconnected", !.challenge = NoChallenge,
                   !.sinceSend = Retransmit, !.silent = 0]
LeavingPackets == IF IsConnected THEN {FromClient("leave")} ELSE {}

(* The user quits the game. *)
ClDisconnect ==
    /\ cl.state # "disconnected"
    /\ cl' = Left
    /\ toServer' = toServer \cup LeavingPackets
    /\ UNCHANGED <<slot, challenges, toClient, counts, misled>>

(* CL_Connect_f, from whatever state. *)
ClConnect ==
    /\ cl.attempt < MaxAttempts
    /\ cl' = [Left EXCEPT !.state = "connecting", !.attempt = @ + 1]
    /\ toServer' = toServer \cup LeavingPackets
    /\ UNCHANGED <<slot, challenges, toClient, counts, misled>>

(* Seeded fault: only the first of the two requests is repeated. *)
ResendDueOfChallenge ==
    cl.state = "connecting" /\ cl.sinceSend >= Retransmit

ResendDue ==
    /\ cl.state \in {"connecting", "challenging"}
    /\ cl.sinceSend >= Retransmit

(* CL_CheckForResend *)
ClCheckForResend ==
    /\ ResendDue
    /\ cl' = [cl EXCEPT !.sinceSend = 0]
    /\ toServer' = toServer \cup
          {FromClient(IF cl.state = "connecting" THEN "getchallenge" ELSE "connect")}
    /\ UNCHANGED <<slot, challenges, toClient, counts, misled>>

(* CL_WritePacket *)
ClWritePacket ==
    /\ IsConnected
    /\ ~\E d \in toServer : d.kind = "packet"
    /\ toServer' = toServer \cup {FromClient("packet")}
    /\ UNCHANGED <<slot, challenges, cl, toClient, counts, misled>>

ClTimeoutDue == IsConnected /\ cl.silent > ClTimeout

(* CL_CheckTimeout *)
ClCheckTimeout ==
    /\ ClTimeoutDue
    /\ cl' = Left
    /\ toServer' = toServer \cup LeavingPackets
    /\ UNCHANGED <<slot, challenges, toClient, counts, misled>>

ClientReads(d, next) ==
    /\ cl' = next
    /\ ArrivesAtClient(d)
    /\ UNCHANGED <<slot, challenges>>

(* CL_PacketEvent: lastPacketTime is set whatever the packet is. *)
Heard == [cl EXCEPT !.silent = 0]

(* challengeResponse, in CL_ConnectionlessPacket *)
ClReceiveChallenge(d) ==
    /\ d.kind = "challengeResponse"
    /\ ClientReads(d, IF cl.state = "connecting"
                      THEN [Heard EXCEPT !.state = "challenging",
                                         !.challenge = d.challenge,
                                         !.sinceSend = Retransmit]
                      ELSE Heard)
    /\ UNCHANGED <<toServer, misled>>

AwaitsConnectResponse == cl.state = "challenging"

(* connectResponse, in CL_ConnectionlessPacket *)
ClReceiveConnect(d) ==
    /\ d.kind = "connectResponse"
    /\ ClientReads(d, IF AwaitsConnectResponse
                      THEN [Heard EXCEPT !.state = "connected",
                                         !.sinceSend = Retransmit]
                      ELSE Heard)
    /\ misled' = IF AwaitsConnectResponse THEN d.attempt # cl.attempt ELSE misled
    /\ UNCHANGED toServer

(* CL_DisconnectPacket: the packet must come three seconds after the last.  *)
DisconnectCounts == Heard.silent >= 3

ClReceiveDisconnect(d) ==
    LET leaves == IsConnected /\ DisconnectCounts
    IN  /\ d.kind = "disconnect"
        /\ ClientReads(d, IF leaves THEN Left ELSE Heard)
        /\ toServer' = IF leaves THEN toServer \cup LeavingPackets ELSE toServer
        /\ UNCHANGED misled

(* A message from the slot: the game comes up once it has been loaded, and  *)
(* executes a "disconnect" command.  A message with another key is garbage, *)
(* if its sequence number has it read at all.                               *)
ClReceiveMessage(d) ==
    LET own == d.challenge = cl.challenge
        leaves == IsConnected /\ \/ own /\ d.kind = "dropped" /\ cl.state = "active"
                                 \/ ~own
    IN  /\ d.kind \in {"message", "dropped"}
        /\ UNCHANGED misled
        /\ \/ /\ ~(leaves /\ own)
              /\ ClientReads(d, Heard)
              /\ UNCHANGED toServer
           \/ /\ cl.state = "connected" /\ own
              /\ ClientReads(d, [Heard EXCEPT !.state = "active"])
              /\ UNCHANGED toServer
           \/ /\ leaves
              /\ ClientReads(d, Left)
              /\ toServer' = toServer \cup LeavingPackets

-----------------------------------------------------------------------------
(* The server. *)

(* A number that is not in use anywhere. *)
FreshChallenges ==
    Challenge \ ({slot.challenge, cl.challenge}
                    \cup {challenges[e].challenge : e \in Entry}
                    \cup {d.challenge : d \in toServer \cup toClient})

(* SV_GetChallenge: an entry of the address that has not been used to       *)
(* connect gets a new number, otherwise the oldest entry is taken.          *)
EntryFor ==
    LET waiting == {e \in Entry : /\ challenges[e] # NoEntry
                                  /\ ~challenges[e].connected}
        unused == {e \in Entry : challenges[e] = NoEntry}
    IN  IF waiting # {} THEN Min(waiting) ELSE Min(unused)

ServerReads(d) ==
    /\ ArrivesAtServer(d)
    /\ UNCHANGED <<cl, misled>>

SvGetChallenge(d) ==
    \E new \in FreshChallenges :
        /\ d.kind = "getchallenge"
        /\ \A other \in FreshChallenges : new <= other
        /\ challenges' = [challenges EXCEPT
              ![EntryFor] = [challenge |-> new, connected |-> FALSE]]
        /\ toClient' = toClient \cup {FromServer("challengeResponse", d.attempt, new)}
        /\ ServerReads(d)
        /\ UNCHANGED slot

(* Seeded fault: sv_reconnectlimit is not looked at. *)
NeverTooSoon == FALSE

TooSoon == slot.state # "free" /\ slot.sinceConnect < ReconnectLimit

IsValid(challenge) ==
    \E e \in Entry : challenges[e] # NoEntry /\ challenges[e].challenge = challenge

(* Seeded fault: a slot that is used again keeps its challenge. *)
NewClientOldChallenge(d) ==
    [state |-> "connected", attempt |-> d.attempt,
     challenge |-> IF slot.state = "free" THEN d.challenge ELSE slot.challenge,
     sinceConnect |-> 0, silent |-> 0]

(* "this is the only place a client_t is ever initialized" *)
NewClient(d) ==
    [state |-> "connected", attempt |-> d.attempt, challenge |-> d.challenge,
     sinceConnect |-> 0, silent |-> 0]

(* SV_DirectConnect, of a client the game accepts. *)
SvDirectConnect(d) ==
    /\ d.kind = "connect"
    /\ ServerReads(d)
    /\ IF TooSoon \/ ~IsValid(d.challenge)
       THEN UNCHANGED <<slot, challenges, toClient>>
       ELSE /\ challenges' = [e \in Entry |->
                  IF challenges[e].challenge = d.challenge
                  THEN UsedEntry(d.challenge) ELSE challenges[e]]
            /\ slot' = NewClient(d)
            /\ toClient' = toClient \cup
                  {FromServer("connectResponse", d.attempt, NoChallenge)}

(* SV_DropClient: the first entry of the address is cleared. *)
Cleared ==
    LET used == {e \in Entry : challenges[e] # NoEntry}
    IN  IF used = {} THEN challenges ELSE [challenges EXCEPT ![Min(used)] = NoEntry]

SvDropped == [slot EXCEPT !.state = "zombie"]

(* SV_PacketEvent.  A packet of an earlier connection may have a sequence   *)
(* number that lets it pass; it is then garbage, but it has been heard.     *)
SvReceivePacket(d) ==
    LET own == d.challenge = slot.challenge
        heard == [slot EXCEPT !.silent = 0]
    IN  /\ d.kind \in {"packet", "leave"}
        /\ toServer' = toServer \ {d}
        /\ UNCHANGED <<cl, counts, misled>>
        /\ \/ /\ slot.state = "free"
              /\ toClient' = toClient \cup
                    {FromServer("disconnect", d.attempt, NoChallenge)}
              /\ UNCHANGED <<slot, challenges>>
           \/ /\ slot.state = "zombie" \/ (slot.state = "connected" /\ ~own)
              /\ UNCHANGED <<slot, challenges, toClient>>
           \/ /\ slot.state = "connected"
              /\ ~own \/ d.kind = "packet"
              /\ slot' = heard
              /\ UNCHANGED <<challenges, toClient>>
           \/ /\ slot.state = "connected" /\ own /\ d.kind = "leave"
              /\ slot' = [SvDropped EXCEPT !.silent = 0]
              /\ challenges' = Cleared
              /\ UNCHANGED toClient

(* SV_SendClientMessages; a zombie is sent its "disconnect" command. *)
SvSendMessage ==
    /\ slot.state # "free"
    /\ ~\E d \in toClient : d.kind \in {"message", "dropped"}
    /\ toClient' = toClient \cup
          {FromServer(IF slot.state = "zombie" THEN "dropped" ELSE "message",
                      slot.attempt, slot.challenge)}
    /\ UNCHANGED <<slot, challenges, cl, toServer, counts, misled>>

(* The server drops the client: a kick, an overflow, ... *)
SvKick ==
    /\ counts.kicks < MaxKicks
    /\ counts' = [counts EXCEPT !.kicks = @ + 1]
    /\ slot.state = "connected"
    /\ slot' = SvDropped
    /\ challenges' = Cleared
    /\ UNCHANGED <<cl, toServer, toClient, misled>>

(* Seeded fault: the comparison is the wrong way round. *)
ZombieDueEarly == slot.state = "zombie" /\ slot.silent < ZombieTime

ZombieDue == slot.state = "zombie" /\ slot.silent > ZombieTime
DropDue == slot.state = "connected" /\ slot.silent > SvTimeout

(* SV_CheckTimeouts: "don't bother with zombie state" *)
SvCheckTimeouts ==
    /\ ZombieDue \/ DropDue
    /\ slot' = FreeSlot
    /\ challenges' = IF DropDue THEN Cleared ELSE challenges
    /\ UNCHANGED <<cl, toServer, toClient, counts, misled>>

-----------------------------------------------------------------------------
(* Time passes once the frames have done what is due.  What has not arrived *)
(* by now is lost.                                                          *)
Tick ==
    /\ ~(ResendDue \/ ClTimeoutDue \/ ZombieDue \/ DropDue)
    /\ slot' = [slot EXCEPT !.sinceConnect = Later(@, ReconnectLimit),
                            !.silent = Later(@, SvClock)]
    /\ cl' = [cl EXCEPT !.sinceSend = Later(@, Retransmit),
                        !.silent = IF IsConnected THEN Later(@, ClTimeout + 1) ELSE 0]
    /\ toServer' = Older(toServer)
    /\ toClient' = Older(toClient)
    /\ UNCHANGED <<challenges, counts, misled>>

ReceiveChallenge == \E d \in toClient : ClReceiveChallenge(d)
ReceiveConnect == \E d \in toClient : ClReceiveConnect(d)
ReceiveDisconnect == \E d \in toClient : ClReceiveDisconnect(d)
ReceiveMessage == \E d \in toClient : ClReceiveMessage(d)
GetChallenge == \E d \in toServer : SvGetChallenge(d)
DirectConnect == \E d \in toServer : SvDirectConnect(d)
ReceivePacket == \E d \in toServer : SvReceivePacket(d)

Next ==
    \/ ClDisconnect
    \/ ClConnect
    \/ ClCheckForResend
    \/ ClWritePacket
    \/ ClCheckTimeout
    \/ ReceiveChallenge
    \/ ReceiveConnect
    \/ ReceiveDisconnect
    \/ ReceiveMessage
    \/ GetChallenge
    \/ DirectConnect
    \/ ReceivePacket
    \/ SvSendMessage
    \/ SvKick
    \/ SvCheckTimeouts
    \/ Tick

Spec == Init /\ [][Next]_vars

(* Frames come round at both ends, time passes, and of the connectionless   *)
(* datagrams of a kind that are sent again and again some arrive.           *)
Fairness ==
    /\ WF_vars(ClCheckForResend)
    /\ WF_vars(SvCheckTimeouts)
    /\ WF_vars(Tick)
    /\ SF_vars(GetChallenge)
    /\ SF_vars(DirectConnect)
    /\ SF_vars(ReceiveChallenge)
    /\ SF_vars(ReceiveConnect)

FairSpec == Spec /\ Fairness

(* The same holds of what a connected client sends, and of the answers.     *)
PacketFairness ==
    /\ WF_vars(ClWritePacket)
    /\ WF_vars(ClCheckTimeout)
    /\ WF_vars(SvSendMessage)
    /\ SF_vars(ReceivePacket)
    /\ SF_vars(ReceiveMessage)
    /\ SF_vars(ReceiveDisconnect)

FairPacketSpec == FairSpec /\ PacketFairness

-----------------------------------------------------------------------------
(* The client and its slot use the same challenge, of which both make the   *)
(* keys of all packets (cl_main.c:2305-2321, sv_client.c:352-355).  The     *)
(* exception is a connectResponse that answers an earlier connect: it does  *)
(* not say which, and the client takes it for the answer to its own.        *)
KeysAgree ==
    IsConnected /\ slot.state = "connected" /\ ~misled
        => slot.challenge = cl.challenge

(* A connect that was repeated or duplicated does not set the server's end  *)
(* of the channel back once the client has its own: sv_reconnectlimit is    *)
(* longer than an answer and a request can take (sv_client.c:184-191).      *)
NotResetWhileConnected ==
    [][IsConnected /\ slot.state = "connected"
          => slot'.sinceConnect >= slot.sinceConnect]_vars

Trying == cl.state \in {"connecting", "challenging"}

(* The server has given up the challenge, and the client does not ask for   *)
(* another one: a second getchallenge has replaced it, or the slot has been *)
(* dropped again.                                                           *)
ChallengeIsGone ==
    /\ cl.state = "challenging"
    /\ \A e \in Entry : challenges[e].challenge # cl.challenge

(* A client that keeps trying gets in or gives up, unless its challenge is  *)
(* gone, whatever is lost, late or rejected as too soon on the way          *)
(* (cl_main.c:1988-2050).                                                   *)
GetsIn == Trying ~> (~Trying \/ ChallengeIsGone)

(* The slot of a client that has left or crashed becomes free, although     *)
(* its old packets and connects may still come in (sv_main.c:930-969).      *)
SlotIsFreed ==
    (cl.state = "disconnected" /\ slot.state # "free")
        ~> (cl.state # "disconnected" \/ slot.state = "free")

(* "the server will send out of band disconnect packets to the client so it *)
(* doesn't have to wait for the full timeout period" (cl_main.c:2057-2060): *)
(* a client without a slot leaves in the end.                               *)
DroppedClientLeaves ==
    (IsConnected /\ slot.state = "free")
        ~> (~IsConnected \/ slot.state # "free")
=============================================================================
