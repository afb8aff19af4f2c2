-------------------------- MODULE ConnectionProofs --------------------------
(***************************************************************************)
(* Proofs about Connection.                                                *)
(***************************************************************************)
EXTENDS Connection, TLAPS

-----------------------------------------------------------------------------
(* Types. *)

(* A clock that stops at its limit stays below it, does not run backwards   *)
(* and advances by one at most.                                             *)
LEMMA LaterIsBounded ==
    ASSUME NEW limit \in Nat, NEW clock \in 0 .. limit
    PROVE  /\ Later(clock, limit) \in 0 .. limit
           /\ clock <= Later(clock, limit)
           /\ Later(clock, limit) <= clock + 1
BY ConnectionAssumption DEF Later

(* The limits are numbers.                                                  *)
LEMMA LimitsAreNumbers ==
    /\ Retransmit \in Nat /\ ReconnectLimit \in Nat /\ ZombieTime \in Nat
    /\ SvTimeout \in Nat /\ ClTimeout \in Nat /\ MaxDelay \in Nat
    /\ MaxAttempts \in Nat /\ MaxKicks \in Nat /\ MaxDuplicates \in Nat
    /\ SvClock \in Nat /\ ZombieTime < SvClock /\ SvTimeout < SvClock
    /\ ClTimeout + 1 \in Nat
BY ConnectionAssumption DEF SvClock

(* What the client sends is a datagram for the server, what the server      *)
(* sends one for the client.                                                *)
LEMMA SentAreDatagrams ==
    ASSUME TypeOK
    PROVE  /\ \A kind \in ToServerKinds : FromClient(kind) \in Datagram(ToServerKinds)
           /\ LeavingPackets \subseteq Datagram(ToServerKinds)
           /\ \A kind \in ToClientKinds, attempt \in 0 .. MaxAttempts,
                 challenge \in Challenge \cup {NoChallenge} :
                 FromServer(kind, attempt, challenge) \in Datagram(ToClientKinds)
BY LimitsAreNumbers
   DEF TypeOK, Client, FromClient, LeavingPackets, FromServer, Datagram,
       ToServerKinds, ToClientKinds

(* The network forgets, and counts what it duplicates.                      *)
LEMMA ArrivalForgets ==
    ASSUME TypeOK, NEW d
    PROVE  /\ ArrivesAtServer(d) =>
                 /\ toServer' \subseteq toServer
                 /\ counts' \in [kicks : 0 .. MaxKicks, duplicates : 0 .. MaxDuplicates]
           /\ ArrivesAtClient(d) =>
                 /\ toClient' \subseteq toClient
                 /\ counts' \in [kicks : 0 .. MaxKicks, duplicates : 0 .. MaxDuplicates]
BY LimitsAreNumbers DEF TypeOK, ArrivesAtServer, ArrivesAtClient, Duplicated

(* What ages are the datagrams that were not too old.                       *)
LEMMA OlderProperties ==
    ASSUME NEW kinds, NEW flight \in SUBSET Datagram(kinds)
    PROVE  /\ Older(flight) \subseteq Datagram(kinds)
           /\ \A e \in Older(flight) : \E d \in flight :
                 /\ e.kind = d.kind /\ e.attempt = d.attempt
                 /\ e.challenge = d.challenge /\ e.age = d.age + 1
BY LimitsAreNumbers DEF Older, Datagram

(* A client that leaves is a client.                                        *)
LEMMA LeftIsClient ==
    ASSUME TypeOK
    PROVE  /\ Left \in Client /\ Heard \in Client
           /\ Left.state = "disconnected" /\ Left.attempt = cl.attempt
<1>1. Retransmit \in 0 .. Retransmit /\ 0 \in 0 .. ClTimeout + 1
  BY LimitsAreNumbers
<1>2. Left \in Client
  BY <1>1, Zenon DEF TypeOK, Client, Left
<1>3. Left.state = "disconnected" /\ Left.attempt = cl.attempt
  BY Zenon DEF TypeOK, Client, Left
<1> QED
  BY <1>1, <1>2, <1>3 DEF TypeOK, Client, Heard

-----------------------------------------------------------------------------
LEMMA InitTypeOK == Init => TypeOK
<1>1. ASSUME InitCrashed
      PROVE  /\ slot \in Slot
             /\ challenges \in [Entry -> [challenge : Challenge \cup {NoChallenge},
                                          connected : BOOLEAN]]
             /\ toServer \subseteq Datagram(ToServerKinds)
             /\ toClient \subseteq Datagram(ToClientKinds)
  <2>1. slot = [state |-> "connected", attempt |-> 0, challenge |-> 1,
                sinceConnect |-> 0, silent |-> 0]
    BY <1>1, Zenon DEF InitCrashed, FreeSlot
  <2>2. slot \in Slot
    BY <2>1, LimitsAreNumbers, ConnectionAssumption DEF Slot
  <2>3. challenges \in [Entry -> [challenge : Challenge \cup {NoChallenge},
                                  connected : BOOLEAN]]
    BY <1>1, ConnectionAssumption DEF InitCrashed, UsedEntry, NoEntry, NoChallenge
  <2>4. \A kinds : \A kind \in kinds :
            [kind |-> kind, attempt |-> 0, challenge |-> 1, age |-> 0] \in Datagram(kinds)
    BY LimitsAreNumbers, ConnectionAssumption DEF Datagram
  <2>5. /\ toServer \subseteq Datagram(ToServerKinds)
        /\ toClient \subseteq Datagram(ToClientKinds)
    BY <1>1, <2>4 DEF InitCrashed, ToServerKinds, ToClientKinds
  <2> QED
    BY <2>2, <2>3, <2>5
<1>2. InitNew => /\ slot \in Slot
                 /\ challenges \in [Entry -> [challenge : Challenge \cup {NoChallenge},
                                              connected : BOOLEAN]]
                 /\ toServer \subseteq Datagram(ToServerKinds)
                 /\ toClient \subseteq Datagram(ToClientKinds)
  BY LimitsAreNumbers DEF InitNew, Slot, FreeSlot, NoEntry, NoChallenge
<1>3. Init => cl \in Client
  BY LimitsAreNumbers DEF Init, Client, NoChallenge
<1> QED
  <2>1. Init => counts \in [kicks : 0 .. MaxKicks, duplicates : 0 .. MaxDuplicates]
    BY LimitsAreNumbers DEF Init
  <2> QED
    BY <1>1, <1>2, <1>3, <2>1 DEF Init, TypeOK

LEMMA ClientSendsTypeOK ==
    ASSUME TypeOK,
           ClDisconnect \/ ClConnect \/ ClCheckForResend \/ ClWritePacket \/ ClCheckTimeout
    PROVE  TypeOK'
<1>1. CASE ClDisconnect
  BY <1>1, SentAreDatagrams, LeftIsClient DEF ClDisconnect, TypeOK
<1>2. CASE ClConnect
  <2>1. cl' \in Client
    <3>1. cl'.attempt \in 0 .. MaxAttempts
      BY <1>2, LeftIsClient, LimitsAreNumbers DEF ClConnect, TypeOK, Client
    <3> QED
      BY <1>2, <3>1, LeftIsClient DEF ClConnect, Client
  <2> QED
    BY <1>2, <2>1, SentAreDatagrams DEF ClConnect, TypeOK
<1>3. CASE ClCheckForResend
  <2>1. cl' \in Client
    BY <1>3, LimitsAreNumbers DEF ClCheckForResend, TypeOK, Client
  <2>2. toServer' \subseteq Datagram(ToServerKinds)
    BY <1>3, SentAreDatagrams DEF ClCheckForResend, TypeOK, ToServerKinds
  <2> QED
    BY <1>3, <2>1, <2>2 DEF ClCheckForResend, TypeOK
<1>4. CASE ClWritePacket
  BY <1>4, SentAreDatagrams DEF ClWritePacket, TypeOK, ToServerKinds
<1>5. CASE ClCheckTimeout
  BY <1>5, SentAreDatagrams, LeftIsClient DEF ClCheckTimeout, TypeOK
<1> QED
  BY <1>1, <1>2, <1>3, <1>4, <1>5

LEMMA ClientReceivesTypeOK ==
    ASSUME TypeOK,
           ReceiveChallenge \/ ReceiveConnect \/ ReceiveDisconnect \/ ReceiveMessage
    PROVE  TypeOK'
<1>1. ASSUME NEW d \in toClient, ClReceiveChallenge(d)
      PROVE  TypeOK'
  <2>1. cl' \in Client
    <3>1. /\ d.challenge \in Challenge \cup {NoChallenge}
          /\ Retransmit \in 0 .. Retransmit
      BY LimitsAreNumbers DEF TypeOK, Datagram
    <3> QED
      BY <1>1, <3>1, LeftIsClient, Zenon DEF ClReceiveChallenge, ClientReads, Client
  <2> QED
    BY <1>1, <2>1, ArrivalForgets DEF ClReceiveChallenge, ClientReads, TypeOK
<1>2. ASSUME NEW d \in toClient, ClReceiveConnect(d)
      PROVE  TypeOK'
  <2>1. cl' \in Client
    <3>1. Retransmit \in 0 .. Retransmit
      BY LimitsAreNumbers
    <3> QED
      BY <1>2, <3>1, LeftIsClient, Zenon DEF ClReceiveConnect, ClientReads, Client
  <2>2. misled' \in BOOLEAN
    BY <1>2 DEF ClReceiveConnect, TypeOK
  <2> QED
    BY <1>2, <2>1, <2>2, ArrivalForgets DEF ClReceiveConnect, ClientReads, TypeOK
<1>3. ASSUME NEW d \in toClient, ClReceiveDisconnect(d)
      PROVE  TypeOK'
  <2>1. cl' \in Client
    BY <1>3, LeftIsClient DEF ClReceiveDisconnect, ClientReads
  <2>2. toServer' \subseteq Datagram(ToServerKinds)
    BY <1>3, SentAreDatagrams DEF ClReceiveDisconnect, TypeOK
  <2> QED
    BY <1>3, <2>1, <2>2, ArrivalForgets DEF ClReceiveDisconnect, ClientReads, TypeOK
<1>4. ASSUME NEW d \in toClient, ClReceiveMessage(d)
      PROVE  TypeOK'
  <2>1. cl' \in Client
    BY <1>4, LeftIsClient, LimitsAreNumbers
       DEF ClReceiveMessage, ClientReads, Client
  <2>2. toServer' \subseteq Datagram(ToServerKinds)
    BY <1>4, SentAreDatagrams DEF ClReceiveMessage, TypeOK
  <2> QED
    BY <1>4, <2>1, <2>2, ArrivalForgets DEF ClReceiveMessage, ClientReads, TypeOK
<1> QED
  BY <1>1, <1>2, <1>3, <1>4
     DEF ReceiveChallenge, ReceiveConnect, ReceiveDisconnect, ReceiveMessage

LEMMA ClearedIsTyped ==
    ASSUME TypeOK
    PROVE  Cleared \in [Entry -> [challenge : Challenge \cup {NoChallenge},
                                  connected : BOOLEAN]]
BY DEF TypeOK, Cleared, NoEntry, NoChallenge

LEMMA ServerReceivesTypeOK ==
    ASSUME TypeOK, GetChallenge \/ DirectConnect \/ ReceivePacket
    PROVE  TypeOK'
<1>1. ASSUME NEW d \in toServer, SvGetChallenge(d)
      PROVE  TypeOK'
  <2>1. PICK new \in Challenge :
            /\ challenges' = [challenges EXCEPT
                  ![EntryFor] = [challenge |-> new, connected |-> FALSE]]
            /\ toClient' = toClient \cup {FromServer("challengeResponse", d.attempt, new)}
            /\ ServerReads(d)
            /\ UNCHANGED slot
    BY <1>1 DEF SvGetChallenge, FreshChallenges
  <2>2. challenges' \in [Entry -> [challenge : Challenge \cup {NoChallenge},
                                   connected : BOOLEAN]]
    BY <2>1 DEF TypeOK
  <2>3. toClient' \subseteq Datagram(ToClientKinds)
    BY <1>1, <2>1, SentAreDatagrams DEF TypeOK, Datagram, ToClientKinds
  <2> QED
    BY <2>1, <2>2, <2>3, ArrivalForgets DEF ServerReads, TypeOK
<1>2. ASSUME NEW d \in toServer, SvDirectConnect(d)
      PROVE  TypeOK'
  <2>1. NewClient(d) \in Slot
    BY LimitsAreNumbers DEF NewClient, Slot, TypeOK, Datagram
  <2>2. challenges' \in [Entry -> [challenge : Challenge \cup {NoChallenge},
                                   connected : BOOLEAN]]
    <3>1. /\ d.challenge \in Challenge \cup {NoChallenge}
          /\ UsedEntry(d.challenge) \in [challenge : Challenge \cup {NoChallenge},
                                         connected : BOOLEAN]
      BY DEF TypeOK, UsedEntry, Datagram
    <3> QED
      BY <1>2, <3>1 DEF SvDirectConnect, TypeOK
  <2>3. toClient' \subseteq Datagram(ToClientKinds)
    BY <1>2, SentAreDatagrams DEF SvDirectConnect, TypeOK, Datagram, ToClientKinds
  <2> QED
    BY <1>2, <2>1, <2>2, <2>3, ArrivalForgets DEF SvDirectConnect, ServerReads, TypeOK
<1>3. ASSUME NEW d \in toServer, SvReceivePacket(d)
      PROVE  TypeOK'
  <2>1. slot' \in Slot
    <3>1. 0 \in 0 .. SvClock
      BY LimitsAreNumbers
    <3>2. /\ [slot EXCEPT !.silent = 0] \in Slot
          /\ [SvDropped EXCEPT !.silent = 0] \in Slot
      BY <3>1, Zenon DEF SvDropped, TypeOK, Slot
    <3> QED
      BY <1>3, <3>2 DEF SvReceivePacket, TypeOK
  <2>2. toClient' \subseteq Datagram(ToClientKinds)
    BY <1>3, SentAreDatagrams DEF SvReceivePacket, TypeOK, Datagram, ToClientKinds
  <2> QED
    BY <1>3, <2>1, <2>2, ClearedIsTyped DEF SvReceivePacket, TypeOK
<1> QED
  BY <1>1, <1>2, <1>3 DEF GetChallenge, DirectConnect, ReceivePacket

LEMMA ServerActsTypeOK ==
    ASSUME TypeOK, SvSendMessage \/ SvKick \/ SvCheckTimeouts
    PROVE  TypeOK'
<1>1. CASE SvSendMessage
  <2>1. toClient' \subseteq Datagram(ToClientKinds)
    BY <1>1, SentAreDatagrams DEF SvSendMessage, TypeOK, Slot, ToClientKinds
  <2> QED
    BY <1>1, <2>1 DEF SvSendMessage, TypeOK
<1>2. CASE SvKick
  <2>1. slot' \in Slot
    BY <1>2 DEF SvKick, SvDropped, TypeOK, Slot
  <2>2. counts' \in [kicks : 0 .. MaxKicks, duplicates : 0 .. MaxDuplicates]
    BY <1>2, LimitsAreNumbers DEF SvKick, TypeOK
  <2> QED
    BY <1>2, <2>1, <2>2, ClearedIsTyped DEF SvKick, TypeOK
<1>3. CASE SvCheckTimeouts
  <2>1. FreeSlot \in Slot
    BY LimitsAreNumbers DEF FreeSlot, Slot
  <2> QED
    BY <1>3, <2>1, ClearedIsTyped DEF SvCheckTimeouts, TypeOK
<1> QED
  BY <1>1, <1>2, <1>3

LEMMA TickTypeOK ==
    ASSUME TypeOK, Tick
    PROVE  TypeOK'
<1>1. slot' \in Slot
  <2>1. /\ Later(slot.sinceConnect, ReconnectLimit) \in 0 .. ReconnectLimit
        /\ Later(slot.silent, SvClock) \in 0 .. SvClock
    BY LimitsAreNumbers DEF TypeOK, Slot, Later
  <2> QED
    BY <2>1 DEF Tick, TypeOK, Slot
<1>2. cl' \in Client
  <2>1. /\ Later(cl.sinceSend, Retransmit) \in 0 .. Retransmit
        /\ (IF IsConnected THEN Later(cl.silent, ClTimeout + 1) ELSE 0)
              \in 0 .. ClTimeout + 1
    BY LimitsAreNumbers DEF TypeOK, Client, Later
  <2> QED
    BY <2>1 DEF Tick, TypeOK, Client
<1>3. /\ toServer' \subseteq Datagram(ToServerKinds)
      /\ toClient' \subseteq Datagram(ToClientKinds)
  BY OlderProperties DEF Tick, TypeOK
<1> QED
  BY <1>1, <1>2, <1>3 DEF Tick, TypeOK

LEMMA NextTypeOK == TypeOK /\ [Next]_vars => TypeOK'
BY ClientSendsTypeOK, ClientReceivesTypeOK, ServerReceivesTypeOK,
   ServerActsTypeOK, TickTypeOK
   DEF Next, vars, TypeOK

(* Every variable keeps its type: slots, datagrams and clocks stay within   *)
(* their ranges (sv_client.c:284-470, cl_main.c:1988-2330).                 *)
THEOREM TypeCorrect == Spec => []TypeOK
BY InitTypeOK, NextTypeOK, PTL DEF Spec

-----------------------------------------------------------------------------
(* The inductive invariant. *)

(* The server has taken the client's present connect: its answer is on its  *)
(* way, or the client has acted on it.                                      *)
Answers(r) == r.kind = "connectResponse" /\ r.attempt = cl.attempt
Accepted == (IsConnected /\ ~misled) \/ \E r \in toClient : Answers(r)

Connects == {d \in toServer : d.kind = "connect"}

(* Attempts are numbered in the order of the client's connects. *)
NothingFromLater ==
    /\ slot.attempt <= cl.attempt
    /\ \A d \in toServer : d.attempt <= cl.attempt
    /\ \A d \in toClient : d.attempt <= cl.attempt

(* A client that has no challenge yet has not asked to connect. *)
ConnectsComeAfterChallenge ==
    cl.state = "connecting" =>
        /\ slot.state # "free" => slot.attempt # cl.attempt
        /\ \A d \in Connects : d.attempt # cl.attempt
        /\ ~\E r \in toClient : Answers(r)

(* All connects of an attempt carry the challenge of the attempt. *)
OneChallengePerAttempt ==
    cl.state \in {"challenging", "connected", "active"} =>
        /\ slot.state # "free" /\ slot.attempt = cl.attempt
              => slot.challenge = cl.challenge
        /\ \A d \in Connects : d.attempt = cl.attempt => d.challenge = cl.challenge

(* Once the server has taken the client's connect the slot is the client's; *)
(* connects of earlier attempts that are still on their way are older than  *)
(* the last connect the server took, and than what it heard last.           *)
AcceptedIsHeld ==
    Accepted =>
        /\ slot.state # "free" => slot.attempt = cl.attempt
        /\ \A d \in Connects : d.attempt < cl.attempt =>
              /\ slot.state # "free"
              /\ slot.sinceConnect <= d.age /\ slot.silent <= d.age

(* While an answer is on its way its slot is not given up. *)
AnswersAreRecent ==
    \A r \in toClient : r.kind = "connectResponse" =>
        /\ slot.state # "free"
        /\ slot.sinceConnect <= r.age /\ slot.silent <= r.age

(* A connected client has stopped sending connects, at most the delay of an *)
(* answer after the server took one.                                        *)
ConnectsAreRecent ==
    IsConnected /\ slot.state # "free"
        => \A d \in Connects : slot.sinceConnect <= d.age + MaxDelay

IInv ==
    /\ NothingFromLater
    /\ ConnectsComeAfterChallenge
    /\ OneChallengePerAttempt
    /\ AcceptedIsHeld
    /\ AnswersAreRecent
    /\ ConnectsAreRecent

(* The states of the ends and the ranges of what is on its way, for the     *)
(* proofs below.                                                            *)
LEMMA Ranges ==
    ASSUME TypeOK
    PROVE  /\ cl.state \in {"disconnected", "connecting", "challenging",
                            "connected", "active"}
           /\ cl.attempt \in Nat
           /\ slot.state \in {"free", "connected", "zombie"}
           /\ slot.attempt \in Nat /\ slot.silent \in Nat
           /\ slot.sinceConnect \in 0 .. ReconnectLimit
           /\ \A d \in toServer : d.attempt \in Nat /\ d.age \in 0 .. MaxDelay
           /\ \A d \in toClient : d.attempt \in Nat /\ d.age \in 0 .. MaxDelay
BY LimitsAreNumbers DEF TypeOK, Client, Slot, Datagram

LEMMA InitInv == Init => IInv
<1> SUFFICES ASSUME Init
             PROVE  IInv
  OBVIOUS
<1>1. /\ cl.state = "disconnected" /\ cl.attempt = 0
      /\ slot.attempt = 0
      /\ \A d \in toServer : d.attempt = 0
      /\ \A d \in toClient : d.attempt = 0 /\ d.age = 0
  <2>1. CASE InitNew
    BY <2>1 DEF Init, InitNew, FreeSlot
  <2>2. CASE InitCrashed
    <3>1. slot.attempt = 0
      BY <2>2, Zenon DEF InitCrashed, FreeSlot
    <3> QED
      BY <2>2, <3>1 DEF Init, InitCrashed
  <2> QED
    BY <2>1, <2>2 DEF Init
<1>2. CASE InitNew
  BY <1>1, <1>2
     DEF InitNew, IInv, NothingFromLater, ConnectsComeAfterChallenge,
         OneChallengePerAttempt, AcceptedIsHeld, AnswersAreRecent,
         ConnectsAreRecent, IsConnected, Accepted, Answers, Connects
<1>3. CASE InitCrashed
  <2>1. slot.state # "free" /\ slot.sinceConnect = 0 /\ slot.silent = 0
    BY <1>3 DEF InitCrashed, FreeSlot
  <2> QED
    BY <1>1, <2>1
       DEF IInv, NothingFromLater, ConnectsComeAfterChallenge,
           OneChallengePerAttempt, AcceptedIsHeld, AnswersAreRecent,
           ConnectsAreRecent, IsConnected, Accepted, Answers, Connects
<1> QED
  BY <1>2, <1>3 DEF Init

(* A step that sends no connect and no answer to one, leaves the client     *)
(* where it is in the handshake or lets it leave, and at most drops the     *)
(* slot or hears from its client.                                           *)
QuietOfClient ==
    /\ cl'.attempt = cl.attempt
    /\ cl'.state # "disconnected" =>
          /\ cl'.challenge = cl.challenge
          /\ \/ cl'.state = cl.state
             \/ cl.state = "connected" /\ cl'.state = "active"
    /\ misled' = misled

QuietOfSlot ==
    /\ slot'.state # "free" <=> slot.state # "free"
    /\ slot'.attempt = slot.attempt /\ slot'.challenge = slot.challenge
    /\ slot'.sinceConnect = slot.sinceConnect /\ slot'.silent <= slot.silent

QuietOfNetwork ==
    /\ \A d \in toServer' \ toServer : d.kind # "connect" /\ d.attempt <= cl.attempt
    /\ \A d \in toClient' \ toClient :
          d.kind # "connectResponse" /\ d.attempt <= cl.attempt

LEMMA QuietStep ==
    ASSUME TypeOK, TypeOK', IInv, QuietOfClient, QuietOfSlot, QuietOfNetwork
    PROVE  IInv'
<1> USE DEF QuietOfClient, QuietOfSlot, QuietOfNetwork
<1>1. /\ \A d \in Connects' : d \in Connects
      /\ \A r \in toClient' : r.kind = "connectResponse" => r \in toClient
  BY DEF Connects
<1>2. NothingFromLater'
  BY Ranges DEF IInv, NothingFromLater
<1>3. ConnectsComeAfterChallenge'
  BY <1>1 DEF IInv, ConnectsComeAfterChallenge, Answers
<1>4. OneChallengePerAttempt'
  BY <1>1 DEF IInv, OneChallengePerAttempt
<1>5. Accepted' => Accepted
  BY <1>1 DEF Accepted, Answers, IsConnected
<1>6. slot.silent \in Nat /\ slot'.silent \in Nat /\ slot.sinceConnect \in Nat
  BY LimitsAreNumbers DEF TypeOK, Slot
<1>7. AcceptedIsHeld'
  <2> SUFFICES ASSUME Accepted'
               PROVE  /\ slot'.state # "free" => slot'.attempt = cl'.attempt
                      /\ \A d \in Connects' : d.attempt < cl'.attempt =>
                            /\ slot'.state # "free"
                            /\ slot'.sinceConnect <= d.age /\ slot'.silent <= d.age
    BY DEF AcceptedIsHeld
  <2>1. \A d \in Connects' : d.age \in Nat
    BY LimitsAreNumbers DEF Connects, TypeOK, Datagram
  <2> QED
    BY <1>1, <1>5, <1>6, <2>1 DEF IInv, AcceptedIsHeld
<1>8. AnswersAreRecent'
  <2>1. \A r \in toClient' : r.age \in Nat
    BY LimitsAreNumbers DEF TypeOK, Datagram
  <2> QED
    BY <1>1, <1>6, <2>1 DEF IInv, AnswersAreRecent
<1>9. ConnectsAreRecent'
  BY <1>1 DEF IInv, ConnectsAreRecent, IsConnected
<1> QED
  BY <1>2, <1>3, <1>4, <1>7, <1>8, <1>9 DEF IInv

(* The steps of the client that ask for nothing: it leaves, or writes a     *)
(* packet.                                                                  *)
LEMMA ClientLeavesInv ==
    ASSUME TypeOK, TypeOK', IInv, ClDisconnect \/ ClCheckTimeout \/ ClWritePacket
    PROVE  IInv'
<1>1. QuietOfClient
  BY LeftIsClient DEF ClDisconnect, ClCheckTimeout, ClWritePacket, QuietOfClient
<1>2. QuietOfSlot
  BY Ranges DEF ClDisconnect, ClCheckTimeout, ClWritePacket, QuietOfSlot
<1>3. QuietOfNetwork
  BY Ranges
     DEF ClDisconnect, ClCheckTimeout, ClWritePacket, QuietOfNetwork,
         LeavingPackets, FromClient
<1> QED
  BY <1>1, <1>2, <1>3, QuietStep

(* A connect by the user starts an attempt nobody has heard of.             *)
LEMMA ClConnectInv ==
    ASSUME TypeOK, TypeOK', IInv, ClConnect
    PROVE  IInv'
<1>1. /\ cl'.state = "connecting" /\ cl'.attempt = cl.attempt + 1
      /\ slot' = slot /\ toClient' = toClient
      /\ \A d \in toServer' :
            \/ d \in toServer
            \/ d.kind = "leave" /\ d.attempt = cl.attempt
  <2>1. cl'.attempt = cl.attempt + 1
    BY LeftIsClient DEF ClConnect, Client
  <2>2. cl'.state = "connecting"
    BY LeftIsClient DEF ClConnect, Client
  <2> QED
    BY <2>1, <2>2 DEF ClConnect, LeavingPackets, FromClient
<1>2. NothingFromLater'
  BY <1>1, Ranges DEF IInv, NothingFromLater
<1>3. ~\E r \in toClient' : Answers(r)'
  BY <1>1, Ranges DEF IInv, NothingFromLater, Answers
<1>4. ConnectsComeAfterChallenge'
  BY <1>1, <1>3, Ranges DEF IInv, NothingFromLater, ConnectsComeAfterChallenge, Connects
<1>5. ~Accepted'
  BY <1>1, <1>3 DEF Accepted, IsConnected
<1> QED
  BY <1>1, <1>2, <1>4, <1>5
     DEF IInv, OneChallengePerAttempt, AcceptedIsHeld, AnswersAreRecent,
         ConnectsAreRecent, IsConnected

(* A request is sent by a client that has no answer: a connect has the      *)
(* challenge and the number of the attempt.                                 *)
LEMMA ClCheckForResendInv ==
    ASSUME TypeOK, TypeOK', IInv, ClCheckForResend
    PROVE  IInv'
<1>1. /\ cl'.state = cl.state /\ cl'.attempt = cl.attempt
      /\ cl'.challenge = cl.challenge
      /\ cl.state \in {"connecting", "challenging"}
      /\ slot' = slot /\ toClient' = toClient /\ misled' = misled
      /\ \A d \in toServer' :
            \/ d \in toServer
            \/ /\ d.kind = "connect" => cl.state = "challenging"
               /\ d.attempt = cl.attempt /\ d.challenge = cl.challenge
  BY DEF ClCheckForResend, ResendDue, FromClient, TypeOK, Client
<1>2. NothingFromLater'
  BY <1>1, Ranges DEF IInv, NothingFromLater
<1>3. ConnectsComeAfterChallenge'
  BY <1>1 DEF IInv, ConnectsComeAfterChallenge, Connects, Answers
<1>4. OneChallengePerAttempt'
  BY <1>1 DEF IInv, OneChallengePerAttempt, Connects
<1>5. AcceptedIsHeld'
  BY <1>1, Ranges DEF IInv, AcceptedIsHeld, Accepted, Answers, IsConnected, Connects
<1>6. AnswersAreRecent' /\ ConnectsAreRecent'
  BY <1>1 DEF IInv, AnswersAreRecent, ConnectsAreRecent, IsConnected
<1> QED
  BY <1>2, <1>3, <1>4, <1>5, <1>6 DEF IInv

(* A challenge is taken by a client that is waiting for one.                *)
LEMMA ClReceiveChallengeInv ==
    ASSUME TypeOK, TypeOK', IInv, NEW d \in toClient, ClReceiveChallenge(d)
    PROVE  IInv'
<1>1. /\ slot' = slot /\ toServer' = toServer /\ toClient' \subseteq toClient
      /\ misled' = misled
  BY ArrivalForgets DEF ClReceiveChallenge, ClientReads
<1>2. CASE cl.state # "connecting"
  <2>1. QuietOfClient
    BY <1>2 DEF ClReceiveChallenge, ClientReads, Heard, QuietOfClient, TypeOK, Client
  <2>2. QuietOfSlot /\ QuietOfNetwork
    BY <1>1, Ranges DEF QuietOfSlot, QuietOfNetwork
  <2> QED
    BY <2>1, <2>2, QuietStep
<1>3. CASE cl.state = "connecting"
  <2>1. cl'.state = "challenging" /\ cl'.attempt = cl.attempt
    BY <1>3, LeftIsClient DEF ClReceiveChallenge, ClientReads, Heard, TypeOK, Client
  <2>2. NothingFromLater'
    BY <1>1, <2>1 DEF IInv, NothingFromLater
  <2>3. OneChallengePerAttempt'
    BY <1>1, <1>3, <2>1
       DEF IInv, ConnectsComeAfterChallenge, OneChallengePerAttempt, Connects
  <2>4. ~Accepted'
    BY <1>1, <1>3, <2>1
       DEF IInv, ConnectsComeAfterChallenge, Accepted, Answers, IsConnected
  <2> QED
    BY <1>1, <2>1, <2>2, <2>3, <2>4
       DEF IInv, ConnectsComeAfterChallenge, AcceptedIsHeld, AnswersAreRecent,
           ConnectsAreRecent, IsConnected
<1> QED
  BY <1>2, <1>3

(* An answer to a connect makes the client connected.  The slot is at most  *)
(* as old as the answer, whichever connect it is for.                       *)
LEMMA ClReceiveConnectInv ==
    ASSUME TypeOK, TypeOK', IInv, NEW d \in toClient, ClReceiveConnect(d)
    PROVE  IInv'
<1>1. slot' = slot /\ toServer' = toServer /\ toClient' \subseteq toClient
  BY ArrivalForgets DEF ClReceiveConnect, ClientReads
<1>2. CASE ~AwaitsConnectResponse
  <2>1. QuietOfClient
    BY <1>2 DEF ClReceiveConnect, ClientReads, Heard, QuietOfClient, TypeOK, Client
  <2>2. QuietOfSlot /\ QuietOfNetwork
    BY <1>1, Ranges DEF QuietOfSlot, QuietOfNetwork
  <2> QED
    BY <2>1, <2>2, QuietStep
<1>3. CASE AwaitsConnectResponse
  <2>1. /\ cl.state = "challenging" /\ cl'.state = "connected"
        /\ cl'.attempt = cl.attempt /\ cl'.challenge = cl.challenge
    BY <1>3, LeftIsClient
       DEF ClReceiveConnect, ClientReads, Heard, AwaitsConnectResponse, TypeOK, Client
  <2>2. misled' = (d.attempt # cl.attempt)
    BY <1>3 DEF ClReceiveConnect
  <2>3. NothingFromLater'
    BY <1>1, <2>1 DEF IInv, NothingFromLater
  <2>4. OneChallengePerAttempt'
    BY <1>1, <2>1 DEF IInv, OneChallengePerAttempt, Connects
  <2>5. Accepted' => Accepted
    BY <1>1, <2>1, <2>2 DEF ClReceiveConnect, Accepted, Answers
  <2>6. AcceptedIsHeld'
    BY <1>1, <2>1, <2>5 DEF IInv, AcceptedIsHeld, Connects
  <2>7. AnswersAreRecent'
    BY <1>1 DEF IInv, AnswersAreRecent
  <2>8. ConnectsAreRecent'
    <3>1. slot.sinceConnect <= d.age /\ d.age <= MaxDelay
      BY Ranges DEF ClReceiveConnect, IInv, AnswersAreRecent
    <3> QED
      BY <1>1, <3>1, Ranges, LimitsAreNumbers DEF ConnectsAreRecent, Connects
  <2> QED
    BY <2>1, <2>3, <2>4, <2>6, <2>7, <2>8 DEF IInv, ConnectsComeAfterChallenge
<1> QED
  BY <1>2, <1>3

(* Messages of the slot and disconnects change the client's state only.     *)
LEMMA ClReceiveOtherInv ==
    ASSUME TypeOK, TypeOK', IInv, NEW d \in toClient,
           ClReceiveDisconnect(d) \/ ClReceiveMessage(d)
    PROVE  IInv'
<1>1. /\ slot' = slot /\ toClient' \subseteq toClient /\ misled' = misled
      /\ toServer' \subseteq toServer \cup LeavingPackets
  BY ArrivalForgets DEF ClReceiveDisconnect, ClReceiveMessage, ClientReads
<1>2. QuietOfSlot
  BY <1>1, Ranges DEF QuietOfSlot
<1>3. QuietOfNetwork
  BY <1>1, Ranges DEF QuietOfNetwork, LeavingPackets, FromClient
<1>4. \/ cl' = Left \/ cl' = Heard
      \/ cl.state = "connected" /\ cl' = [Heard EXCEPT !.state = "active"]
  BY DEF ClReceiveDisconnect, ClReceiveMessage, ClientReads
<1>5. QuietOfClient
  BY <1>1, <1>4, LeftIsClient DEF QuietOfClient, Heard, TypeOK, Client
<1> QED
  BY <1>2, <1>3, <1>5, QuietStep

(* The requests the server answers with a new challenge, and the packets    *)
(* that reach the slot.                                                     *)
LEMMA ServerQuietInv ==
    ASSUME TypeOK, TypeOK', IInv, NEW d \in toServer,
           SvGetChallenge(d) \/ SvReceivePacket(d)
    PROVE  IInv'
<1>1. cl' = cl /\ misled' = misled
  BY DEF SvGetChallenge, SvReceivePacket, ServerReads
<1>2. QuietOfClient
  BY <1>1 DEF QuietOfClient
<1>3. QuietOfSlot
  <2>1. /\ [SvDropped EXCEPT !.silent = 0].state = "zombie"
        /\ [SvDropped EXCEPT !.silent = 0].silent = 0
        /\ [SvDropped EXCEPT !.silent = 0].attempt = slot.attempt
        /\ [SvDropped EXCEPT !.silent = 0].challenge = slot.challenge
        /\ [SvDropped EXCEPT !.silent = 0].sinceConnect = slot.sinceConnect
    BY Zenon DEF SvDropped, TypeOK, Slot
  <2>2. \/ slot' = slot
        \/ slot' = [slot EXCEPT !.silent = 0]
        \/ slot.state = "connected" /\ slot' = [SvDropped EXCEPT !.silent = 0]
    BY DEF SvGetChallenge, SvReceivePacket
  <2> QED
    BY <2>1, <2>2, Ranges DEF QuietOfSlot, TypeOK, Slot
<1>4. QuietOfNetwork
  <2>1. d.attempt <= cl.attempt
    BY DEF IInv, NothingFromLater
  <2>2. toServer' \subseteq toServer
    BY ArrivalForgets DEF SvGetChallenge, SvReceivePacket, ServerReads
  <2>3. \A e \in toClient' \ toClient : e.kind # "connectResponse" /\ e.attempt = d.attempt
    BY DEF SvGetChallenge, SvReceivePacket, FromServer
  <2> QED
    BY <2>1, <2>2, <2>3 DEF QuietOfNetwork
<1> QED
  BY <1>2, <1>3, <1>4, QuietStep

(* A connect is taken when the slot is free or was connected long ago.  It  *)
(* is then the client's last, or the client has no answer yet.              *)
LEMMA SvDirectConnectInv ==
    ASSUME TypeOK, TypeOK', IInv, NEW d \in toServer, SvDirectConnect(d)
    PROVE  IInv'
<1>1. /\ cl' = cl /\ misled' = misled /\ toServer' \subseteq toServer
      /\ d \in Connects
  BY ArrivalForgets DEF SvDirectConnect, ServerReads, Connects
<1>2. CASE TooSoon \/ ~IsValid(d.challenge)
  <2>1. QuietOfClient /\ QuietOfSlot /\ QuietOfNetwork
    BY <1>1, <1>2, Ranges
       DEF SvDirectConnect, QuietOfClient, QuietOfSlot, QuietOfNetwork
  <2> QED
    BY <2>1, QuietStep
<1>3. CASE ~(TooSoon \/ ~IsValid(d.challenge))
  <2>1. /\ slot'.state = "connected" /\ slot'.attempt = d.attempt
        /\ slot'.challenge = d.challenge
        /\ slot'.sinceConnect = 0 /\ slot'.silent = 0
        /\ toClient' = toClient \cup
               {FromServer("connectResponse", d.attempt, NoChallenge)}
    BY <1>3 DEF SvDirectConnect, NewClient
  <2>2. d.attempt <= cl.attempt /\ d.attempt \in Nat /\ cl.attempt \in Nat
    BY Ranges DEF IInv, NothingFromLater
  <2>3. d.attempt < cl.attempt => ~Accepted
    <3> SUFFICES ASSUME d.attempt < cl.attempt, Accepted
                 PROVE  FALSE
      OBVIOUS
    <3>1. slot.state # "free" /\ slot.sinceConnect <= d.age
      BY <1>1 DEF IInv, AcceptedIsHeld
    <3>2. slot.sinceConnect < ReconnectLimit
      BY <3>1, Ranges, LimitsAreNumbers, DelayAssumption
    <3> QED
      BY <1>3, <3>1, <3>2 DEF TooSoon
  <2>4. Accepted' => Accepted \/ d.attempt = cl.attempt
    BY <1>1, <2>1 DEF Accepted, Answers, IsConnected, FromServer
  <2>5. NothingFromLater'
    BY <1>1, <2>1, <2>2 DEF IInv, NothingFromLater, FromServer
  <2>6. ConnectsComeAfterChallenge'
    BY <1>1, <2>1 DEF IInv, ConnectsComeAfterChallenge, Connects, Answers, FromServer
  <2>7. OneChallengePerAttempt'
    BY <1>1, <2>1 DEF IInv, OneChallengePerAttempt, Connects
  <2>8. AcceptedIsHeld'
    BY <1>1, <2>1, <2>2, <2>3, <2>4, Ranges DEF AcceptedIsHeld, Connects
  <2>9. AnswersAreRecent'
    BY <1>1, <2>1, Ranges DEF IInv, AnswersAreRecent, FromServer
  <2>10. ConnectsAreRecent'
    BY <1>1, <2>1, Ranges, LimitsAreNumbers DEF ConnectsAreRecent, Connects
  <2> QED
    BY <2>5, <2>6, <2>7, <2>8, <2>9, <2>10 DEF IInv
<1> QED
  BY <1>2, <1>3

(* A slot is freed when nothing of its last connect can still be on its way.*)
LEMMA SvCheckTimeoutsInv ==
    ASSUME TypeOK, TypeOK', IInv, SvCheckTimeouts
    PROVE  IInv'
<1>1. /\ cl' = cl /\ misled' = misled /\ toServer' = toServer /\ toClient' = toClient
      /\ slot'.state = "free" /\ slot'.attempt = 0
      /\ slot.silent > MaxDelay
  BY LimitsAreNumbers, DelayAssumption, Ranges
     DEF SvCheckTimeouts, FreeSlot, ZombieDue, DropDue
<1>2. Accepted' = Accepted
  BY <1>1 DEF Accepted, Answers, IsConnected
<1>3. AcceptedIsHeld'
  BY <1>1, <1>2, Ranges, LimitsAreNumbers DEF IInv, AcceptedIsHeld, Connects
<1>4. AnswersAreRecent'
  BY <1>1, Ranges, LimitsAreNumbers DEF IInv, AnswersAreRecent
<1>5. NothingFromLater'
  BY <1>1, Ranges DEF IInv, NothingFromLater
<1> QED
  BY <1>1, <1>3, <1>4, <1>5
     DEF IInv, ConnectsComeAfterChallenge, OneChallengePerAttempt, ConnectsAreRecent,
         Connects, Answers

(* What the server sends and whom it drops besides.                         *)
LEMMA ServerActsInv ==
    ASSUME TypeOK, TypeOK', IInv, SvSendMessage \/ SvKick
    PROVE  IInv'
<1>1. QuietOfClient
  BY DEF SvSendMessage, SvKick, QuietOfClient
<1>2. QuietOfSlot
  BY Ranges DEF SvSendMessage, SvKick, SvDropped, QuietOfSlot, TypeOK, Slot
<1>3. QuietOfNetwork
  BY Ranges DEF SvSendMessage, SvKick, QuietOfNetwork, FromServer, IInv, NothingFromLater
<1> QED
  BY <1>1, <1>2, <1>3, QuietStep

(* Time makes everything older alike.                                       *)
LEMMA TickInv ==
    ASSUME TypeOK, TypeOK', IInv, Tick
    PROVE  IInv'
<1>1. /\ cl'.state = cl.state /\ cl'.attempt = cl.attempt
      /\ cl'.challenge = cl.challenge /\ misled' = misled
  BY DEF Tick, TypeOK, Client
<1>2. /\ slot'.state = slot.state /\ slot'.attempt = slot.attempt
      /\ slot'.challenge = slot.challenge
      /\ slot'.sinceConnect = Later(slot.sinceConnect, ReconnectLimit)
      /\ slot'.silent = Later(slot.silent, SvClock)
  BY DEF Tick, TypeOK, Slot
<1>3. /\ slot'.sinceConnect <= slot.sinceConnect + 1
      /\ slot'.silent <= slot.silent + 1
      /\ slot'.sinceConnect \in Nat /\ slot'.silent \in Nat
  BY <1>2, Ranges, LimitsAreNumbers DEF Later
<1>4. \A e \in toServer' : \E d \in toServer :
         /\ e.kind = d.kind /\ e.attempt = d.attempt
         /\ e.challenge = d.challenge /\ e.age = d.age + 1
  BY OlderProperties DEF Tick, TypeOK
<1>5. \A e \in toClient' : \E d \in toClient :
         /\ e.kind = d.kind /\ e.attempt = d.attempt /\ e.age = d.age + 1
  BY OlderProperties DEF Tick, TypeOK
<1>6. \A e \in Connects' : \E d \in Connects :
         /\ e.attempt = d.attempt /\ e.challenge = d.challenge /\ e.age = d.age + 1
  BY <1>4 DEF Connects
<1>7. Accepted' => Accepted
  BY <1>1, <1>5 DEF Accepted, Answers, IsConnected
<1>8. NothingFromLater'
  BY <1>1, <1>2, <1>4, <1>5 DEF IInv, NothingFromLater
<1>9. ConnectsComeAfterChallenge'
  BY <1>1, <1>2, <1>5, <1>6 DEF IInv, ConnectsComeAfterChallenge, Answers
<1>10. OneChallengePerAttempt'
  BY <1>1, <1>2, <1>6 DEF IInv, OneChallengePerAttempt
<1>11. \A d \in Connects : d.age \in Nat
  BY Ranges DEF Connects
<1>12. AcceptedIsHeld'
  BY <1>1, <1>2, <1>3, <1>6, <1>7, <1>11, Ranges DEF IInv, AcceptedIsHeld
<1>13. AnswersAreRecent'
  BY <1>2, <1>3, <1>5, Ranges DEF IInv, AnswersAreRecent
<1>14. ConnectsAreRecent'
  BY <1>1, <1>2, <1>3, <1>6, <1>11, Ranges, LimitsAreNumbers
     DEF IInv, ConnectsAreRecent, IsConnected
<1> QED
  BY <1>8, <1>9, <1>10, <1>12, <1>13, <1>14 DEF IInv

LEMMA NextInv == TypeOK /\ IInv /\ [Next]_vars => IInv'
<1> SUFFICES ASSUME TypeOK, IInv, [Next]_vars
             PROVE  IInv'
  OBVIOUS
<1>1. TypeOK'
  BY NextTypeOK
<1>2. CASE ClDisconnect \/ ClCheckTimeout \/ ClWritePacket
  BY <1>1, <1>2, ClientLeavesInv
<1>3. CASE ClConnect
  BY <1>1, <1>3, ClConnectInv
<1>4. CASE ClCheckForResend
  BY <1>1, <1>4, ClCheckForResendInv
<1>5. CASE ReceiveChallenge
  BY <1>1, <1>5, ClReceiveChallengeInv DEF ReceiveChallenge
<1>6. CASE ReceiveConnect
  BY <1>1, <1>6, ClReceiveConnectInv DEF ReceiveConnect
<1>7. CASE ReceiveDisconnect \/ ReceiveMessage
  BY <1>1, <1>7, ClReceiveOtherInv DEF ReceiveDisconnect, ReceiveMessage
<1>8. CASE GetChallenge \/ ReceivePacket
  BY <1>1, <1>8, ServerQuietInv DEF GetChallenge, ReceivePacket
<1>9. CASE DirectConnect
  BY <1>1, <1>9, SvDirectConnectInv DEF DirectConnect
<1>10. CASE SvCheckTimeouts
  BY <1>1, <1>10, SvCheckTimeoutsInv
<1>11. CASE SvSendMessage \/ SvKick
  BY <1>1, <1>11, ServerActsInv
<1>12. CASE Tick
  BY <1>1, <1>12, TickInv
<1>13. CASE UNCHANGED vars
  <2>1. QuietOfClient /\ QuietOfSlot /\ QuietOfNetwork
    BY <1>13, Ranges DEF vars, QuietOfClient, QuietOfSlot, QuietOfNetwork
  <2> QED
    BY <1>1, <2>1, QuietStep
<1> QED
  BY <1>2, <1>3, <1>4, <1>5, <1>6, <1>7, <1>8, <1>9, <1>10, <1>11, <1>12, <1>13
     DEF Next

LEMMA Invariance == Spec => [](TypeOK /\ IInv)
BY InitTypeOK, InitInv, NextTypeOK, NextInv, PTL DEF Spec

-----------------------------------------------------------------------------
(* The client and its slot make their keys from the same challenge, unless  *)
(* the client took the answer to an earlier connect for its own             *)
(* (cl_main.c:2305-2321, sv_client.c:352-355).  The server has taken the    *)
(* client's connect (AcceptedIsHeld), which had the client's challenge      *)
(* (OneChallengePerAttempt).                                                *)
THEOREM KeysCorrect == Spec => []KeysAgree
<1>1. IInv => KeysAgree
  BY DEF IInv, AcceptedIsHeld, OneChallengePerAttempt, Accepted, KeysAgree, IsConnected
<1> QED
  BY <1>1, Invariance, PTL

(* No connect that is still on its way when the client has its end of the   *)
(* channel sets the server's end back (sv_client.c:184-191): it is at most  *)
(* twice the network's delay after the last, and so too soon.               *)
THEOREM ChannelIsNotReset == Spec => NotResetWhileConnected
<1> DEFINE NotReset ==
      IsConnected /\ slot.state = "connected"
         => slot'.sinceConnect >= slot.sinceConnect
<1>1. TypeOK /\ IInv /\ [Next]_vars => [NotReset]_vars
  <2> SUFFICES ASSUME TypeOK, IInv, [Next]_vars, IsConnected, slot.state = "connected"
               PROVE  slot'.sinceConnect >= slot.sinceConnect
    OBVIOUS
  <2>1. CASE slot' = slot
    BY <2>1, Ranges
  <2>2. ASSUME NEW d \in toServer, SvDirectConnect(d)
        PROVE  slot' = slot
    <3>1. slot.sinceConnect <= d.age + MaxDelay
      BY <2>2 DEF IInv, ConnectsAreRecent, Connects, SvDirectConnect
    <3>2. TooSoon
      BY <3>1, Ranges, LimitsAreNumbers, DelayAssumption DEF TooSoon
    <3> QED
      BY <2>2, <3>2 DEF SvDirectConnect
  <2>3. CASE SvCheckTimeouts
    BY <2>3, Ranges DEF SvCheckTimeouts, FreeSlot
  <2>4. CASE Tick
    <3>1. slot'.sinceConnect = Later(slot.sinceConnect, ReconnectLimit)
      BY <2>4 DEF Tick, TypeOK, Slot
    <3> QED
      BY <3>1, Ranges, LimitsAreNumbers DEF Later
  <2>5. CASE SvKick
    BY <2>5, Ranges DEF SvKick, SvDropped, TypeOK, Slot
  <2>6. ASSUME NEW d \in toServer, SvReceivePacket(d)
        PROVE  slot'.sinceConnect = slot.sinceConnect
    <3>1. [SvDropped EXCEPT !.silent = 0].sinceConnect = slot.sinceConnect
      BY Zenon DEF SvDropped, TypeOK, Slot
    <3> QED
      BY <2>6, <3>1 DEF SvReceivePacket, TypeOK, Slot
  <2>7. ASSUME ClDisconnect \/ ClConnect \/ ClCheckForResend \/ ClWritePacket
                  \/ ClCheckTimeout \/ SvSendMessage \/ UNCHANGED vars
        PROVE  slot' = slot
    BY <2>7 DEF ClDisconnect, ClConnect, ClCheckForResend, ClWritePacket,
                ClCheckTimeout, SvSendMessage, vars
  <2>8. ASSUME ReceiveChallenge \/ ReceiveConnect \/ ReceiveDisconnect
                  \/ ReceiveMessage \/ GetChallenge
        PROVE  slot' = slot
    BY <2>8
       DEF ReceiveChallenge, ReceiveConnect, ReceiveDisconnect, ReceiveMessage,
           ClReceiveChallenge, ClReceiveConnect, ClReceiveDisconnect,
           ClReceiveMessage, ClientReads, GetChallenge, SvGetChallenge
  <2>9. CASE DirectConnect
    BY <2>1, <2>2, <2>9 DEF DirectConnect
  <2>10. CASE ReceivePacket
    BY <2>6, <2>10, Ranges DEF ReceivePacket
  <2> QED
    BY <2>1, <2>3, <2>4, <2>5, <2>7, <2>8, <2>9, <2>10 DEF Next
<1> QED
  BY <1>1, Invariance, PTL DEF Spec, NotResetWhileConnected
=============================================================================
