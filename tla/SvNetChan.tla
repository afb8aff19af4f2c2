----------------------------- MODULE SvNetChan ------------------------------
(***************************************************************************)
(* The server's channel to one client: NetChan with the send queue of      *)
(* Engine/server/sv_net_chan.c in front of it.  A message that is handed   *)
(* over while another one still has fragments unsent waits in the queue.   *)
(***************************************************************************)
EXTENDS NetChan, FiniteSets

CONSTANTS
    Snapshot,      \* messages built by SV_SendClientSnapshot
    GameState,     \* messages built by SV_SendClientGameState
    MaxGameStates  \* bound of the model: gamestates handed over

ASSUME SvNetChanAssumption ==
    /\ Snapshot \subseteq Message
    /\ GameState \subseteq Message
    /\ MaxGameStates \in Nat

VARIABLES
    queue,      \* netchan_start_queue, the oldest message first
    frame,      \* svs.time, as the parity of the number of server frames
    gameStates, \* history: gamestates handed over so far
    submitted,  \* history: the messages handed to SV_Netchan_Transmit
    stranded    \* history: the queue was left with no fragment to wait for

svVars == <<vars, queue, frame, gameStates, submitted, stranded>>

SvTypeOK ==
    /\ TypeOK
    /\ queue \in Seq(Message)
    /\ frame \in {0, 1}
    /\ gameStates \in 0 .. MaxGameStates
    /\ submitted \in Seq(Message)
    /\ stranded \in BOOLEAN

SvInit ==
    /\ Init
    /\ queue = <<>>
    /\ frame = 0
    /\ gameStates = 0
    /\ submitted = <<>>
    /\ stranded = FALSE

-----------------------------------------------------------------------------
(* The send path as a value, so that one step can make several calls. *)
Path == [out |-> out, network |-> network, sent |-> sent, queue |-> queue]

IsNextPath(s) ==
    /\ out' = s.out
    /\ network' = s.network
    /\ sent' = s.sent
    /\ queue' = s.queue

Transmitted(s, m) ==
    [s EXCEPT !.out = AfterTransmit(s.out, m),
              !.network = @ \cup {TransmitPacket(s.out, m)},
              !.sent = Append(@, m)]

FragmentSent(s) ==
    [s EXCEPT !.out = AfterFragment(s.out),
              !.network = @ \cup {FragmentPacket(s.out)}]

(* Seeded fault: the head of the queue is transmitted but not popped. *)
SvTransmitNextFragmentNoPop(s) ==
    LET next == FragmentSent(s)
    IN  IF ~next.out.unsentFragments /\ next.queue # <<>>
        THEN Transmitted(next, Head(next.queue))
        ELSE next

(* SV_Netchan_TransmitNextFragment: after the last fragment the head of the *)
(* queue is transmitted and popped.                                         *)
SvTransmitNextFragment(s) ==
    LET next == FragmentSent(s)
    IN  IF ~next.out.unsentFragments /\ next.queue # <<>>
        THEN [Transmitted(next, Head(next.queue)) EXCEPT !.queue = Tail(@)]
        ELSE next

(* Seeded fault: the message is transmitted over the unsent fragments. *)
SvTransmitOverFragments(s, m) == Transmitted(s, m)

(* Seeded fault: the message is put before the ones that wait. *)
SvTransmitAtFront(s, m) ==
    IF s.out.unsentFragments
    THEN [FragmentSent(s) EXCEPT !.queue = <<m>> \o @]
    ELSE Transmitted(s, m)

(* SV_Netchan_Transmit: with fragments unsent the message is queued, and    *)
(* the next fragment is emitted by Netchan_TransmitNextFragment, which does *)
(* not look at the queue.                                                   *)
SvTransmit(s, m) ==
    IF s.out.unsentFragments
    THEN [FragmentSent(s) EXCEPT !.queue = Append(@, m)]
    ELSE Transmitted(s, m)

(* Both histories of one step that hands ms to SV_Netchan_Transmit. *)
Submits(ms) ==
    /\ Len(submitted) + Len(ms) <= MaxMessages
    /\ submitted' = submitted \o ms
    /\ stranded' = (stranded \/ (~out'.unsentFragments /\ queue' # <<>>))

-----------------------------------------------------------------------------
(* SV_SendClientMessages in a frame in which the client's nextSnapshotTime  *)
(* has come.                                                                *)
SendFragment ==
    /\ out.unsentFragments
    /\ IsNextPath(SvTransmitNextFragment(Path))
    /\ Submits(<<>>)
    /\ frame' = 1 - frame
    /\ UNCHANGED <<in, delivered, gameStates>>

SendSnapshot(m) ==
    /\ ~out.unsentFragments
    /\ IsNextPath(SvTransmit(Path, m))
    /\ Submits(<<m>>)
    /\ frame' = 1 - frame
    /\ UNCHANGED <<in, delivered, gameStates>>

(* SV_SendClientGameState, called while a client's packet is executed. *)
SendGameState(m) ==
    /\ gameStates < MaxGameStates
    /\ IsNextPath(SvTransmit(Path, m))
    /\ Submits(<<m>>)
    /\ gameStates' = gameStates + 1
    /\ UNCHANGED <<in, delivered, frame>>

(* The client's Netchan_Process. *)
Receive(p) ==
    /\ Process(p)
    /\ UNCHANGED <<queue, frame, gameStates, submitted, stranded>>

SvNext ==
    \/ SendFragment
    \/ \E m \in Snapshot : SendSnapshot(m)
    \/ \E m \in GameState : SendGameState(m)
    \/ \E p \in network : Receive(p)

SvSpec == SvInit /\ [][SvNext]_svVars

-----------------------------------------------------------------------------
Occurrences(s, m) == {i \in DOMAIN s : s[i] = m}

(* The queue neither loses a message nor sends one twice: what was handed   *)
(* over is what was transmitted and what still waits (sv_net_chan.c:144-159 *)
(* and 178-193).                                                            *)
QueueLosesNothing ==
    \A m \in Snapshot \cup GameState :
        Cardinality(Occurrences(submitted, m))
          = Cardinality(Occurrences(sent, m)) + Cardinality(Occurrences(queue, m))

(* "buffer them and make sure they get sent in correct order"               *)
(* (sv_net_chan.c:171-172): messages are transmitted in the order in which  *)
(* they were handed over.                                                   *)
SentInOrder == sent \o queue = submitted

(* Where that order comes from and the one way to lose it: as long as no    *)
(* SV_Netchan_Transmit itself sent the last fragment and left the queue     *)
(* behind an idle channel, messages keep their order.                       *)
OrderedUnlessStranded == ~stranded => SentInOrder

-----------------------------------------------------------------------------
(* The control of the send path is that of SvSendQueue while the server is  *)
(* up: a message is the number of datagrams it takes, and none is final.    *)
Datagrams(m) == IF NeedsFragments(m) THEN Len(m) \div FragmentSize + 1 ELSE 1

DatagramsLeft ==
    IF out.unsentFragments
    THEN Datagrams(out.unsentBuffer) - out.unsentFragmentStart \div FragmentSize
    ELSE 0

SendQueue ==
    INSTANCE SvSendQueue WITH
        SnapshotSizes  <- {Datagrams(m) : m \in Snapshot},
        GameStateSizes <- {Datagrams(m) : m \in GameState},
        left           <- DatagramsLeft,
        final          <- FALSE,
        queue          <- [i \in DOMAIN queue |->
                              [size |-> Datagrams(queue[i]), final |-> FALSE]],
        down           <- FALSE,
        finalSent      <- FALSE

ImplementsSendQueue == SendQueue!Init /\ [][SendQueue!Next]_SendQueue!vars
=============================================================================
