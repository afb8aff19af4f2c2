---------------------------- MODULE SvSendQueue -----------------------------
(***************************************************************************)
(* The server's send path to one client, by its control alone: how many    *)
(* datagrams of the current message are still to go, and the queue of      *)
(* messages that waits behind them (Engine/server/sv_net_chan.c, and its   *)
(* callers in sv_snapshot.c, sv_client.c and sv_init.c).  SvNetChan adds   *)
(* sequence numbers, bytes and the network, and implements this module.    *)
(*                                                                         *)
(* The size of a message is the number of datagrams it takes: 1 when it is *)
(* shorter than FRAGMENT_SIZE, else at least 2, its last fragment being    *)
(* short.  It is final when SV_FinalMessage sends it.                      *)
(***************************************************************************)
EXTENDS Integers, Sequences

CONSTANTS
    SnapshotSizes,  \* datagrams a snapshot may take
    GameStateSizes, \* datagrams a gamestate may take
    MaxGameStates   \* bound of the model: gamestates sent to the client

ASSUME SvSendQueueAssumption ==
    /\ SnapshotSizes \subseteq Nat \ {0}
    /\ GameStateSizes \subseteq Nat \ {0}
    /\ MaxGameStates \in Nat

VARIABLES
    left,        \* datagrams of the current message not sent yet
    final,       \* the current message is a copy of SV_FinalMessage's
    queue,       \* netchan_start_queue, the oldest message first
    frame,       \* svs.time, as the parity of the number of server frames
    gameStates,  \* gamestates sent so far
    down,        \* SV_FinalMessage has been called
    finalSent    \* history: the last datagram of a final message went out

vars == <<left, final, queue, frame, gameStates, down, finalSent>>

Size == SnapshotSizes \cup GameStateSizes
Waiting == [size : Size, final : BOOLEAN]
Plain(n) == [size |-> n, final |-> FALSE]
Final(n) == [size |-> n, final |-> TRUE]

TypeOK ==
    /\ left \in Nat
    /\ final \in BOOLEAN
    /\ queue \in Seq(Waiting)
    /\ gameStates \in 0 .. MaxGameStates
    /\ frame \in {0, 1}
    /\ down \in BOOLEAN
    /\ finalSent \in BOOLEAN

Init ==
    /\ left = 0
    /\ final = FALSE
    /\ queue = <<>>
    /\ frame = 0
    /\ gameStates = 0
    /\ down = FALSE
    /\ finalSent = FALSE

(* The send path as a value, so that one step can make several calls. *)
Path == [left |-> left, final |-> final, queue |-> queue, finalSent |-> finalSent]

IsNextPath(s) ==
    /\ left' = s.left
    /\ final' = s.final
    /\ queue' = s.queue
    /\ finalSent' = s.finalSent

(* Netchan_TransmitNextFragment emits a datagram of the current message. *)
FragmentSent(s) ==
    [s EXCEPT !.left = @ - 1, !.finalSent = @ \/ (s.left = 1 /\ s.final)]

(* Netchan_Transmit emits the first datagram of a message. *)
Transmitted(s, m) ==
    FragmentSent([s EXCEPT !.left = m.size, !.final = m.final])

(* Seeded fault: the message is queued and nothing is emitted. *)
SvTransmitSilently(s, m) ==
    IF s.left > 0 THEN [s EXCEPT !.queue = Append(@, m)] ELSE Transmitted(s, m)

(* SV_Netchan_Transmit: with fragments unsent the message is queued and the *)
(* next fragment of the current one is emitted by Netchan_TransmitNext-     *)
(* Fragment itself, which does not look at the queue.                       *)
SvTransmit(s, m) ==
    IF s.left > 0
    THEN [FragmentSent(s) EXCEPT !.queue = Append(@, m)]
    ELSE Transmitted(s, m)

(* Seeded fault: the queue is not looked at. *)
SvTransmitNextFragmentOnly(s) == FragmentSent(s)

(* Seeded fault: the head of the queue is transmitted, and a fragment of it *)
(* asked for although it may have none.                                     *)
SvTransmitNextFragmentTwice(s) ==
    LET next == FragmentSent(s)
    IN  IF next.left = 0 /\ next.queue # <<>>
        THEN FragmentSent([Transmitted(next, Head(next.queue)) EXCEPT !.queue = Tail(@)])
        ELSE next

(* SV_Netchan_TransmitNextFragment: when it sends the last fragment it      *)
(* transmits the head of the queue as well.                                 *)
SvTransmitNextFragment(s) ==
    LET next == FragmentSent(s)
    IN  IF next.left = 0 /\ next.queue # <<>>
        THEN [Transmitted(next, Head(next.queue)) EXCEPT !.queue = Tail(@)]
        ELSE next

(* SV_SendClientMessages for this client, in a frame in which its           *)
(* nextSnapshotTime has come; that moment is never far away.                *)
SendFragment ==
    /\ ~down
    /\ left > 0
    /\ IsNextPath(SvTransmitNextFragment(Path))
    /\ frame' = 1 - frame
    /\ UNCHANGED <<gameStates, down>>

SendSnapshot ==
    /\ ~down
    /\ left = 0
    /\ \E n \in SnapshotSizes : IsNextPath(SvTransmit(Path, Plain(n)))
    /\ frame' = 1 - frame
    /\ UNCHANGED <<gameStates, down>>

SendClientMessages == SendFragment \/ SendSnapshot

(* SV_SendClientGameState, called while a client's packet is executed       *)
(* (SV_DoneDownload_f, SV_UserMove, SV_ExecuteClientMessage) whatever the   *)
(* channel is doing.                                                        *)
SendGameState ==
    /\ ~down
    /\ gameStates < MaxGameStates
    /\ \E n \in GameStateSizes : IsNextPath(SvTransmit(Path, Plain(n)))
    /\ gameStates' = gameStates + 1
    /\ UNCHANGED <<frame, down>>

(* SV_FinalMessage: a snapshot with the disconnect command, sent twice, and *)
(* the server exits.                                                        *)
FinalMessage(n, k) ==
    /\ ~down
    /\ IsNextPath(SvTransmit(SvTransmit(Path, Final(n)), Final(k)))
    /\ down' = TRUE
    /\ UNCHANGED <<frame, gameStates>>

Next ==
    \/ SendClientMessages
    \/ SendGameState
    \/ \E n, k \in SnapshotSizes : FinalMessage(n, k)

(* SV_Frame calls SV_SendClientMessages in every frame. *)
Fairness == WF_vars(SendClientMessages)

Spec == Init /\ [][Next]_vars /\ Fairness

-----------------------------------------------------------------------------
(* "insert it in the queue, the message will be encoded and sent later"     *)
(* (sv_net_chan.c:185): unless the server goes down, a message that waits   *)
(* is sent.                                                                 *)
QueuedIsSent == queue # <<>> ~> (queue = <<>> \/ down)

(* What is left of that promise: the queue drains as long as snapshots that *)
(* take several datagrams keep coming, because each one pulls the head of   *)
(* the queue behind it (sv_net_chan.c:144-160).                             *)
SendLongSnapshot ==
    /\ ~down
    /\ left = 0
    /\ \E n \in SnapshotSizes \ {1} : IsNextPath(SvTransmit(Path, Plain(n)))
    /\ frame' = 1 - frame
    /\ UNCHANGED <<gameStates, down>>

FragmentsPullTheQueue ==
    []<><<SendLongSnapshot>>_vars => (queue # <<>> ~> queue = <<>>)

(* "The messages are sent immediately, not just stuck on the outgoing       *)
(* message list, because the server is going to totally exit"               *)
(* (sv_init.c:700-702).  When that is so: the last datagram of a copy goes  *)
(* out if the channel is idle and the first copy takes two datagrams at     *)
(* most, or if one datagram of an earlier message is left and the second    *)
(* copy takes only one; in every other case neither copy goes out whole.    *)
FinalMessageGoesOut ==
    [][\A n, k \in SnapshotSizes :
          FinalMessage(n, k) =>
              (finalSent' <=> \/ left = 0 /\ n <= 2
                              \/ left = 1 /\ k = 1)]_vars

=============================================================================
