-------------------------- MODULE GameStateProofs --------------------------
(***************************************************************************)
(* The client follows the server through any number of map changes,        *)
(* map_restarts and configstring changes, with any number of messages in   *)
(* flight: types, the map of a packet, when a gamestate is sent, and that  *)
(* the configstrings arrive.                                               *)
(*                                                                         *)
(* serverIds only grow, so those of a map are the ones from restarted-     *)
(* ServerId on, and everything below says of a serverId on its way (in a   *)
(* packet, a gamestate or a "cs" command) on which side of it it is.       *)
(***************************************************************************)
EXTENDS GameState, SendPathProofs

(* The commands behind command n that set the serverId.                     *)
SystemInfos(commands, n) == Changes(commands, "systeminfo", n + 1, Len(commands))

(* The server and the log, h.sv and h.log: serverIds and configstrings are  *)
(* those of the map.                                                        *)
ServerIsSound(h) ==
    /\ h \in [sv : ServerHalf, log : Seq(Command)]
    /\ 1 <= h.sv.restartedServerId
    /\ h.sv.restartedServerId <= h.sv.configstrings["systeminfo"]
    /\ h.sv.configstrings["systeminfo"] <= h.sv.serverId
    /\ \A k \in SystemInfos(h.log, 0) : h.log[k].value <= h.sv.serverId

(* What waits for the client waits until it is in the world.                *)
NothingWaits(h) == h.sv.state = "active" => h.sv.csUpdated = {}

ReachesAt(strings, i, n, h) ==
    ValueAfter(strings[i], h.log, i, n + 1, Len(h.log)) = h.sv.configstrings[i]

(* With the commands behind n, strings become the server's configstrings,   *)
(* apart from those that wait for the client to enter the world.            *)
Reaches(strings, n, h) ==
    \A i \in Index : ReachesAt(strings, i, n, h) \/ i \in h.sv.csUpdated

(* The serverIds that are still to be read behind command n are of the map. *)
OfThisMap(n, h) ==
    \A k \in SystemInfos(h.log, n) : h.log[k].value >= h.sv.restartedServerId

(* A client with the gamestate of the map, unless one overtook a command;   *)
(* x is the history.                                                        *)
ClientFollows(c, h, x) ==
    c.map = h.sv.restartedServerId =>
        /\ h.sv.state # "connected"
        /\ ~x.stale =>
              /\ c.serverId >= h.sv.restartedServerId
              /\ OfThisMap(c.executed, h)
              /\ Reaches(c.gameState, c.executed, h)

(* A client in another map, unless a map_restart has put it into this one.  *)
ClientIsBehind(c, h, x) ==
    ~x.forced /\ c.map # h.sv.restartedServerId =>
        /\ h.sv.state # "active"
        /\ c.serverId < h.sv.restartedServerId
        /\ \A k \in SystemInfos(h.log, 0) : h.log[k].value < h.sv.restartedServerId

ClientIsSound(c, h, x) ==
    /\ c \in ClientHalf
    /\ c.map <= h.sv.restartedServerId
    /\ c.serverId <= h.sv.serverId
    /\ c.executed <= Len(h.log)
    /\ Len(c.snapshots) <= SnapshotBackup
    /\ \A i \in 1 .. Len(c.snapshots) :
          /\ c.executed <= c.snapshots[i].commandNum
          /\ c.snapshots[i].commandNum <= Len(h.log)
    /\ \A i, j \in 1 .. Len(c.snapshots) :
          i < j => c.snapshots[i].commandNum <= c.snapshots[j].commandNum
    /\ ClientFollows(c, h, x)
    /\ ClientIsBehind(c, h, x)

(* A packet.  One that acknowledges a message behind the last gamestate was *)
(* written in the map the client is in.                                     *)
PacketIsSound(p, c, h, x) ==
    /\ p \in ClientMessage
    /\ p.map <= c.map
    /\ p.serverId <= h.sv.serverId
    /\ p.later => c.later /\ p.map = c.map
    /\ ~x.forced /\ p.map # h.sv.restartedServerId
          => p.serverId < h.sv.restartedServerId
    /\ ~x.stale /\ p.map = h.sv.restartedServerId
          => p.serverId >= h.sv.restartedServerId

GameStateIsSound(m, c, h) ==
    /\ ~m.later
    /\ c.map <= m.map /\ 1 <= m.map /\ m.map <= h.sv.restartedServerId
    /\ m.strings["systeminfo"] <= h.sv.serverId
    /\ m.map # h.sv.restartedServerId
          => m.strings["systeminfo"] < h.sv.restartedServerId
    /\ m.map = h.sv.restartedServerId =>
          /\ h.sv.state # "connected"
          /\ m.strings["systeminfo"] >= h.sv.restartedServerId
          /\ OfThisMap(m.commands, h)
          /\ Reaches(m.strings, m.commands, h)

MessageIsSound(m, c, h) ==
    /\ m \in ServerMessage
    /\ m.commands <= Len(h.log)
    /\ c.executed <= m.commands
    /\ \A i \in 1 .. Len(c.snapshots) : c.snapshots[i].commandNum <= m.commands
    /\ c.later => m.later
    /\ m.kind = "snapshot" => m.map = 0
    /\ m.kind = "gamestate" => GameStateIsSound(m, c, h)

(* Messages reach further and further, come behind the last gamestate in    *)
(* the end, and have gamestates of later and later maps.                    *)
SentOrder ==
    {p \in ServerMessage \X ServerMessage :
        /\ p[1].commands <= p[2].commands
        /\ p[1].later => p[2].later
        /\ p[1].kind = "gamestate" /\ p[2].kind = "gamestate"
              => p[1].map <= p[2].map}

(* The serverIds to come are new.                                           *)
CountsAreSound ==
    /\ counts \in [spawns   : 0 .. MaxSpawns,
                   restarts : 0 .. MaxRestarts,
                   changes  : 0 .. MaxChanges]
    /\ sv.serverId < NextServerId

HistoryIsSound ==
    /\ history \in [stale : BOOLEAN, forced : BOOLEAN, raced : BOOLEAN,
                    needless : BOOLEAN]
    /\ ~history.stale => ~history.needless

IInv ==
    /\ ServerIsSound(Here)
    /\ NothingWaits(Here)
    /\ ClientIsSound(cl, Here, history)
    /\ toServer \in Seq(ClientMessage)
    /\ \A p \in Elements(toServer) : PacketIsSound(p, cl, Here, history)
    /\ toClient \in Seq(ServerMessage)
    /\ Sorted(toClient, SentOrder)
    /\ \A m \in Elements(toClient) : MessageIsSound(m, cl, Here)
    /\ CountsAreSound
    /\ HistoryIsSound

-----------------------------------------------------------------------------
(* What becomes of a configstring. *)

LEMMA CommandParts ==
    /\ \A c \in Command : c.kind \in {"cs", "map_restart"}
    /\ \A c \in Command : c.kind = "cs" => c.index \in Index /\ c.value \in Value
  BY DEF Command

(* Changes are commands of the log. *)
LEMMA ChangesType ==
    ASSUME NEW l \in Seq(Command), NEW i \in Index, NEW a \in Nat, NEW b \in Nat,
           a >= 1, b <= Len(l), NEW k \in Changes(l, i, a, b)
    PROVE  /\ k \in Nat /\ k \in a .. b /\ k \in 1 .. Len(l)
           /\ l[k] \in Command /\ l[k].kind = "cs" /\ l[k].index = i
           /\ l[k].value \in Value
<1>1. k \in a .. b /\ l[k].kind = "cs" /\ l[k].index = i
  BY DEF Changes
<1>2. k \in Nat /\ k \in 1 .. Len(l)
  BY <1>1, LenProperties
<1>3. l[k] \in Command
  BY <1>2, ElementOfSeq
<1> QED
  BY <1>1, <1>2, <1>3, CommandParts

LEMMA MaxIs ==
    ASSUME NEW S \in SUBSET Nat, NEW x \in S, \A y \in S : x >= y
    PROVE  Max(S) = x
<1>1. PICK m : m = Max(S)
  OBVIOUS
<1>2. m \in S /\ \A y \in S : m >= y
  BY <1>1 DEF Max
<1>3. m \in Nat /\ x \in Nat /\ m >= x /\ x >= m
  BY <1>2
<1> QED
  BY <1>1, <1>3

(* The last change counts. *)
IsLast(k, l, i, a, b) ==
    k \in Changes(l, i, a, b) /\ \A j \in Changes(l, i, a, b) : k >= j

LEMMA ValueAfterLast ==
    ASSUME NEW l, NEW i, NEW a \in Nat, NEW b \in Nat, NEW old,
           NEW k, IsLast(k, l, i, a, b)
    PROVE  ValueAfter(old, l, i, a, b) = l[k].value
<1>1. PICK S : S = Changes(l, i, a, b)
  OBVIOUS
<1>2. S \in SUBSET Nat
  BY <1>1 DEF Changes
<1>3. k \in S /\ \A j \in S : k >= j
  BY <1>1 DEF IsLast
<1>4. Max(S) = k
  BY <1>2, <1>3, MaxIs
<1> QED
  BY <1>1, <1>3, <1>4 DEF ValueAfter

LEMMA ValueAfterNone ==
    ASSUME NEW l, NEW i, NEW a, NEW b, NEW old, Changes(l, i, a, b) = {}
    PROVE  ValueAfter(old, l, i, a, b) = old
  BY DEF ValueAfter

LEMMA LastChange ==
    ASSUME NEW l, NEW i, NEW a \in Nat, NEW b \in Nat, Changes(l, i, a, b) # {}
    PROVE  \E k : IsLast(k, l, i, a, b)
<1>1. PICK S : S = Changes(l, i, a, b)
  OBVIOUS
<1>2. S \in SUBSET Nat /\ \A k \in S : k <= b
  BY <1>1 DEF Changes
<1>3. PICK k \in S : \A j \in S : j <= k
  BY <1>1, <1>2, GreatestExists
<1>4. \A j \in S : k >= j
  BY <1>2, <1>3
<1> QED
  BY <1>1, <1>4 DEF IsLast

(* Commands a .. c are commands a .. b, and then b + 1 .. c. *)
LEMMA ValueAfterBoth ==
    ASSUME NEW l \in Seq(Command), NEW i \in Index, NEW n \in Nat, NEW b \in Nat,
           NEW c \in Nat, n <= b, b <= c, NEW old
    PROVE  ValueAfter(ValueAfter(old, l, i, n + 1, b), l, i, b + 1, c)
              = ValueAfter(old, l, i, n + 1, c)
<1>1. PICK a : a = n + 1
  OBVIOUS
<1>2. PICK d : d = b + 1
  OBVIOUS
<1>3. a \in Nat /\ a <= d /\ d \in Nat
  BY <1>1, <1>2
<1>4. PICK F, S, B : /\ F = Changes(l, i, a, b) /\ S = Changes(l, i, d, c)
                     /\ B = Changes(l, i, a, c)
  OBVIOUS
<1>5. B = F \cup S
  BY <1>2, <1>3, <1>4 DEF Changes
<1>6. \A k \in F : k \in Nat /\ k <= b
  BY <1>3, <1>4 DEF Changes
<1>7. \A k \in S : k \in Nat /\ k > b
  BY <1>2, <1>3, <1>4 DEF Changes
<1>8. CASE S # {}
  <2>1. PICK k : IsLast(k, l, i, d, c)
    BY <1>3, <1>4, <1>8, LastChange
  <2>2. IsLast(k, l, i, a, c)
    <3>1. k \in S /\ \A j \in S : k >= j
      BY <1>4, <2>1 DEF IsLast
    <3>2. k \in B /\ \A j \in B : k >= j
      BY <1>5, <1>6, <1>7, <3>1
    <3> QED
      BY <1>4, <3>2 DEF IsLast
  <2>3. ValueAfter(ValueAfter(old, l, i, a, b), l, i, d, c) = l[k].value
    BY <1>3, <2>1, ValueAfterLast
  <2>4. ValueAfter(old, l, i, a, c) = l[k].value
    BY <1>3, <2>2, ValueAfterLast
  <2> QED
    BY <1>1, <1>2, <2>3, <2>4
<1>9. CASE S = {}
  <2>1. ValueAfter(ValueAfter(old, l, i, a, b), l, i, d, c)
           = ValueAfter(old, l, i, a, b)
    BY <1>4, <1>9, ValueAfterNone
  <2>2. B = F
    BY <1>5, <1>9
  <2>3. ValueAfter(old, l, i, a, b) = ValueAfter(old, l, i, a, c)
    BY <1>4, <2>2 DEF ValueAfter
  <2> QED
    BY <1>1, <1>2, <2>1, <2>3
<1> QED
  BY <1>8, <1>9

(* Commands that do not set the configstring may be left out. *)
LEMMA ValueAfterSkip ==
    ASSUME NEW l \in Seq(Command), NEW i \in Index, NEW n \in Nat, NEW b \in Nat,
           n <= b, b <= Len(l), NEW old,
           Changes(l, i, n + 1, b) = {}
    PROVE  ValueAfter(old, l, i, n + 1, Len(l)) = ValueAfter(old, l, i, b + 1, Len(l))
<1>1. Len(l) \in Nat
  BY LenProperties
<1>2. ValueAfter(old, l, i, n + 1, b) = old
  BY ValueAfterNone
<1> QED
  BY <1>1, <1>2, ValueAfterBoth

(* The value is the old one or that of a change. *)
LEMMA ValueAfterIn ==
    ASSUME NEW l \in Seq(Command), NEW i \in Index, NEW n \in Nat, NEW b \in Nat,
           NEW T, NEW old \in T,
           \A k \in Changes(l, i, n + 1, b) : l[k].value \in T
    PROVE  ValueAfter(old, l, i, n + 1, b) \in T
<1>1. PICK a, S : a = n + 1 /\ S = Changes(l, i, a, b)
  OBVIOUS
<1>2. a \in Nat
  BY <1>1
<1>3. CASE S = {}
  BY <1>1, <1>3, ValueAfterNone
<1>4. CASE S # {}
  <2>1. PICK k : IsLast(k, l, i, a, b)
    BY <1>1, <1>2, <1>4, LastChange
  <2>2. ValueAfter(old, l, i, a, b) = l[k].value
    BY <1>2, <2>1, ValueAfterLast
  <2> QED
    BY <1>1, <2>1, <2>2 DEF IsLast
<1> QED
  BY <1>3, <1>4

(* One command more. *)
Extends(t, l, c) ==
    /\ t \in Seq(Command) /\ Len(t) = Len(l) + 1 /\ t[Len(l) + 1] = c
    /\ \A k \in 1 .. Len(l) : t[k] = l[k]

LEMMA AppendExtends ==
    ASSUME NEW l \in Seq(Command), NEW c \in Command
    PROVE  Extends(Append(l, c), l, c)
  BY AppendProperties, LenProperties DEF Extends

LEMMA ChangesAppend ==
    ASSUME NEW l \in Seq(Command), NEW c \in Command, NEW t, Extends(t, l, c),
           NEW i \in Index, NEW n \in Nat, n <= Len(l)
    PROVE  Changes(t, i, n + 1, Len(t))
              = Changes(l, i, n + 1, Len(l))
                   \cup (IF c.kind = "cs" /\ c.index = i THEN {Len(t)} ELSE {})
<1>1. PICK L : L = Len(l)
  OBVIOUS
<1>2. /\ Len(t) = L + 1 /\ t[L + 1] = c /\ L \in Nat
      /\ \A k \in 1 .. L : t[k] = l[k]
  BY <1>1, LenProperties DEF Extends
<1>3. \A k : k \in n + 1 .. L + 1 <=> k \in n + 1 .. L \/ k = L + 1
  BY <1>1, <1>2
<1>4. \A k \in n + 1 .. L : k \in 1 .. L /\ t[k] = l[k]
  BY <1>1, <1>2
<1>5. Changes(t, i, n + 1, L + 1)
         = Changes(l, i, n + 1, L)
              \cup (IF c.kind = "cs" /\ c.index = i THEN {L + 1} ELSE {})
  BY <1>2, <1>3, <1>4 DEF Changes
<1> QED
  BY <1>1, <1>2, <1>5

LEMMA ValueAfterAppend ==
    ASSUME NEW l \in Seq(Command), NEW c \in Command, NEW t, Extends(t, l, c),
           NEW i \in Index, NEW n \in Nat, n <= Len(l), NEW old
    PROVE  ValueAfter(old, t, i, n + 1, Len(t))
              = IF c.kind = "cs" /\ c.index = i THEN c.value
                ELSE ValueAfter(old, l, i, n + 1, Len(l))
<1>1. PICK a, L, M : a = n + 1 /\ L = Len(l) /\ M = Len(t)
  OBVIOUS
<1>2. PICK T, S : T = Changes(t, i, a, M) /\ S = Changes(l, i, a, L)
  OBVIOUS
<1>3. /\ M = L + 1 /\ t[M] = c /\ L \in Nat /\ a \in Nat /\ M \in Nat
      /\ \A k \in 1 .. L : t[k] = l[k]
  BY <1>1, LenProperties DEF Extends
<1>4. T = S \cup (IF c.kind = "cs" /\ c.index = i THEN {M} ELSE {})
  <2>1. Changes(t, i, n + 1, Len(t))
           = Changes(l, i, n + 1, Len(l))
                \cup (IF c.kind = "cs" /\ c.index = i THEN {Len(t)} ELSE {})
    BY ChangesAppend
  <2> QED
    BY <1>1, <1>2, <2>1
<1>5. \A k \in S : k \in 1 .. L /\ k <= L
  BY <1>1, <1>2, <1>3 DEF Changes
<1>6. CASE c.kind = "cs" /\ c.index = i
  <2>1. M \in T /\ \A j \in T : M >= j
    BY <1>3, <1>4, <1>5, <1>6
  <2>2. IsLast(M, t, i, a, M)
    BY <1>2, <2>1 DEF IsLast
  <2>3. ValueAfter(old, t, i, a, M) = t[M].value
    BY <1>3, <2>2, ValueAfterLast
  <2> QED
    BY <1>1, <1>3, <1>6, <2>3
<1>7. CASE ~(c.kind = "cs" /\ c.index = i)
  <2>1. T = S
    BY <1>4, <1>7
  <2>2. CASE S = {}
    BY <1>1, <1>2, <1>7, <2>1, <2>2, ValueAfterNone
  <2>3. CASE S # {}
    <3>1. PICK k : IsLast(k, l, i, a, L)
      BY <1>2, <1>3, <2>3, LastChange
    <3>2. IsLast(k, t, i, a, M)
      BY <1>2, <2>1, <3>1 DEF IsLast
    <3>3. ValueAfter(old, l, i, a, L) = l[k].value
      BY <1>3, <3>1, ValueAfterLast
    <3>4. ValueAfter(old, t, i, a, M) = t[k].value
      BY <1>3, <3>2, ValueAfterLast
    <3>5. t[k] = l[k]
      BY <1>2, <1>3, <1>5, <3>1 DEF IsLast
    <3> QED
      BY <1>1, <1>7, <3>3, <3>4, <3>5
  <2> QED
    BY <2>2, <2>3
<1> QED
  BY <1>6, <1>7

-----------------------------------------------------------------------------
(* The commands that set the serverId, and the parts of a sound server. *)

LEMMA ServerIdType ==
    /\ \A v \in ServerId : v \in Nat
    /\ \A v \in Value : v \in Nat
    /\ \A v \in ServerId, w \in Nat : w <= v => w \in ServerId
    /\ MaxSpawns \in Nat /\ MaxRestarts \in Nat /\ MaxChanges \in Nat
    /\ "systeminfo" \in Index /\ "other" \in Index
<1>1. MaxSpawns \in Nat /\ MaxRestarts \in Nat /\ MaxChanges \in Nat
  BY GameStateAssumption
<1>2. "systeminfo" \in Index /\ "other" \in Index
  BY DEF Index
<1> QED
  BY <1>1, <1>2 DEF ServerId, Value

LEMMA SystemInfoParts ==
    ASSUME NEW l \in Seq(Command), NEW n \in Nat, NEW k \in SystemInfos(l, n)
    PROVE  /\ k \in Nat /\ n < k /\ k <= Len(l) /\ k \in 1 .. Len(l)
           /\ l[k].kind = "cs" /\ l[k].index = "systeminfo" /\ l[k].value \in Nat
<1>1. Len(l) \in Nat
  BY LenProperties
<1>2. /\ k \in Nat /\ n < k /\ k <= Len(l) /\ k \in 1 .. Len(l)
      /\ l[k].kind = "cs" /\ l[k].index = "systeminfo"
  BY <1>1 DEF SystemInfos, Changes
<1>3. l[k] \in Command
  BY <1>2, ElementOfSeq
<1> QED
  BY <1>2, <1>3, CommandParts, ServerIdType

LEMMA SystemInfosFrom ==
    ASSUME NEW l \in Seq(Command), NEW n \in Nat, NEW m \in Nat, n <= m
    PROVE  SystemInfos(l, m) \subseteq SystemInfos(l, n)
<1>1. Len(l) \in Nat
  BY LenProperties
<1> QED
  BY <1>1 DEF SystemInfos, Changes

LEMMA SystemInfoBefore ==
    ASSUME NEW l \in Seq(Command), NEW t \in Seq(Command), NEW n \in Nat,
           \A k \in 1 .. Len(l) : t[k] = l[k],
           NEW k \in SystemInfos(t, n), k <= Len(l)
    PROVE  k \in SystemInfos(l, n) /\ t[k] = l[k]
<1>1. Len(l) \in Nat /\ Len(t) \in Nat
  BY LenProperties
<1>2. k \in Nat /\ n < k /\ t[k].kind = "cs" /\ t[k].index = "systeminfo"
  BY SystemInfoParts
<1>3. k \in 1 .. Len(l) /\ k \in n + 1 .. Len(l)
  BY <1>1, <1>2
<1> QED
  BY <1>2, <1>3 DEF SystemInfos, Changes

LEMMA ServerParts ==
    ASSUME NEW h, ServerIsSound(h)
    PROVE  /\ h.sv \in ServerHalf /\ h.log \in Seq(Command) /\ Len(h.log) \in Nat
           /\ h.sv.restartedServerId \in ServerId /\ h.sv.restartedServerId \in Nat
           /\ h.sv.serverId \in ServerId /\ h.sv.serverId \in Nat
           /\ h.sv.restartedServerId <= h.sv.serverId
           /\ h.sv.configstrings \in Strings
           /\ \A i \in Index : h.sv.configstrings[i] \in Value
           /\ h.sv.configstrings["systeminfo"] \in Nat
           /\ h.sv.csUpdated \subseteq Index
           /\ \A k \in SystemInfos(h.log, 0) : h.log[k].value \in Nat
<1>1. h.sv \in ServerHalf /\ h.log \in Seq(Command)
  BY DEF ServerIsSound
<1>2. /\ h.sv.restartedServerId \in ServerId /\ h.sv.serverId \in ServerId
      /\ h.sv.configstrings \in Strings /\ h.sv.csUpdated \subseteq Index
  BY <1>1 DEF ServerHalf
<1>3. \A i \in Index : h.sv.configstrings[i] \in Value
  BY <1>2 DEF Strings
<1>4. /\ h.sv.restartedServerId \in Nat /\ h.sv.serverId \in Nat
      /\ h.sv.configstrings["systeminfo"] \in Nat
  BY <1>2, <1>3, ServerIdType
<1>5. h.sv.restartedServerId <= h.sv.serverId
  BY <1>4 DEF ServerIsSound
<1>6. Len(h.log) \in Nat
  BY <1>1, LenProperties
<1>7. \A k \in SystemInfos(h.log, 0) : h.log[k].value \in Nat
  BY <1>1, SystemInfoParts
<1> QED
  BY <1>1, <1>2, <1>3, <1>4, <1>5, <1>6, <1>7

-----------------------------------------------------------------------------
(* What the server may do within a map: commands are added, and a client   *)
(* that followed it still does.                                             *)

Grows(h, g) ==
    /\ ServerIsSound(g)
    /\ g.sv.restartedServerId = h.sv.restartedServerId
    /\ h.sv.serverId <= g.sv.serverId
    /\ Len(h.log) <= Len(g.log)
    /\ \A k \in 1 .. Len(h.log) : g.log[k] = h.log[k]
    /\ OfThisMap(Len(h.log), g)

Keeps(h, g) ==
    h.sv.state # "connected" =>
        /\ g.sv.state # "connected"
        /\ \A n \in 0 .. Len(h.log), strings \in Strings :
              Reaches(strings, n, h) => Reaches(strings, n, g)

Follows(h, g) ==
    /\ Grows(h, g)
    /\ Keeps(h, g)
    /\ g.sv.state # "active" => g.log = h.log

LEMMA GrowsStill ==
    ASSUME NEW h, ServerIsSound(h), NEW g, ServerIsSound(g),
           g.sv.restartedServerId = h.sv.restartedServerId,
           h.sv.serverId <= g.sv.serverId, g.log = h.log
    PROVE  Grows(h, g)
<1>1. h.log \in Seq(Command) /\ Len(h.log) \in Nat
  BY ServerParts
<1>2. SystemInfos(g.log, Len(h.log)) = {}
  BY <1>1, SystemInfoParts
<1>3. OfThisMap(Len(h.log), g)
  BY <1>2 DEF OfThisMap
<1> QED
  BY <1>1, <1>3 DEF Grows

(* What a growing log does to the serverIds behind command n.               *)
LEMMA OfThisMapGrows ==
    ASSUME NEW h, ServerIsSound(h), NEW g, Grows(h, g),
           NEW n \in 0 .. Len(h.log), OfThisMap(n, h)
    PROVE  OfThisMap(n, g)
<1>1. /\ h.log \in Seq(Command) /\ g.log \in Seq(Command)
      /\ Len(h.log) \in Nat /\ Len(g.log) \in Nat /\ n \in Nat
  BY ServerParts DEF Grows
<1> SUFFICES ASSUME NEW k \in SystemInfos(g.log, n)
             PROVE  g.log[k].value >= g.sv.restartedServerId
  BY DEF OfThisMap
<1>2. k \in Nat /\ k <= Len(g.log) /\ g.log[k].kind = "cs" /\ g.log[k].index = "systeminfo"
  BY <1>1, SystemInfoParts
<1>3. CASE k <= Len(h.log)
  <2>1. k \in SystemInfos(h.log, n) /\ g.log[k] = h.log[k]
    BY <1>1, <1>3, SystemInfoBefore DEF Grows
  <2> QED
    BY <2>1 DEF OfThisMap, Grows
<1>4. CASE ~(k <= Len(h.log))
  <2>1. k \in Len(h.log) + 1 .. Len(g.log)
    BY <1>1, <1>2, <1>4
  <2>2. k \in SystemInfos(g.log, Len(h.log))
    BY <1>2, <2>1 DEF SystemInfos, Changes
  <2> QED
    BY <2>2 DEF Grows, OfThisMap
<1> QED
  BY <1>3, <1>4

LEMMA GrowsOn ==
    ASSUME NEW h, ServerIsSound(h), NEW g, NEW k, Grows(h, g), Grows(g, k)
    PROVE  Grows(h, k)
<1>1. ServerIsSound(g) /\ ServerIsSound(k)
  BY DEF Grows
<1>2. /\ Len(h.log) \in Nat /\ Len(g.log) \in Nat /\ Len(k.log) \in Nat
      /\ h.sv.serverId \in Nat /\ g.sv.serverId \in Nat /\ k.sv.serverId \in Nat
  BY <1>1, ServerParts
<1>3. Len(h.log) \in 0 .. Len(g.log) /\ OfThisMap(Len(h.log), g)
  BY <1>2 DEF Grows
<1>4. OfThisMap(Len(h.log), k)
  BY <1>1, <1>3, OfThisMapGrows
<1>5. h.sv.serverId <= k.sv.serverId /\ Len(h.log) <= Len(k.log)
  BY <1>2 DEF Grows
<1>6. \A n \in 1 .. Len(h.log) : k.log[n] = h.log[n]
  BY <1>2 DEF Grows
<1> QED
  BY <1>4, <1>5, <1>6 DEF Grows

LEMMA FollowsOn ==
    ASSUME NEW h, ServerIsSound(h), NEW g, NEW k, Grows(h, g), Keeps(h, g),
           Grows(g, k), Keeps(g, k), k.sv.state # "active" => k.log = h.log
    PROVE  Follows(h, k)
<1>1. ServerIsSound(g)
  BY DEF Grows
<1>2. Len(h.log) \in Nat /\ Len(g.log) \in Nat /\ Len(h.log) <= Len(g.log)
  BY <1>1, ServerParts DEF Grows
<1>3. \A n \in 0 .. Len(h.log) : n \in 0 .. Len(g.log)
  BY <1>2
<1>4. Keeps(h, k)
  BY <1>3 DEF Keeps
<1> QED
  BY <1>4, GrowsOn DEF Follows

LEMMA FollowsItself ==
    ASSUME NEW h, ServerIsSound(h)
    PROVE  Follows(h, h)
<1>1. h.sv.serverId \in Nat
  BY ServerParts
<1>2. Grows(h, h)
  BY <1>1, GrowsStill
<1> QED
  BY <1>2 DEF Follows, Keeps

-----------------------------------------------------------------------------
(* SV_AddServerCommand and SV_SendConfigstring.                             *)

(* The command that tells of a configstring.                                *)
Telling(h, index) ==
    [kind |-> "cs", index |-> index, value |-> h.sv.configstrings[index]]

LEMMA AddsOne ==
    ASSUME NEW h, ServerIsSound(h), h.sv.state # "connected",
           NEW command \in Command,
           NEW g, g = AddServerCommand(h, command)
    PROVE  /\ g \in [sv : ServerHalf, log : Seq(Command)] /\ g.sv = h.sv
           /\ Extends(g.log, h.log, command)
<1>1. h \in [sv : ServerHalf, log : Seq(Command)] /\ h.log \in Seq(Command)
  BY DEF ServerIsSound
<1>2. PICK t : t = Append(h.log, command)
  OBVIOUS
<1>3. Extends(t, h.log, command) /\ t \in Seq(Command)
  BY <1>1, <1>2, AppendExtends DEF Extends
<1>4. g = [h EXCEPT !.log = t]
  BY <1>2 DEF AddServerCommand
<1>5. g.sv = h.sv /\ g.log = t
  BY <1>1, <1>4
<1>6. g \in [sv : ServerHalf, log : Seq(Command)]
  BY <1>1, <1>3, <1>4
<1> QED
  BY <1>3, <1>5, <1>6

(* One command more, which may be a new serverId of this map.               *)
LEMMA OneMoreGrows ==
    ASSUME NEW h, ServerIsSound(h), NEW command \in Command,
           command.kind = "cs" /\ command.index = "systeminfo"
              => /\ command.value >= h.sv.restartedServerId
                 /\ command.value <= h.sv.serverId,
           NEW g, g \in [sv : ServerHalf, log : Seq(Command)], g.sv = h.sv,
           Extends(g.log, h.log, command)
    PROVE  Grows(h, g)
<1>1. /\ h.log \in Seq(Command) /\ g.log \in Seq(Command)
      /\ Len(h.log) \in Nat /\ Len(g.log) \in Nat
      /\ Len(g.log) = Len(h.log) + 1 /\ g.log[Len(h.log) + 1] = command
      /\ \A k \in 1 .. Len(h.log) : g.log[k] = h.log[k]
  BY ServerParts, LenProperties DEF Extends
<1>2. ASSUME NEW n \in Nat, NEW k \in SystemInfos(g.log, n)
      PROVE  \/ k \in SystemInfos(h.log, n) /\ g.log[k] = h.log[k]
             \/ /\ g.log[k].value >= g.sv.restartedServerId
                /\ g.log[k].value <= g.sv.serverId
  <2>1. k \in Nat /\ k <= Len(g.log) /\ g.log[k].kind = "cs" /\ g.log[k].index = "systeminfo"
    BY <1>1, <1>2, SystemInfoParts
  <2>2. CASE k <= Len(h.log)
    BY <1>1, <1>2, <2>2, SystemInfoBefore
  <2>3. CASE ~(k <= Len(h.log))
    <3>1. k = Len(h.log) + 1
      BY <1>1, <2>1, <2>3
    <3> QED
      BY <1>1, <2>1, <3>1
  <2> QED
    BY <2>2, <2>3
<1>3. 0 \in Nat
  OBVIOUS
<1>4. \A k \in SystemInfos(g.log, 0) : g.log[k].value <= g.sv.serverId
  BY <1>2, <1>3 DEF ServerIsSound
<1>5. ServerIsSound(g)
  BY <1>4 DEF ServerIsSound
<1>6. OfThisMap(Len(h.log), g)
  <2> SUFFICES ASSUME NEW k \in SystemInfos(g.log, Len(h.log))
               PROVE  g.log[k].value >= g.sv.restartedServerId
    BY DEF OfThisMap
  <2>1. k \notin SystemInfos(h.log, Len(h.log))
    BY <1>1, SystemInfoParts
  <2> QED
    BY <1>1, <1>2, <2>1
<1>7. h.sv.serverId \in Nat
  BY ServerParts
<1> QED
  BY <1>1, <1>5, <1>6, <1>7 DEF Grows

(* Sent: the commands for the configstrings B, and no other change.         *)
Sent(h, g, B) ==
    /\ Grows(h, g)
    /\ g.sv = h.sv
    /\ \A n \in 0 .. Len(h.log), strings \in Strings, i \in Index :
          ReachesAt(strings, i, n, h) \/ i \in B => ReachesAt(strings, i, n, g)

LEMMA SendSends ==
    ASSUME NEW h, ServerIsSound(h), h.sv.state # "connected", NEW index \in Index
    PROVE  Sent(h, SendConfigstring(h, index), {index})
<1>1. PICK command : command = Telling(h, index)
  OBVIOUS
<1>2. /\ h.log \in Seq(Command) /\ Len(h.log) \in Nat
      /\ h.sv.configstrings[index] \in Value
  BY ServerParts
<1>3. command \in Command
  BY <1>1, <1>2 DEF Telling, Command
<1>4. /\ command.kind = "cs" /\ command.index = index
      /\ command.value = h.sv.configstrings[index]
  BY <1>1 DEF Telling
<1>5. PICK g : g = AddServerCommand(h, command)
  OBVIOUS
<1>6. g = SendConfigstring(h, index)
  BY <1>1, <1>5 DEF SendConfigstring, Telling
<1>7. /\ g \in [sv : ServerHalf, log : Seq(Command)] /\ g.sv = h.sv
      /\ Extends(g.log, h.log, command)
  BY <1>3, <1>5, AddsOne
<1>8. Grows(h, g)
  <2>1. command.kind = "cs" /\ command.index = "systeminfo"
           => /\ command.value >= h.sv.restartedServerId
              /\ command.value <= h.sv.serverId
    <3>1. /\ h.sv.configstrings["systeminfo"] \in Nat
          /\ h.sv.restartedServerId \in Nat
          /\ h.sv.restartedServerId <= h.sv.configstrings["systeminfo"]
          /\ h.sv.configstrings["systeminfo"] <= h.sv.serverId
      BY ServerParts DEF ServerIsSound
    <3> QED
      BY <1>4, <3>1
  <2> QED
    BY <1>3, <1>7, <2>1, OneMoreGrows
<1>9. ASSUME NEW n \in 0 .. Len(h.log), NEW strings \in Strings, NEW i \in Index,
             ReachesAt(strings, i, n, h) \/ i \in {index}
      PROVE  ReachesAt(strings, i, n, g)
  <2>1. n \in Nat /\ n <= Len(h.log)
    BY <1>2, <1>9
  <2>2. PICK t : t = g.log
    OBVIOUS
  <2>3. Extends(t, h.log, command)
    BY <1>7, <2>2
  <2>4. ValueAfter(strings[i], t, i, n + 1, Len(t))
           = IF command.kind = "cs" /\ command.index = i THEN command.value
             ELSE ValueAfter(strings[i], h.log, i, n + 1, Len(h.log))
    BY <1>2, <1>3, <2>1, <2>3, ValueAfterAppend
  <2>5. CASE i = index
    BY <1>4, <1>7, <2>2, <2>4, <2>5 DEF ReachesAt
  <2>6. CASE i # index
    BY <1>4, <1>7, <1>9, <2>2, <2>4, <2>6 DEF ReachesAt
  <2> QED
    BY <2>5, <2>6
<1> QED
  BY <1>6, <1>7, <1>8, <1>9 DEF Sent

LEMMA SentOn ==
    ASSUME NEW h, ServerIsSound(h), NEW g, NEW k, NEW A, NEW B,
           Sent(h, g, A), Sent(g, k, B)
    PROVE  Sent(h, k, A \cup B)
<1>1. ServerIsSound(g) /\ Grows(h, g) /\ Grows(g, k)
  BY DEF Sent, Grows
<1>2. Len(h.log) \in Nat /\ Len(g.log) \in Nat /\ Len(h.log) <= Len(g.log)
  BY <1>1, ServerParts DEF Grows
<1>3. \A n \in 0 .. Len(h.log) : n \in 0 .. Len(g.log)
  BY <1>2
<1>4. Grows(h, k)
  BY <1>1, GrowsOn
<1> QED
  BY <1>3, <1>4 DEF Sent

LEMMA SentNothing ==
    ASSUME NEW h, ServerIsSound(h)
    PROVE  Sent(h, h, {})
  BY FollowsItself DEF Sent, Follows

-----------------------------------------------------------------------------
(* SV_SetConfigstring, SV_UpdateConfigstrings and what calls them.          *)

StringSet(h, index, value) == [h EXCEPT !.sv.configstrings[index] = value]

LEMMA StringIsSet ==
    ASSUME NEW h, ServerIsSound(h), NEW index \in Index, NEW value \in Value,
           index = "systeminfo" => /\ h.sv.restartedServerId <= value
                                   /\ value <= h.sv.serverId,
           NEW g, g = StringSet(h, index, value)
    PROVE  /\ Grows(h, g) /\ g.log = h.log
           /\ g.sv.state = h.sv.state /\ g.sv.csUpdated = h.sv.csUpdated
           /\ g.sv.serverId = h.sv.serverId
           /\ \A n \in 0 .. Len(h.log), strings \in Strings, i \in Index :
                 i # index /\ ReachesAt(strings, i, n, h) => ReachesAt(strings, i, n, g)
<1>1. /\ h \in [sv : ServerHalf, log : Seq(Command)]
      /\ h.sv \in ServerHalf /\ h.sv.configstrings \in Strings
      /\ h.sv.serverId \in Nat
  BY ServerParts DEF ServerIsSound
<1>2. PICK c : c = [h.sv.configstrings EXCEPT ![index] = value]
  OBVIOUS
<1>3. /\ c \in Strings /\ c[index] = value
      /\ \A i \in Index : i # index => c[i] = h.sv.configstrings[i]
  BY <1>1, <1>2 DEF Strings
<1>4. PICK s : s = [h.sv EXCEPT !.configstrings = c]
  OBVIOUS
<1>5. /\ s \in ServerHalf /\ s.configstrings = c /\ s.serverId = h.sv.serverId
      /\ s.restartedServerId = h.sv.restartedServerId
      /\ s.state = h.sv.state /\ s.csUpdated = h.sv.csUpdated
  BY <1>1, <1>3, <1>4 DEF ServerHalf
<1>6. g = [h EXCEPT !.sv = s]
  BY <1>1, <1>2, <1>4 DEF StringSet
<1>7. g \in [sv : ServerHalf, log : Seq(Command)] /\ g.sv = s /\ g.log = h.log
  BY <1>1, <1>5, <1>6
<1>8. ServerIsSound(g)
  <2>1. /\ s.restartedServerId <= c["systeminfo"]
        /\ c["systeminfo"] <= s.serverId
    BY <1>3, <1>5, ServerIdType DEF ServerIsSound
  <2> QED
    BY <1>5, <1>7, <2>1 DEF ServerIsSound
<1>9. Grows(h, g)
  BY <1>1, <1>5, <1>7, <1>8, GrowsStill
<1>10. ASSUME NEW n \in 0 .. Len(h.log), NEW strings \in Strings, NEW i \in Index,
              i # index, ReachesAt(strings, i, n, h)
       PROVE  ReachesAt(strings, i, n, g)
  BY <1>3, <1>5, <1>7, <1>10 DEF ReachesAt
<1> QED
  BY <1>5, <1>7, <1>9, <1>10

(* The configstring waits for the client. *)
Marked(h, index) == [h EXCEPT !.sv.csUpdated = @ \cup {index}]

LEMMA MarkedIsSound ==
    ASSUME NEW h, ServerIsSound(h), NEW index \in Index, NEW g, g = Marked(h, index)
    PROVE  /\ Grows(h, g) /\ g.log = h.log
           /\ g.sv.state = h.sv.state /\ g.sv.configstrings = h.sv.configstrings
           /\ g.sv.serverId = h.sv.serverId
           /\ g.sv.csUpdated = h.sv.csUpdated \cup {index}
<1>1. /\ h \in [sv : ServerHalf, log : Seq(Command)]
      /\ h.sv \in ServerHalf /\ h.sv.csUpdated \subseteq Index
      /\ h.sv.serverId \in Nat
  BY ServerParts DEF ServerIsSound
<1>2. PICK s : s = [h.sv EXCEPT !.csUpdated = @ \cup {index}]
  OBVIOUS
<1>3. /\ s \in ServerHalf /\ s.configstrings = h.sv.configstrings
      /\ s.serverId = h.sv.serverId /\ s.restartedServerId = h.sv.restartedServerId
      /\ s.state = h.sv.state /\ s.csUpdated = h.sv.csUpdated \cup {index}
  BY <1>1, <1>2 DEF ServerHalf
<1>4. g = [h EXCEPT !.sv = s]
  BY <1>1, <1>2 DEF Marked
<1>5. g \in [sv : ServerHalf, log : Seq(Command)] /\ g.sv = s /\ g.log = h.log
  BY <1>1, <1>3, <1>4
<1>6. ServerIsSound(g)
  BY <1>3, <1>5 DEF ServerIsSound
<1>7. Grows(h, g)
  BY <1>1, <1>3, <1>5, <1>6, GrowsStill
<1> QED
  BY <1>3, <1>5, <1>7

LEMMA SetConfigstringFollows ==
    ASSUME NEW h, ServerIsSound(h), NothingWaits(h),
           NEW index \in Index, NEW value \in Value,
           index = "systeminfo" => /\ h.sv.restartedServerId <= value
                                   /\ value <= h.sv.serverId,
           NEW g, g = SetConfigstring(h, index, value)
    PROVE  /\ Follows(h, g) /\ NothingWaits(g)
           /\ g.sv.state = h.sv.state /\ g.sv.serverId = h.sv.serverId
<1>1. PICK t : t = StringSet(h, index, value)
  OBVIOUS
<1>2. /\ Grows(h, t) /\ t.log = h.log
      /\ t.sv.state = h.sv.state /\ t.sv.csUpdated = h.sv.csUpdated
      /\ t.sv.serverId = h.sv.serverId
      /\ \A n \in 0 .. Len(h.log), strings \in Strings, i \in Index :
            i # index /\ ReachesAt(strings, i, n, h) => ReachesAt(strings, i, n, t)
  BY <1>1, StringIsSet
<1>3. ServerIsSound(t)
  BY <1>2 DEF Grows
<1>4. CASE value = h.sv.configstrings[index]
  <2>1. g = h
    BY <1>4 DEF SetConfigstring
  <2> QED
    BY <2>1, FollowsItself
<1>5. CASE value # h.sv.configstrings[index] /\ h.sv.state = "active"
  <2>1. g = SendConfigstring(t, index)
    BY <1>1, <1>5 DEF SetConfigstring, StringSet
  <2>2. Sent(t, g, {index})
    BY <1>2, <1>3, <1>5, <2>1, SendSends
  <2>3. Grows(h, g) /\ g.sv = t.sv
    BY <1>2, <2>2, GrowsOn DEF Sent
  <2>4. ASSUME NEW n \in 0 .. Len(h.log), NEW strings \in Strings, Reaches(strings, n, h)
        PROVE  Reaches(strings, n, g)
    <3> SUFFICES ASSUME NEW i \in Index, i \notin g.sv.csUpdated
                 PROVE  ReachesAt(strings, i, n, g)
      BY DEF Reaches
    <3>1. i \in {index} \/ ReachesAt(strings, i, n, t)
      BY <1>2, <2>3, <2>4 DEF Reaches
    <3> QED
      BY <1>2, <2>2, <3>1 DEF Sent
  <2>5. Keeps(h, g)
    BY <1>2, <1>5, <2>3, <2>4 DEF Keeps
  <2> QED
    BY <1>2, <1>5, <2>3, <2>5 DEF Follows, NothingWaits
<1>6. CASE value # h.sv.configstrings[index] /\ h.sv.state = "primed"
  <2>1. g = Marked(t, index)
    BY <1>1, <1>6 DEF SetConfigstring, StringSet, Marked
  <2>2. /\ Grows(t, g) /\ g.log = t.log
        /\ g.sv.state = t.sv.state /\ g.sv.configstrings = t.sv.configstrings
        /\ g.sv.serverId = t.sv.serverId
        /\ g.sv.csUpdated = t.sv.csUpdated \cup {index}
    BY <1>3, <2>1, MarkedIsSound
  <2>3. Grows(h, g)
    BY <1>2, <2>2, GrowsOn
  <2>4. ASSUME NEW n \in 0 .. Len(h.log), NEW strings \in Strings, Reaches(strings, n, h)
        PROVE  Reaches(strings, n, g)
    <3> SUFFICES ASSUME NEW i \in Index, i \notin g.sv.csUpdated
                 PROVE  ReachesAt(strings, i, n, g)
      BY DEF Reaches
    <3>1. i # index /\ ReachesAt(strings, i, n, h)
      BY <1>2, <2>2, <2>4 DEF Reaches
    <3>2. ReachesAt(strings, i, n, t)
      BY <1>2, <3>1
    <3> QED
      BY <2>2, <3>2 DEF ReachesAt
  <2>5. Keeps(h, g)
    BY <1>2, <1>6, <2>2, <2>4 DEF Keeps
  <2> QED
    BY <1>2, <1>6, <2>2, <2>3, <2>5 DEF Follows, NothingWaits
<1>7. CASE /\ value # h.sv.configstrings[index] /\ h.sv.state # "active"
           /\ h.sv.state # "primed"
  <2>1. g = t
    BY <1>1, <1>7 DEF SetConfigstring, StringSet
  <2>2. h.sv.state = "connected"
    BY <1>7, ServerParts DEF ServerHalf
  <2> QED
    BY <1>2, <2>1, <2>2 DEF Follows, Keeps, NothingWaits
<1> QED
  BY <1>4, <1>5, <1>6, <1>7

(* Changes of the server that reach no client.                              *)
LEMMA FollowsStill ==
    ASSUME NEW h, ServerIsSound(h), NEW s \in ServerHalf,
           s.restartedServerId = h.sv.restartedServerId,
           s.configstrings = h.sv.configstrings, s.csUpdated = h.sv.csUpdated,
           h.sv.serverId <= s.serverId,
           h.sv.state # "connected" => s.state # "connected",
           NEW g, g = [h EXCEPT !.sv = s]
    PROVE  Follows(h, g) /\ g.sv = s /\ g.log = h.log
<1>1. h \in [sv : ServerHalf, log : Seq(Command)]
  BY DEF ServerIsSound
<1>2. g \in [sv : ServerHalf, log : Seq(Command)] /\ g.sv = s /\ g.log = h.log
  BY <1>1
<1>3. /\ h.sv.serverId \in Nat /\ s.serverId \in Nat
      /\ h.sv.configstrings["systeminfo"] \in Nat
      /\ \A k \in SystemInfos(h.log, 0) : h.log[k].value \in Nat
  <2>1. s.serverId \in ServerId
    BY DEF ServerHalf
  <2> QED
    BY <2>1, ServerParts, ServerIdType
<1>4. /\ s.configstrings["systeminfo"] <= s.serverId
      /\ \A k \in SystemInfos(g.log, 0) : g.log[k].value <= s.serverId
  BY <1>2, <1>3 DEF ServerIsSound
<1>5. ServerIsSound(g)
  BY <1>2, <1>4 DEF ServerIsSound
<1>6. Grows(h, g)
  BY <1>2, <1>5, GrowsStill
<1>7. Keeps(h, g)
  BY <1>2 DEF Keeps, Reaches, ReachesAt
<1> QED
  BY <1>2, <1>6, <1>7 DEF Follows

SentIf(h, index, U) == IF index \in U THEN SendConfigstring(h, index) ELSE h

LEMMA SentIfMarked ==
    ASSUME NEW h, ServerIsSound(h), h.sv.state # "connected", NEW index \in Index, NEW U
    PROVE  LET g == SentIf(h, index, U)
           IN  Sent(h, g, U \cap {index}) /\ ServerIsSound(g) /\ g.sv = h.sv
<1> DEFINE g == SentIf(h, index, U)
<1>1. CASE index \in U
  <2>1. Sent(h, g, {index})
    BY <1>1, SendSends DEF SentIf
  <2>2. U \cap {index} = {index}
    BY <1>1
  <2>3. ServerIsSound(g) /\ g.sv = h.sv
    BY <2>1 DEF Sent, Grows
  <2> QED
    BY <2>1, <2>2, <2>3
<1>2. CASE index \notin U
  <2>1. U \cap {index} = {}
    BY <1>2
  <2>2. g = h
    BY <1>2 DEF SentIf
  <2> QED
    BY <2>1, <2>2, SentNothing
<1> QED
  BY <1>1, <1>2

Cleared(h) == [h EXCEPT !.sv.csUpdated = {}]

LEMMA UpdateFollows ==
    ASSUME NEW h, ServerIsSound(h), h.sv.state = "active",
           NEW g, g = UpdateConfigstrings(h)
    PROVE  /\ Grows(h, g) /\ Keeps(h, g) /\ NothingWaits(g)
           /\ g.sv.state = "active" /\ g.sv.serverId = h.sv.serverId
<1>1. PICK U : U = h.sv.csUpdated
  OBVIOUS
<1>2. PICK a : a = SentIf(h, "systeminfo", U)
  OBVIOUS
<1>3. PICK b : b = SentIf(a, "other", U)
  OBVIOUS
<1>4. g = Cleared(b)
  BY <1>1, <1>2, <1>3 DEF UpdateConfigstrings, Cleared, SentIf
<1>5. "systeminfo" \in Index /\ "other" \in Index
  BY DEF Index
<1>6. Sent(h, a, U \cap {"systeminfo"}) /\ ServerIsSound(a) /\ a.sv = h.sv
  BY <1>2, <1>5, SentIfMarked
<1>7. Sent(a, b, U \cap {"other"}) /\ ServerIsSound(b) /\ b.sv = a.sv
  <2>1. ServerIsSound(a) /\ a.sv.state # "connected"
    BY <1>6
  <2> QED
    BY <1>3, <1>5, <2>1, SentIfMarked
<1>8. Sent(h, b, U)
  <2>1. U \subseteq Index
    BY <1>1, ServerParts
  <2>2. (U \cap {"systeminfo"}) \cup (U \cap {"other"}) = U
    BY <2>1 DEF Index
  <2>3. Sent(h, b, (U \cap {"systeminfo"}) \cup (U \cap {"other"}))
    BY <1>6, <1>7, SentOn
  <2> QED
    BY <2>2, <2>3
<1>9. /\ g \in [sv : ServerHalf, log : Seq(Command)] /\ g.log = b.log
      /\ g.sv.csUpdated = {} /\ g.sv.configstrings = b.sv.configstrings
      /\ g.sv.state = b.sv.state /\ g.sv.serverId = b.sv.serverId
      /\ g.sv.restartedServerId = b.sv.restartedServerId
  <2>1. b \in [sv : ServerHalf, log : Seq(Command)] /\ b.sv \in ServerHalf
    BY <1>7 DEF ServerIsSound
  <2>2. PICK s : s = [b.sv EXCEPT !.csUpdated = {}]
    OBVIOUS
  <2>3. /\ s \in ServerHalf /\ s.csUpdated = {} /\ s.configstrings = b.sv.configstrings
        /\ s.state = b.sv.state /\ s.serverId = b.sv.serverId
        /\ s.restartedServerId = b.sv.restartedServerId
    BY <2>1, <2>2 DEF ServerHalf
  <2>4. g = [b EXCEPT !.sv = s]
    BY <1>4, <2>1, <2>2 DEF Cleared
  <2>5. g \in [sv : ServerHalf, log : Seq(Command)] /\ g.sv = s /\ g.log = b.log
    BY <2>1, <2>3, <2>4
  <2> QED
    BY <2>3, <2>5
<1>10. Grows(h, g)
  <2>1. ServerIsSound(g)
    BY <1>7, <1>9 DEF ServerIsSound
  <2>2. b.sv.serverId \in Nat
    BY <1>7, ServerParts
  <2>3. Grows(b, g)
    BY <1>7, <1>9, <2>1, <2>2, GrowsStill
  <2> QED
    BY <1>8, <2>3, GrowsOn DEF Sent
<1>11. ASSUME NEW n \in 0 .. Len(h.log), NEW strings \in Strings, Reaches(strings, n, h)
       PROVE  Reaches(strings, n, g)
  <2> SUFFICES ASSUME NEW i \in Index
               PROVE  ReachesAt(strings, i, n, g)
    BY DEF Reaches
  <2>1. ReachesAt(strings, i, n, h) \/ i \in U
    BY <1>1, <1>11 DEF Reaches
  <2>2. ReachesAt(strings, i, n, b)
    BY <1>8, <2>1 DEF Sent
  <2> QED
    BY <1>9, <2>2 DEF ReachesAt
<1>12. g.sv.state = "active" /\ g.sv.serverId = h.sv.serverId
  BY <1>6, <1>7, <1>9
<1>13. Keeps(h, g)
  BY <1>11, <1>12 DEF Keeps
<1> QED
  BY <1>9, <1>10, <1>12, <1>13 DEF NothingWaits

(* SV_ClientEnterWorld *)
LEMMA EnterWorldFollows ==
    ASSUME NEW h, ServerIsSound(h), NEW g, g = ClientEnterWorld(h)
    PROVE  /\ Follows(h, g) /\ NothingWaits(g)
           /\ g.sv.state = "active" /\ g.sv.serverId = h.sv.serverId
<1>1. /\ h \in [sv : ServerHalf, log : Seq(Command)]
      /\ h.sv \in ServerHalf /\ h.sv.serverId \in Nat
  BY ServerParts DEF ServerIsSound
<1>2. PICK s : s = [h.sv EXCEPT !.state = "active"]
  OBVIOUS
<1>3. /\ s \in ServerHalf /\ s.state = "active" /\ s.configstrings = h.sv.configstrings
      /\ s.csUpdated = h.sv.csUpdated /\ s.serverId = h.sv.serverId
      /\ s.restartedServerId = h.sv.restartedServerId
  BY <1>1, <1>2 DEF ServerHalf
<1>4. PICK a : a = [h EXCEPT !.sv = s]
  OBVIOUS
<1>5. Follows(h, a) /\ a.sv = s
  <2>1. h.sv.serverId <= s.serverId
    BY <1>1, <1>3
  <2> QED
    BY <1>3, <1>4, <2>1, FollowsStill
<1>6. g = UpdateConfigstrings(a)
  BY <1>1, <1>2, <1>4 DEF ClientEnterWorld
<1>7. ServerIsSound(a) /\ a.sv.state = "active" /\ a.sv.serverId = h.sv.serverId
  BY <1>3, <1>5 DEF Follows, Grows
<1>8. /\ Grows(a, g) /\ Keeps(a, g) /\ NothingWaits(g)
      /\ g.sv.state = "active" /\ g.sv.serverId = a.sv.serverId
  BY <1>6, <1>7, UpdateFollows
<1>9. Grows(h, a) /\ Keeps(h, a)
  BY <1>5 DEF Follows
<1>10. Follows(h, g)
  BY <1>8, <1>9, FollowsOn
<1> QED
  BY <1>7, <1>8, <1>10

(* "update infostrings if anything has been changed" *)
LEMMA InfostringsFollow ==
    ASSUME NEW h, ServerIsSound(h), NothingWaits(h), NEW g, g = InfostringsUpdated(h)
    PROVE  /\ Follows(h, g) /\ NothingWaits(g)
           /\ g.sv.state = h.sv.state /\ g.sv.serverId = h.sv.serverId
<1>1. CASE h.sv.modified
  <2>1. PICK a : a = SetConfigstring(h, "systeminfo", h.sv.serverId)
    OBVIOUS
  <2>2. /\ h.sv.serverId \in Value /\ h.sv.serverId \in Nat /\ "systeminfo" \in Index
        /\ h.sv.restartedServerId <= h.sv.serverId
    <3>1. /\ h.sv.serverId \in ServerId /\ h.sv.serverId \in Nat
          /\ h.sv.restartedServerId <= h.sv.serverId
      BY ServerParts
    <3>2. h.sv.serverId \in Value
      BY <3>1, ServerIdType DEF ServerId, Value
    <3> QED
      BY <3>1, <3>2 DEF Index
  <2>3. /\ Follows(h, a) /\ NothingWaits(a)
        /\ a.sv.state = h.sv.state /\ a.sv.serverId = h.sv.serverId
    <3>1. h.sv.serverId <= h.sv.serverId
      BY <2>2
    <3> QED
      BY <2>1, <2>2, <3>1, SetConfigstringFollows
  <2>4. ServerIsSound(a) /\ Grows(h, a) /\ Keeps(h, a)
    BY <2>3 DEF Follows, Grows
  <2>5. PICK s : s = [a.sv EXCEPT !.modified = FALSE]
    OBVIOUS
  <2>6. /\ s \in ServerHalf /\ s.configstrings = a.sv.configstrings
        /\ s.csUpdated = a.sv.csUpdated /\ s.serverId = a.sv.serverId
        /\ s.state = a.sv.state /\ s.restartedServerId = a.sv.restartedServerId
    <3>1. a.sv \in ServerHalf
      BY <2>4, ServerParts
    <3> QED
      BY <2>5, <3>1 DEF ServerHalf
  <2>7. a \in [sv : ServerHalf, log : Seq(Command)]
    BY <2>4 DEF ServerIsSound
  <2>8. g = [a EXCEPT !.sv = s]
    BY <1>1, <2>1, <2>5, <2>7 DEF InfostringsUpdated
  <2>9. Follows(a, g) /\ g.sv = s /\ g.log = a.log
    <3>1. a.sv.serverId <= s.serverId
      BY <2>2, <2>3, <2>6
    <3> QED
      BY <2>4, <2>6, <2>8, <3>1, FollowsStill
  <2>10. g.sv.state # "active" => g.log = h.log
    BY <2>3, <2>6, <2>9 DEF Follows
  <2>11. Grows(a, g) /\ Keeps(a, g)
    BY <2>9 DEF Follows
  <2>12. Follows(h, g)
    BY <2>4, <2>10, <2>11, FollowsOn
  <2> QED
    BY <2>3, <2>6, <2>9, <2>12 DEF NothingWaits
<1>2. CASE ~h.sv.modified
  <2>1. g = h
    BY <1>2 DEF InfostringsUpdated
  <2> QED
    BY <2>1, FollowsItself
<1> QED
  BY <1>1, <1>2

(* SV_MapRestart_f *)
Restarted(h, id) == [h EXCEPT !.sv.serverId = id, !.sv.modified = TRUE]

LEMMA MapRestartFollows ==
    ASSUME NEW h, ServerIsSound(h), NEW id \in ServerId, h.sv.serverId <= id,
           NEW g, g = ClientEnterWorld(
                          AddServerCommand(Restarted(h, id), [kind |-> "map_restart"]))
    PROVE  /\ Follows(h, g) /\ NothingWaits(g)
           /\ g.sv.state = "active" /\ g.sv.serverId = id
<1>s. PICK s : s = [h.sv EXCEPT !.serverId = id, !.modified = TRUE]
  OBVIOUS
<1>r. PICK r : r = [h EXCEPT !.sv = s]
  OBVIOUS
<1>c. PICK command : command = [kind |-> "map_restart"]
  OBVIOUS
<1>t. PICK told : told = AddServerCommand(r, command)
  OBVIOUS
<1>g. g = ClientEnterWorld(told)
  <2>1. h \in [sv : ServerHalf, log : Seq(Command)]
    BY DEF ServerIsSound
  <2>2. r = Restarted(h, id)
    BY <1>s, <1>r, <2>1 DEF Restarted
  <2> QED
    BY <1>c, <1>t, <2>2
<1>1. /\ s \in ServerHalf /\ s.configstrings = h.sv.configstrings
      /\ s.csUpdated = h.sv.csUpdated /\ s.serverId = id
      /\ s.state = h.sv.state /\ s.restartedServerId = h.sv.restartedServerId
  <2>1. h.sv \in ServerHalf
    BY ServerParts
  <2> QED
    BY <1>s, <2>1 DEF ServerHalf
<1>2. Follows(h, r) /\ r.sv = s /\ r.log = h.log
  <2>1. h.sv.serverId <= s.serverId
    BY <1>1
  <2> QED
    BY <1>1, <1>r, <2>1, FollowsStill
<1>3. ServerIsSound(r) /\ Grows(h, r) /\ Keeps(h, r)
  BY <1>2 DEF Follows, Grows
<1>4. Grows(r, told) /\ Keeps(r, told) /\ told.sv = r.sv
  <2>1. CASE r.sv.state = "connected"
    <3>1. told = r
      BY <1>t, <2>1 DEF AddServerCommand
    <3> QED
      BY <1>3, <3>1, FollowsItself DEF Follows
  <2>2. CASE r.sv.state # "connected"
    <3>1. command \in Command /\ command.kind = "map_restart"
      BY <1>c DEF Command
    <3>2. /\ told \in [sv : ServerHalf, log : Seq(Command)] /\ told.sv = r.sv
          /\ Extends(told.log, r.log, command)
      BY <1>3, <1>t, <2>2, <3>1, AddsOne
    <3>3. Grows(r, told)
      BY <1>3, <3>1, <3>2, OneMoreGrows
    <3>4. ASSUME NEW n \in 0 .. Len(r.log), NEW strings \in Strings,
                 NEW i \in Index, ReachesAt(strings, i, n, r)
          PROVE  ReachesAt(strings, i, n, told)
      <4>1. /\ r.log \in Seq(Command) /\ n \in Nat /\ n <= Len(r.log)
        BY <1>3, ServerParts
      <4>2. PICK t : t = told.log
        OBVIOUS
      <4>3. Extends(t, r.log, command)
        BY <3>2, <4>2
      <4>4. ValueAfter(strings[i], t, i, n + 1, Len(t))
               = IF command.kind = "cs" /\ command.index = i THEN command.value
                 ELSE ValueAfter(strings[i], r.log, i, n + 1, Len(r.log))
        BY <3>1, <4>1, <4>3, ValueAfterAppend
      <4> QED
        BY <3>1, <3>2, <3>4, <4>2, <4>4 DEF ReachesAt
    <3>5. Keeps(r, told)
      BY <2>2, <3>2, <3>4 DEF Keeps, Reaches
    <3> QED
      BY <3>2, <3>3, <3>5
  <2> QED
    BY <2>1, <2>2
<1>5. ServerIsSound(told)
  BY <1>4 DEF Grows
<1>6. /\ Follows(told, g) /\ NothingWaits(g)
      /\ g.sv.state = "active" /\ g.sv.serverId = told.sv.serverId
  BY <1>5, <1>g, EnterWorldFollows
<1>7. Grows(told, g) /\ Keeps(told, g)
  BY <1>6 DEF Follows
<1>8. Follows(r, g)
  BY <1>3, <1>4, <1>6, <1>7, FollowsOn
<1>9. Grows(r, g) /\ Keeps(r, g)
  BY <1>8 DEF Follows
<1>10. Follows(h, g)
  BY <1>3, <1>6, <1>9, FollowsOn
<1> QED
  BY <1>1, <1>2, <1>4, <1>6, <1>10

-----------------------------------------------------------------------------
(* The client, its packets and the messages on their way to it, when the    *)
(* server goes on in its map.                                               *)

LEMMA ClientParts ==
    ASSUME NEW c \in ClientHalf
    PROVE  /\ c.map \in Nat /\ c.serverId \in Nat /\ c.executed \in Nat
           /\ c.gameState \in Strings /\ c.later \in BOOLEAN /\ c.inGame \in BOOLEAN
           /\ c.snapshots \in Seq(SnapshotRead) /\ Len(c.snapshots) \in Nat
           /\ \A i \in 1 .. Len(c.snapshots) :
                 c.snapshots[i].commandNum \in Nat /\ c.snapshots[i].active \in BOOLEAN
<1>1. /\ c.map \in ServerId /\ c.serverId \in ServerId /\ c.executed \in Nat
      /\ c.gameState \in Strings /\ c.later \in BOOLEAN /\ c.inGame \in BOOLEAN
      /\ c.snapshots \in Seq(SnapshotRead)
  BY DEF ClientHalf
<1>2. Len(c.snapshots) \in Nat
  BY <1>1, LenProperties
<1>3. \A i \in 1 .. Len(c.snapshots) : c.snapshots[i] \in SnapshotRead
  BY <1>1, ElementOfSeq
<1> QED
  BY <1>1, <1>2, <1>3, ServerIdType DEF SnapshotRead

LEMMA PacketParts ==
    ASSUME NEW p \in ClientMessage
    PROVE  /\ p.serverId \in Nat /\ p.map \in Nat /\ p.later \in BOOLEAN
           /\ p.serverId \in ServerId /\ p.map \in ServerId
  BY ServerIdType DEF ClientMessage

LEMMA MessageParts ==
    ASSUME NEW m \in ServerMessage
    PROVE  /\ m.kind \in {"snapshot", "gamestate"} /\ m.commands \in Nat
           /\ m.active \in BOOLEAN /\ m.later \in BOOLEAN
           /\ m.map \in ServerId /\ m.map \in Nat /\ m.strings \in Strings
           /\ \A i \in Index : m.strings[i] \in Value
           /\ m.strings["systeminfo"] \in Nat
<1>1. /\ m.kind \in {"snapshot", "gamestate"} /\ m.commands \in Nat
      /\ m.active \in BOOLEAN /\ m.later \in BOOLEAN
      /\ m.map \in ServerId /\ m.strings \in Strings
  BY DEF ServerMessage
<1>2. \A i \in Index : m.strings[i] \in Value
  BY <1>1 DEF Strings
<1> QED
  BY <1>1, <1>2, ServerIdType

(* Of the history, what is said of a client depends on two flags.           *)
Hardens(x, y) == y.stale = x.stale /\ (x.forced => y.forced)

Softens(x, y) == (x.stale => y.stale) /\ y.forced = x.forced

LEMMA ClientStays ==
    ASSUME NEW h, ServerIsSound(h), NEW g, Follows(h, g),
           NEW x, NEW y, Hardens(x, y),
           NEW c, ClientIsSound(c, h, x),
           ~y.forced /\ c.map # g.sv.restartedServerId => g.sv.state # "active"
    PROVE  ClientIsSound(c, g, y)
<1>1. /\ c \in ClientHalf /\ Grows(h, g) /\ Keeps(h, g)
      /\ (g.sv.state # "active" => g.log = h.log)
  BY DEF ClientIsSound, Follows
<1>2. ServerIsSound(g) /\ g.sv.restartedServerId = h.sv.restartedServerId
  BY <1>1 DEF Grows
<1>3. /\ h.sv.serverId \in Nat /\ g.sv.serverId \in Nat /\ h.sv.serverId <= g.sv.serverId
      /\ Len(h.log) \in Nat /\ Len(g.log) \in Nat /\ Len(h.log) <= Len(g.log)
  BY <1>1, <1>2, ServerParts DEF Grows
<1>4. /\ c.serverId \in Nat /\ c.executed \in Nat /\ c.gameState \in Strings
      /\ c.executed <= Len(h.log) /\ c.executed \in 0 .. Len(h.log)
      /\ c.serverId <= h.sv.serverId
  <2>1. c.serverId \in Nat /\ c.executed \in Nat /\ c.gameState \in Strings
    BY <1>1, ClientParts
  <2>2. c.executed <= Len(h.log) /\ c.serverId <= h.sv.serverId
    BY DEF ClientIsSound
  <2> QED
    BY <1>3, <2>1, <2>2
<1>5. ClientFollows(c, g, y)
  <2> SUFFICES ASSUME c.map = g.sv.restartedServerId
               PROVE  /\ g.sv.state # "connected"
                      /\ ~y.stale => /\ c.serverId >= g.sv.restartedServerId
                                     /\ OfThisMap(c.executed, g)
                                     /\ Reaches(c.gameState, c.executed, g)
    BY DEF ClientFollows
  <2>1. ClientFollows(c, h, x)
    BY DEF ClientIsSound
  <2>2. /\ h.sv.state # "connected"
        /\ ~y.stale => /\ c.serverId >= h.sv.restartedServerId
                       /\ OfThisMap(c.executed, h)
                       /\ Reaches(c.gameState, c.executed, h)
    BY <1>2, <2>1 DEF ClientFollows, Hardens
  <2>3. OfThisMap(c.executed, h) => OfThisMap(c.executed, g)
    BY <1>1, <1>4, OfThisMapGrows
  <2> QED
    BY <1>1, <1>2, <1>4, <2>2, <2>3 DEF Keeps
<1>6. ClientIsBehind(c, g, y)
  <2> SUFFICES ASSUME ~y.forced, c.map # g.sv.restartedServerId
               PROVE  /\ g.sv.state # "active"
                      /\ c.serverId < g.sv.restartedServerId
                      /\ \A k \in SystemInfos(g.log, 0) :
                            g.log[k].value < g.sv.restartedServerId
    BY DEF ClientIsBehind
  <2>1. g.sv.state # "active" /\ g.log = h.log
    BY <1>1
  <2>2. ClientIsBehind(c, h, x) /\ ~x.forced
    BY DEF ClientIsSound, Hardens
  <2> QED
    BY <1>2, <2>1, <2>2 DEF ClientIsBehind
<1>7. c.serverId <= g.sv.serverId /\ c.executed <= Len(g.log)
  BY <1>3, <1>4
<1>8. \A i \in 1 .. Len(c.snapshots) : c.snapshots[i].commandNum <= Len(g.log)
  <2> SUFFICES ASSUME NEW i \in 1 .. Len(c.snapshots)
               PROVE  c.snapshots[i].commandNum <= Len(g.log)
    OBVIOUS
  <2>1. c.snapshots[i].commandNum \in Nat
    BY <1>1, ClientParts
  <2>2. c.snapshots[i].commandNum <= Len(h.log)
    BY DEF ClientIsSound
  <2> QED
    BY <1>3, <2>1, <2>2
<1> QED
  BY <1>2, <1>5, <1>6, <1>7, <1>8 DEF ClientIsSound

LEMMA PacketStays ==
    ASSUME NEW h, ServerIsSound(h), NEW g, Follows(h, g),
           NEW x, NEW y, Hardens(x, y),
           NEW c, NEW p, PacketIsSound(p, c, h, x)
    PROVE  PacketIsSound(p, c, g, y)
<1>1. /\ ServerIsSound(g) /\ g.sv.restartedServerId = h.sv.restartedServerId
      /\ h.sv.serverId <= g.sv.serverId
  BY DEF Follows, Grows
<1>2. h.sv.serverId \in Nat /\ g.sv.serverId \in Nat
  BY <1>1, ServerParts
<1>3. p.serverId \in Nat /\ p.serverId <= h.sv.serverId
  BY PacketParts DEF PacketIsSound
<1>4. p.serverId <= g.sv.serverId
  BY <1>1, <1>2, <1>3
<1> QED
  BY <1>1, <1>4 DEF PacketIsSound, Hardens

LEMMA MessageStays ==
    ASSUME NEW h, ServerIsSound(h), NEW g, Follows(h, g),
           NEW c, NEW m, MessageIsSound(m, c, h)
    PROVE  MessageIsSound(m, c, g)
<1>1. /\ ServerIsSound(g) /\ g.sv.restartedServerId = h.sv.restartedServerId
      /\ h.sv.serverId <= g.sv.serverId /\ Len(h.log) <= Len(g.log)
      /\ Grows(h, g) /\ Keeps(h, g)
  BY DEF Follows, Grows
<1>2. /\ h.sv.serverId \in Nat /\ g.sv.serverId \in Nat
      /\ Len(h.log) \in Nat /\ Len(g.log) \in Nat
  BY <1>1, ServerParts
<1>3. /\ m \in ServerMessage /\ m.commands \in Nat /\ m.strings \in Strings
      /\ m.strings["systeminfo"] \in Nat
      /\ m.commands <= Len(h.log)
  BY MessageParts DEF MessageIsSound
<1>4. m.commands <= Len(g.log) /\ m.commands \in 0 .. Len(h.log)
  BY <1>1, <1>2, <1>3
<1>5. ASSUME m.kind = "gamestate"
      PROVE  GameStateIsSound(m, c, g)
  <2>1. GameStateIsSound(m, c, h)
    BY <1>5 DEF MessageIsSound
  <2>2. m.strings["systeminfo"] <= g.sv.serverId
    BY <1>1, <1>2, <1>3, <2>1 DEF GameStateIsSound
  <2>3. ASSUME m.map = g.sv.restartedServerId
        PROVE  /\ g.sv.state # "connected"
               /\ OfThisMap(m.commands, g)
               /\ Reaches(m.strings, m.commands, g)
    <3>1. /\ h.sv.state # "connected" /\ OfThisMap(m.commands, h)
          /\ Reaches(m.strings, m.commands, h)
      BY <1>1, <2>1, <2>3 DEF GameStateIsSound
    <3>2. OfThisMap(m.commands, g)
      BY <1>1, <1>4, <3>1, OfThisMapGrows
    <3> QED
      BY <1>1, <1>3, <1>4, <3>1, <3>2 DEF Keeps
  <2> QED
    BY <1>1, <2>1, <2>2, <2>3 DEF GameStateIsSound
<1> QED
  BY <1>4, <1>5 DEF MessageIsSound

-----------------------------------------------------------------------------
(* The actions: those of the server in its map. *)

LEMMA InvariantParts ==
    ASSUME IInv
    PROVE  /\ ServerIsSound(Here) /\ NothingWaits(Here)
           /\ Here.sv = sv /\ Here.log = log
           /\ ClientIsSound(cl, Here, history) /\ cl \in ClientHalf
           /\ toServer \in Seq(ClientMessage) /\ toClient \in Seq(ServerMessage)
           /\ Sorted(toClient, SentOrder)
           /\ CountsAreSound /\ HistoryIsSound
<1>1. Here.sv = sv /\ Here.log = log
  BY DEF Here
<1> QED
  BY <1>1 DEF IInv, ClientIsSound

LEMMA ThereParts ==
    ASSUME NEW g \in [sv : ServerHalf, log : Seq(Command)], Becomes(g)
    PROVE  Here' = g
<1>1. sv' = g.sv /\ log' = g.log
  BY DEF Becomes
<1>2. g = [sv |-> g.sv, log |-> g.log]
  OBVIOUS
<1> QED
  BY <1>1, <1>2 DEF Here

LEMMA ServerStep ==
    ASSUME IInv, NEW g, Follows(Here, g), NothingWaits(g), Becomes(g), cl' = cl,
           toServer' \in Seq(ClientMessage), Elements(toServer') \subseteq Elements(toServer),
           toClient' \in Seq(ServerMessage), Sorted(toClient', SentOrder),
           \A m \in Elements(toClient') :
              m \in Elements(toClient) \/ MessageIsSound(m, cl, g),
           CountsAreSound', HistoryIsSound', Hardens(history, history'),
           ~history'.forced /\ cl.map # sv.restartedServerId => g.sv.state # "active"
    PROVE  IInv'
<1>1. /\ ServerIsSound(Here) /\ ClientIsSound(cl, Here, history) /\ Here.sv = sv
  BY InvariantParts
<1>2. /\ ServerIsSound(g) /\ g.sv.restartedServerId = sv.restartedServerId
  BY <1>1 DEF Follows, Grows
<1>3. Here' = g
  BY <1>2, ThereParts DEF ServerIsSound
<1>4. PICK h : h = Here
  OBVIOUS
<1>5. PICK x, y : x = history /\ y = history'
  OBVIOUS
<1>6. ServerIsSound(h) /\ Follows(h, g) /\ Hardens(x, y)
  BY <1>1, <1>4, <1>5
<1>7. ClientIsSound(cl, g, y)
  <2>1. ~y.forced /\ cl.map # g.sv.restartedServerId => g.sv.state # "active"
    BY <1>2, <1>5
  <2>2. PICK c : c = cl
    OBVIOUS
  <2>3. ClientIsSound(c, h, x)
    BY <1>1, <1>4, <1>5, <2>2
  <2> QED
    BY <1>6, <2>1, <2>2, <2>3, ClientStays
<1>8. ASSUME NEW p \in Elements(toServer')
      PROVE  PacketIsSound(p, cl, g, y)
  <2>1. PacketIsSound(p, cl, h, x)
    BY <1>4, <1>5 DEF IInv
  <2> QED
    BY <1>6, <2>1, PacketStays
<1>9. ASSUME NEW m \in Elements(toClient')
      PROVE  MessageIsSound(m, cl, g)
  <2>1. CASE m \in Elements(toClient)
    <3>1. MessageIsSound(m, cl, h)
      BY <1>4, <2>1 DEF IInv
    <3> QED
      BY <1>6, <3>1, MessageStays
  <2> QED
    BY <2>1
<1>10. /\ ServerIsSound(Here') /\ NothingWaits(Here')
       /\ ClientIsSound(cl', Here', history')
       /\ \A p \in Elements(toServer') : PacketIsSound(p, cl', Here', history')
       /\ \A m \in Elements(toClient') : MessageIsSound(m, cl', Here')
  BY <1>2, <1>3, <1>5, <1>7, <1>8, <1>9
<1> QED
  BY <1>10 DEF IInv

LEMMA CountParts ==
    ASSUME CountsAreSound
    PROVE  /\ counts.spawns \in 0 .. MaxSpawns /\ counts.restarts \in 0 .. MaxRestarts
           /\ counts.changes \in 0 .. MaxChanges
           /\ counts.spawns \in Nat /\ counts.restarts \in Nat /\ counts.changes \in Nat
           /\ NextServerId \in Nat /\ NextValue \in Nat /\ NextValue \in Value
           /\ counts.spawns < MaxSpawns \/ counts.restarts < MaxRestarts
                 => NextServerId \in ServerId /\ NextServerId \in Value
<1>1. /\ counts.spawns \in 0 .. MaxSpawns /\ counts.restarts \in 0 .. MaxRestarts
      /\ counts.changes \in 0 .. MaxChanges
  BY DEF CountsAreSound
<1>2. /\ MaxSpawns \in Nat /\ MaxRestarts \in Nat /\ MaxChanges \in Nat
  BY GameStateAssumption
<1>3. /\ counts.spawns \in Nat /\ counts.restarts \in Nat /\ counts.changes \in Nat
      /\ counts.spawns <= MaxSpawns /\ counts.restarts <= MaxRestarts
      /\ counts.changes <= MaxChanges
  BY <1>1, <1>2
<1>4. NextServerId \in Nat /\ NextValue \in Nat /\ NextValue \in Value
  BY <1>2, <1>3 DEF NextServerId, NextValue, Value
<1>5. ASSUME counts.spawns < MaxSpawns \/ counts.restarts < MaxRestarts
      PROVE  NextServerId \in ServerId /\ NextServerId \in Value
  BY <1>2, <1>3, <1>5 DEF NextServerId, ServerId, Value
<1> QED
  BY <1>1, <1>3, <1>4, <1>5

(* One more of them. *)
LEMMA CountsGo ==
    ASSUME CountsAreSound,
           \/ /\ counts.spawns < MaxSpawns /\ counts' = [counts EXCEPT !.spawns = @ + 1]
              /\ sv'.serverId = NextServerId
           \/ /\ counts.restarts < MaxRestarts
              /\ counts' = [counts EXCEPT !.restarts = @ + 1]
              /\ sv'.serverId = NextServerId
           \/ /\ counts.changes < MaxChanges /\ counts' = [counts EXCEPT !.changes = @ + 1]
              /\ sv'.serverId = sv.serverId
    PROVE  CountsAreSound'
<1>1. /\ counts.spawns \in 0 .. MaxSpawns /\ counts.restarts \in 0 .. MaxRestarts
      /\ counts.changes \in 0 .. MaxChanges
      /\ counts.spawns \in Nat /\ counts.restarts \in Nat /\ counts.changes \in Nat
      /\ MaxSpawns \in Nat /\ MaxRestarts \in Nat /\ MaxChanges \in Nat
  BY CountParts, GameStateAssumption
<1>2. counts \in [spawns   : 0 .. MaxSpawns,
                  restarts : 0 .. MaxRestarts,
                  changes  : 0 .. MaxChanges]
  BY DEF CountsAreSound
<1>3. sv.serverId < 3 + counts.spawns + counts.restarts
  BY DEF CountsAreSound, NextServerId
<1>4. CASE /\ counts.spawns < MaxSpawns /\ counts' = [counts EXCEPT !.spawns = @ + 1]
           /\ sv'.serverId = NextServerId
  <2>1. counts.spawns + 1 \in 0 .. MaxSpawns
    BY <1>1, <1>4
  <2>2. /\ counts' \in [spawns   : 0 .. MaxSpawns,
                        restarts : 0 .. MaxRestarts,
                        changes  : 0 .. MaxChanges]
        /\ counts'.spawns = counts.spawns + 1 /\ counts'.restarts = counts.restarts
    BY <1>2, <1>4, <2>1
  <2>3. sv'.serverId < 3 + counts'.spawns + counts'.restarts
    BY <1>1, <1>4, <2>2 DEF NextServerId
  <2> QED
    BY <2>2, <2>3 DEF CountsAreSound, NextServerId
<1>5. CASE /\ counts.restarts < MaxRestarts
           /\ counts' = [counts EXCEPT !.restarts = @ + 1]
           /\ sv'.serverId = NextServerId
  <2>1. counts.restarts + 1 \in 0 .. MaxRestarts
    BY <1>1, <1>5
  <2>2. /\ counts' \in [spawns   : 0 .. MaxSpawns,
                        restarts : 0 .. MaxRestarts,
                        changes  : 0 .. MaxChanges]
        /\ counts'.spawns = counts.spawns /\ counts'.restarts = counts.restarts + 1
    BY <1>2, <1>5, <2>1
  <2>3. sv'.serverId < 3 + counts'.spawns + counts'.restarts
    BY <1>1, <1>5, <2>2 DEF NextServerId
  <2> QED
    BY <2>2, <2>3 DEF CountsAreSound, NextServerId
<1>6. CASE /\ counts.changes < MaxChanges /\ counts' = [counts EXCEPT !.changes = @ + 1]
           /\ sv'.serverId = sv.serverId
  <2>1. counts.changes + 1 \in 0 .. MaxChanges
    BY <1>1, <1>6
  <2>2. /\ counts' \in [spawns   : 0 .. MaxSpawns,
                        restarts : 0 .. MaxRestarts,
                        changes  : 0 .. MaxChanges]
        /\ counts'.spawns = counts.spawns /\ counts'.restarts = counts.restarts
    BY <1>2, <1>6, <2>1
  <2> QED
    BY <1>3, <1>6, <2>2 DEF CountsAreSound, NextServerId
<1> QED
  BY <1>4, <1>5, <1>6

LEMMA CountsStay ==
    ASSUME CountsAreSound, counts' = counts, sv'.serverId = sv.serverId
    PROVE  CountsAreSound'
  BY DEF CountsAreSound, NextServerId

(* A client that is behind is not in the world, where the server has left   *)
(* it.                                                                      *)
LEMMA BehindIsOutside ==
    ASSUME IInv, ~history.forced, cl.map # sv.restartedServerId
    PROVE  sv.state # "active"
<1>1. ClientIsSound(cl, Here, history) /\ Here.sv = sv
  BY InvariantParts
<1> QED
  BY <1>1 DEF ClientIsSound, ClientIsBehind

LEMMA HistoryStays ==
    ASSUME HistoryIsSound, history' = history
    PROVE  HistoryIsSound' /\ Hardens(history, history')
  BY DEF HistoryIsSound, Hardens

LEMMA SvSetConfigstringStep ==
    ASSUME IInv, SvSetConfigstring
    PROVE  IInv'
<1>1. PICK h : h = Here
  OBVIOUS
<1>2. /\ ServerIsSound(h) /\ NothingWaits(h) /\ h.sv = sv
      /\ CountsAreSound /\ HistoryIsSound /\ toServer \in Seq(ClientMessage)
      /\ toClient \in Seq(ServerMessage) /\ Sorted(toClient, SentOrder)
    BY <1>1, InvariantParts DEF IInv
<1>3. PICK v : v = NextValue
  OBVIOUS
<1>4. PICK g : g = SetConfigstring(h, "other", v)
  OBVIOUS
<1>5. /\ counts.changes < MaxChanges /\ counts' = [counts EXCEPT !.changes = @ + 1]
      /\ Becomes(g) /\ cl' = cl /\ toServer' = toServer /\ toClient' = toClient
      /\ history' = history
  BY <1>1, <1>3, <1>4 DEF SvSetConfigstring
<1>6. /\ Follows(h, g) /\ NothingWaits(g)
      /\ g.sv.state = h.sv.state /\ g.sv.serverId = h.sv.serverId
  <2>1. v \in Value /\ "other" \in Index
    BY <1>2, <1>3, CountParts DEF Index
  <2> QED
    BY <1>2, <1>4, <2>1, SetConfigstringFollows
<1>7. CountsAreSound'
  BY <1>2, <1>5, <1>6, CountsGo DEF Becomes
<1>8. HistoryIsSound' /\ Hardens(history, history')
  BY <1>2, <1>5, HistoryStays
<1>9. ~history'.forced /\ cl.map # sv.restartedServerId => g.sv.state # "active"
  BY <1>2, <1>5, <1>6, BehindIsOutside
<1>10. /\ toServer' \in Seq(ClientMessage) /\ Elements(toServer') \subseteq Elements(toServer)
       /\ toClient' \in Seq(ServerMessage) /\ Sorted(toClient', SentOrder)
       /\ \A m \in Elements(toClient') : m \in Elements(toClient)
  BY <1>2, <1>5
<1> QED
  BY <1>1, <1>5, <1>6, <1>7, <1>8, <1>9, <1>10, ServerStep

LEMMA SvMapRestartStep ==
    ASSUME IInv, SvMapRestart
    PROVE  IInv'
<1>1. PICK h : h = Here
  OBVIOUS
<1>2. /\ ServerIsSound(h) /\ NothingWaits(h) /\ h.sv = sv
      /\ CountsAreSound /\ HistoryIsSound /\ toServer \in Seq(ClientMessage)
      /\ toClient \in Seq(ServerMessage) /\ Sorted(toClient, SentOrder)
    BY <1>1, InvariantParts DEF IInv
<1>3. PICK id : id = NextServerId
  OBVIOUS
<1>4. PICK g : g = ClientEnterWorld(
                      AddServerCommand(Restarted(h, id), [kind |-> "map_restart"]))
  OBVIOUS
<1>5. /\ counts.restarts < MaxRestarts /\ counts' = [counts EXCEPT !.restarts = @ + 1]
      /\ Becomes(g) /\ cl' = cl /\ toServer' = toServer /\ toClient' = toClient
      /\ history' = [history EXCEPT !.forced = @ \/ cl.map # sv.restartedServerId]
  BY <1>1, <1>3, <1>4 DEF SvMapRestart, Restarted
<1>6. /\ Follows(h, g) /\ NothingWaits(g)
      /\ g.sv.state = "active" /\ g.sv.serverId = id
  <2>1. id \in ServerId /\ id \in Nat
    BY <1>2, <1>3, <1>5, CountParts
  <2>2. h.sv.serverId <= id
    <3>1. h.sv.serverId \in Nat
      BY <1>2, ServerParts
    <3>2. h.sv.serverId < id
      BY <1>2, <1>3 DEF CountsAreSound
    <3> QED
      BY <2>1, <3>1, <3>2
  <2> QED
    BY <1>2, <1>4, <2>1, <2>2, MapRestartFollows
<1>7. CountsAreSound'
  BY <1>2, <1>3, <1>5, <1>6, CountsGo DEF Becomes
<1>8. /\ history' \in [stale : BOOLEAN, forced : BOOLEAN, raced : BOOLEAN,
                       needless : BOOLEAN]
      /\ history'.stale = history.stale /\ history'.needless = history.needless
      /\ history.forced => history'.forced
      /\ cl.map # sv.restartedServerId => history'.forced
  BY <1>2, <1>5 DEF HistoryIsSound
<1>9. HistoryIsSound' /\ Hardens(history, history')
  BY <1>2, <1>8 DEF HistoryIsSound, Hardens
<1>10. /\ toServer' \in Seq(ClientMessage) /\ Elements(toServer') \subseteq Elements(toServer)
       /\ toClient' \in Seq(ServerMessage) /\ Sorted(toClient', SentOrder)
       /\ \A m \in Elements(toClient') : m \in Elements(toClient)
  BY <1>2, <1>5
<1> QED
  BY <1>1, <1>5, <1>6, <1>7, <1>8, <1>9, <1>10, ServerStep

(* A snapshot, and what comes behind all messages before it.                *)
LEMMA SnapshotIsSound ==
    ASSUME NEW h, ServerIsSound(h), NEW c \in ClientHalf, c.executed <= Len(h.log),
           \A i \in 1 .. Len(c.snapshots) : c.snapshots[i].commandNum <= Len(h.log)
    PROVE  /\ MessageIsSound(Snapshot(h), c, h)
           /\ \A m \in ServerMessage :
                 m.commands <= Len(h.log) => <<m, Snapshot(h)>> \in SentOrder
<1>1. PICK s : s = Snapshot(h)
  OBVIOUS
<1>2. PICK e : e = [i \in Index |-> 0]
  OBVIOUS
<1>3. 0 \in ServerId /\ 0 \in Value /\ 0 \in Nat
  BY ServerIdType DEF ServerId, Value
<1>4. e \in Strings
  BY <1>2, <1>3 DEF Strings
<1>5. Len(h.log) \in Nat
  BY ServerParts
<1>6. /\ s \in ServerMessage /\ s.kind = "snapshot" /\ s.commands = Len(h.log)
      /\ s.later = TRUE /\ s.map = 0
  BY <1>1, <1>2, <1>3, <1>4, <1>5 DEF Snapshot, ServerMessage
<1>7. s.commands <= Len(h.log)
  BY <1>5, <1>6
<1>8. MessageIsSound(s, c, h)
  BY <1>6, <1>7 DEF MessageIsSound
<1>9. ASSUME NEW m \in ServerMessage, m.commands <= Len(h.log)
      PROVE  <<m, s>> \in SentOrder
  BY <1>6, <1>9 DEF SentOrder
<1> QED
  BY <1>1, <1>8, <1>9

(* Everything in flight has been sent before.                               *)
LEMMA MessagesBefore ==
    ASSUME IInv
    PROVE  \A m \in Elements(toClient) : m \in ServerMessage /\ m.commands <= Len(log)
<1>1. Here.log = log
  BY InvariantParts
<1> QED
  BY <1>1 DEF IInv, MessageIsSound

LEMMA SvFrameStep ==
    ASSUME IInv, NEW due \in BOOLEAN, SvFrame(due)
    PROVE  IInv'
<1>1. PICK h : h = Here
  OBVIOUS
<1>2. /\ ServerIsSound(h) /\ NothingWaits(h) /\ h.sv = sv /\ h.log = log
      /\ CountsAreSound /\ HistoryIsSound /\ toServer \in Seq(ClientMessage)
      /\ toClient \in Seq(ServerMessage) /\ Sorted(toClient, SentOrder)
      /\ cl \in ClientHalf /\ ClientIsSound(cl, h, history)
  BY <1>1, InvariantParts
<1>3. PICK g : g = InfostringsUpdated(h)
  OBVIOUS
<1>4. PICK s : s = Snapshot(g)
  OBVIOUS
<1>5. /\ Becomes(g) /\ cl' = cl /\ toServer' = toServer
      /\ toClient' = IF due THEN Flying(toClient, s) ELSE toClient
      /\ counts' = counts /\ history' = history
  BY <1>1, <1>3, <1>4 DEF SvFrame
<1>6. /\ Follows(h, g) /\ NothingWaits(g)
      /\ g.sv.state = h.sv.state /\ g.sv.serverId = h.sv.serverId
  BY <1>2, <1>3, InfostringsFollow
<1>7. /\ ServerIsSound(g) /\ Len(h.log) <= Len(g.log)
      /\ Len(h.log) \in Nat /\ Len(g.log) \in Nat
  <2>1. ServerIsSound(g) /\ Len(h.log) <= Len(g.log)
    BY <1>6 DEF Follows, Grows
  <2> QED
    BY <1>2, <2>1, ServerParts
<1>8. /\ s \in ServerMessage /\ MessageIsSound(s, cl, g)
      /\ \A m \in ServerMessage : m.commands <= Len(g.log) => <<m, s>> \in SentOrder
  <2>1. PICK c : c = cl
    OBVIOUS
  <2>2. c \in ClientHalf /\ ClientIsSound(c, h, history)
    BY <1>2, <2>1
  <2>3. /\ c.executed \in Nat
        /\ \A i \in 1 .. Len(c.snapshots) : c.snapshots[i].commandNum \in Nat
    BY <2>2, ClientParts
  <2>4. /\ c.executed <= Len(h.log)
        /\ \A i \in 1 .. Len(c.snapshots) : c.snapshots[i].commandNum <= Len(h.log)
    BY <2>2 DEF ClientIsSound
  <2>5. /\ c.executed <= Len(g.log)
        /\ \A i \in 1 .. Len(c.snapshots) : c.snapshots[i].commandNum <= Len(g.log)
    BY <1>7, <2>3, <2>4
  <2>6. /\ MessageIsSound(s, c, g)
        /\ \A m \in ServerMessage : m.commands <= Len(g.log) => <<m, s>> \in SentOrder
    BY <1>4, <1>7, <2>2, <2>5, SnapshotIsSound
  <2> QED
    BY <2>1, <2>6 DEF MessageIsSound
<1>9. /\ toClient' \in Seq(ServerMessage) /\ Sorted(toClient', SentOrder)
      /\ \A m \in Elements(toClient') :
            m \in Elements(toClient) \/ MessageIsSound(m, cl, g)
  <2>1. CASE due
    <3>1. Before(Elements(toClient), {s}, SentOrder)
      <4> SUFFICES ASSUME NEW m \in Elements(toClient)
                   PROVE  <<m, s>> \in SentOrder
        BY DEF Before
      <4>1. m \in ServerMessage /\ m.commands <= Len(h.log) /\ m.commands \in Nat
        BY <1>2, MessagesBefore, MessageParts
      <4>2. m.commands <= Len(g.log)
        BY <1>7, <4>1
      <4> QED
        BY <1>8, <4>1, <4>2
    <3>2. /\ Flying(toClient, s) \in Seq(ServerMessage)
          /\ Elements(Flying(toClient, s)) \subseteq Elements(toClient) \cup {s}
          /\ Sorted(Flying(toClient, s), SentOrder)
      BY <1>2, <1>8, <3>1, FlyingKeepsOrder
    <3> QED
      BY <1>5, <1>8, <2>1, <3>2
  <2>2. CASE ~due
    BY <1>2, <1>5, <2>2
  <2> QED
    BY <2>1, <2>2
<1>10. CountsAreSound'
  BY <1>2, <1>5, <1>6, CountsStay DEF Becomes
<1>11. HistoryIsSound' /\ Hardens(history, history')
  BY <1>2, <1>5, HistoryStays
<1>12. ~history'.forced /\ cl.map # sv.restartedServerId => g.sv.state # "active"
  BY <1>2, <1>5, <1>6, BehindIsOutside
<1>13. toServer' \in Seq(ClientMessage) /\ Elements(toServer') \subseteq Elements(toServer)
  BY <1>2, <1>5
<1> QED
  BY <1>1, <1>5, <1>6, <1>9, <1>10, <1>11, <1>12, <1>13, ServerStep

(* A packet of the current game is from this map, so is the client.         *)
LEMMA CurrentIsOfThisMap ==
    ASSUME IInv, NEW p \in Elements(toServer), IsCurrent(p), ~history.forced
    PROVE  p.map = sv.restartedServerId /\ cl.map = sv.restartedServerId
<1>1. /\ ServerIsSound(Here) /\ Here.sv = sv /\ cl \in ClientHalf
      /\ ClientIsSound(cl, Here, history) /\ PacketIsSound(p, cl, Here, history)
  BY InvariantParts DEF IInv
<1>2. /\ sv.restartedServerId \in Nat /\ sv.serverId \in Nat
      /\ sv.restartedServerId <= sv.serverId
  BY <1>1, ServerParts
<1>3. p.serverId = sv.serverId
  BY DEF IsCurrent
<1>4. p.map # sv.restartedServerId => p.serverId < sv.restartedServerId
  BY <1>1 DEF PacketIsSound
<1>5. p.map = sv.restartedServerId
  BY <1>2, <1>3, <1>4
<1>6. p.map <= cl.map /\ cl.map <= sv.restartedServerId /\ cl.map \in Nat
  BY <1>1, ClientParts DEF PacketIsSound, ClientIsSound
<1> QED
  BY <1>2, <1>5, <1>6

LEMMA SvReceiveMoveStep ==
    ASSUME IInv, NEW i \in 1 .. Len(toServer), SvReceiveMove(i)
    PROVE  IInv'
<1>1. PICK h : h = Here
  OBVIOUS
<1>2. /\ ServerIsSound(h) /\ NothingWaits(h) /\ h.sv = sv
      /\ CountsAreSound /\ HistoryIsSound /\ toServer \in Seq(ClientMessage)
      /\ toClient \in Seq(ServerMessage) /\ Sorted(toClient, SentOrder)
  BY <1>1, InvariantParts
<1>3. PICK g : g = IF sv.state = "primed" THEN ClientEnterWorld(h) ELSE h
  OBVIOUS
<1>4. PICK p : p = toServer[i]
  OBVIOUS
<1>5. /\ IsCurrent(p) /\ Becomes(g) /\ cl' = cl /\ toServer' = AfterArrival(toServer, i)
      /\ toClient' = toClient /\ counts' = counts /\ history' = history
  BY <1>1, <1>3, <1>4 DEF SvReceiveMove
<1>6. /\ Follows(h, g) /\ NothingWaits(g) /\ g.sv.serverId = h.sv.serverId
      /\ g.sv.state = "active" => sv.state \in {"primed", "active"}
  <2>1. CASE sv.state = "primed"
    BY <1>2, <1>3, <2>1, EnterWorldFollows
  <2>2. CASE sv.state # "primed"
    BY <1>2, <1>3, <2>2, FollowsItself
  <2> QED
    BY <2>1, <2>2
<1>7. p \in Elements(toServer)
  BY <1>4 DEF Elements
<1>8. ~history'.forced => cl.map = sv.restartedServerId
  BY <1>5, <1>7, CurrentIsOfThisMap
<1>9. CountsAreSound'
  BY <1>2, <1>5, <1>6, CountsStay DEF Becomes
<1>10. HistoryIsSound' /\ Hardens(history, history')
  BY <1>2, <1>5, HistoryStays
<1>11. toServer' \in Seq(ClientMessage) /\ Elements(toServer') \subseteq Elements(toServer)
  BY <1>2, <1>5, ArrivalKeepsOrder
<1>12. /\ toClient' \in Seq(ServerMessage) /\ Sorted(toClient', SentOrder)
       /\ \A m \in Elements(toClient') : m \in Elements(toClient)
  BY <1>2, <1>5
<1>13. ~history'.forced /\ cl.map # sv.restartedServerId => g.sv.state # "active"
  BY <1>8
<1> QED
  BY <1>1, <1>5, <1>6, <1>9, <1>10, <1>11, <1>12, <1>13, ServerStep

-----------------------------------------------------------------------------
(* SV_SpawnServer: serverIds from the new one on are of the new map, and no *)
(* message in flight has one.                                               *)

Spawned(s, id, value) ==
    [s EXCEPT !.serverId = id,
              !.restartedServerId = id,
              !.configstrings = [systeminfo |-> id, other |-> value],
              !.modified = FALSE,
              !.state = "connected"]

LEMMA SpawnedParts ==
    ASSUME NEW s \in ServerHalf, NEW id \in ServerId, id \in Value, NEW value \in Value,
           NEW t, t = Spawned(s, id, value)
    PROVE  /\ t \in ServerHalf /\ t.serverId = id /\ t.restartedServerId = id
           /\ t.configstrings["systeminfo"] = id /\ t.state = "connected"
<1>1. PICK c : c = [systeminfo |-> id, other |-> value]
  OBVIOUS
<1>2. c \in Strings /\ c["systeminfo"] = id
  <2>1. DOMAIN c = Index /\ \A i \in Index : c[i] \in Value
    BY <1>1 DEF Index
  <2>2. c = [i \in Index |-> c[i]]
    BY <1>1, <2>1 DEF Index
  <2> QED
    BY <1>1, <2>1, <2>2 DEF Strings
<1>3. t = [s EXCEPT !.serverId = id, !.restartedServerId = id, !.configstrings = c,
                    !.modified = FALSE, !.state = "connected"]
  BY <1>1 DEF Spawned
<1> QED
  BY <1>2, <1>3 DEF ServerHalf

LEMMA SpawnStep ==
    ASSUME IInv, SvSpawnServer
    PROVE  IInv'
<1>1. PICK h, id, value : h = Here /\ id = NextServerId /\ value = NextValue
  OBVIOUS
<1>2. /\ ServerIsSound(h) /\ h.sv = sv /\ h.log = log
      /\ CountsAreSound /\ HistoryIsSound /\ toServer \in Seq(ClientMessage)
      /\ toClient \in Seq(ServerMessage) /\ Sorted(toClient, SentOrder)
      /\ cl \in ClientHalf /\ ClientIsSound(cl, h, history)
  BY <1>1, InvariantParts
<1>3. PICK s : s = Spawned(sv, id, value)
  OBVIOUS
<1>4. PICK g : g = [sv |-> s, log |-> log]
  OBVIOUS
<1>5. /\ counts.spawns < MaxSpawns /\ counts' = [counts EXCEPT !.spawns = @ + 1]
      /\ sv' = s /\ cl' = cl /\ toServer' = toServer /\ toClient' = toClient
      /\ log' = log /\ history' = history
  BY <1>1, <1>3 DEF SvSpawnServer, Spawned
<1>6. /\ h.sv \in ServerHalf /\ h.log \in Seq(Command) /\ Len(h.log) \in Nat
      /\ h.sv.restartedServerId \in Nat /\ h.sv.serverId \in Nat
      /\ h.sv.restartedServerId <= h.sv.serverId
      /\ \A k \in SystemInfos(h.log, 0) : h.log[k].value \in Nat
  BY <1>2, ServerParts
<1>7. /\ id \in ServerId /\ id \in Value /\ id \in Nat /\ value \in Value
      /\ h.sv.serverId < id /\ h.sv.restartedServerId < id
  <2>1. id \in ServerId /\ id \in Value /\ id \in Nat /\ value \in Value
    BY <1>1, <1>2, <1>5, CountParts
  <2>2. h.sv.serverId < id
    BY <1>1, <1>2 DEF CountsAreSound
  <2> QED
    BY <1>6, <2>1, <2>2
<1>8. /\ s \in ServerHalf /\ s.serverId = id /\ s.restartedServerId = id
      /\ s.configstrings["systeminfo"] = id /\ s.state = "connected"
  BY <1>2, <1>3, <1>6, <1>7, SpawnedParts
<1>9. /\ g \in [sv : ServerHalf, log : Seq(Command)] /\ g.sv = s /\ g.log = h.log
  BY <1>2, <1>4, <1>6, <1>8
<1>10. Here' = g
  BY <1>4, <1>5 DEF Here
<1>11. \A k \in SystemInfos(g.log, 0) : g.log[k].value < id
  <2> SUFFICES ASSUME NEW k \in SystemInfos(h.log, 0)
               PROVE  h.log[k].value < id
    BY <1>9
  <2>1. h.log[k].value <= h.sv.serverId /\ h.log[k].value \in Nat
    BY <1>2, <1>6 DEF ServerIsSound
  <2> QED
    BY <1>6, <1>7, <2>1
<1>12. ServerIsSound(g) /\ NothingWaits(g)
  <2>1. 1 <= id /\ id <= id
    BY <1>6, <1>7
  <2>2. \A k \in SystemInfos(g.log, 0) : g.log[k].value <= id
    <3> SUFFICES ASSUME NEW k \in SystemInfos(h.log, 0)
                 PROVE  h.log[k].value <= id
      BY <1>9
    <3>1. h.log[k].value < id /\ h.log[k].value \in Nat
      BY <1>6, <1>9, <1>11
    <3> QED
      BY <1>7, <3>1
  <2> QED
    BY <1>8, <1>9, <2>1, <2>2 DEF ServerIsSound, NothingWaits
<1>13. ASSUME NEW n \in Nat, n <= h.sv.serverId
       PROVE  n < id /\ n <= id
  BY <1>6, <1>7, <1>13
<1>14. ClientIsSound(cl, g, history)
  <2>1. /\ cl.map \in Nat /\ cl.serverId \in Nat
    BY <1>2, ClientParts
  <2>2. cl.map <= h.sv.restartedServerId /\ cl.serverId <= h.sv.serverId
    BY <1>2 DEF ClientIsSound
  <2>3. /\ cl.map < id /\ cl.map <= id /\ cl.map # id
        /\ cl.serverId < id /\ cl.serverId <= id
    BY <1>6, <1>7, <2>1, <2>2
  <2>4. ClientFollows(cl, g, history)
    BY <1>8, <1>9, <2>3 DEF ClientFollows
  <2>5. ClientIsBehind(cl, g, history)
    BY <1>8, <1>9, <1>11, <2>3 DEF ClientIsBehind
  <2> QED
    BY <1>2, <1>8, <1>9, <2>3, <2>4, <2>5 DEF ClientIsSound
<1>15. ASSUME NEW p \in Elements(toServer)
       PROVE  PacketIsSound(p, cl, g, history)
  <2>1. PacketIsSound(p, cl, h, history)
    BY <1>1 DEF IInv
  <2>2. p \in ClientMessage /\ p.map <= cl.map /\ p.serverId <= h.sv.serverId
    BY <2>1 DEF PacketIsSound
  <2>3. p.serverId \in Nat /\ p.map \in Nat /\ cl.map \in Nat
    BY <1>2, <2>2, PacketParts, ClientParts
  <2>4. p.serverId < id /\ p.serverId <= id
    BY <1>13, <2>2, <2>3
  <2>5. p.map # id
    <3>1. cl.map <= h.sv.restartedServerId
      BY <1>2 DEF ClientIsSound
    <3> QED
      BY <1>6, <1>7, <2>2, <2>3, <3>1
  <2> QED
    BY <1>8, <1>9, <2>1, <2>4, <2>5 DEF PacketIsSound
<1>16. ASSUME NEW m \in Elements(toClient)
       PROVE  MessageIsSound(m, cl, g)
  <2>1. MessageIsSound(m, cl, h)
    BY <1>1 DEF IInv
  <2>2. ASSUME m.kind = "gamestate"
        PROVE  GameStateIsSound(m, cl, g)
    <3>1. GameStateIsSound(m, cl, h)
      BY <2>1, <2>2 DEF MessageIsSound
    <3>2. m.map \in Nat /\ m.strings["systeminfo"] \in Nat
      BY <2>1, MessageParts DEF MessageIsSound
    <3>3. m.map <= h.sv.restartedServerId /\ m.strings["systeminfo"] <= h.sv.serverId
      BY <3>1 DEF GameStateIsSound
    <3>4. m.map <= id /\ m.map # id
      BY <1>6, <1>7, <3>2, <3>3
    <3>5. m.strings["systeminfo"] < id /\ m.strings["systeminfo"] <= id
      BY <1>13, <3>2, <3>3
    <3> QED
      BY <1>8, <1>9, <3>1, <3>4, <3>5 DEF GameStateIsSound
  <2> QED
    BY <1>9, <2>1, <2>2 DEF MessageIsSound
<1>17. CountsAreSound'
  BY <1>1, <1>2, <1>5, <1>8, CountsGo
<1>18. HistoryIsSound'
  BY <1>2, <1>5, HistoryStays
<1>19. /\ ServerIsSound(Here') /\ NothingWaits(Here')
       /\ ClientIsSound(cl', Here', history')
       /\ \A p \in Elements(toServer') : PacketIsSound(p, cl', Here', history')
       /\ \A m \in Elements(toClient') : MessageIsSound(m, cl', Here')
  BY <1>5, <1>10, <1>12, <1>14, <1>15, <1>16
<1> QED
  BY <1>2, <1>5, <1>17, <1>18, <1>19 DEF IInv

-----------------------------------------------------------------------------
(* SV_SendClientGameState: all messages before are earlier than the last    *)
(* gamestate.                                                               *)

Early(m) == [m EXCEPT !.later = FALSE]

LEMMA EarlyMessage ==
    ASSUME NEW m \in ServerMessage
    PROVE  LET e == Early(m)
           IN  /\ e \in ServerMessage /\ e.kind = m.kind /\ e.commands = m.commands
               /\ e.active = m.active /\ e.later = FALSE /\ e.map = m.map
               /\ e.strings = m.strings
  BY DEF ServerMessage, Early

LEMMA EarlyPacket ==
    ASSUME NEW p \in ClientMessage
    PROVE  LET e == Early(p)
           IN  /\ e \in ClientMessage /\ e.serverId = p.serverId /\ e.map = p.map
               /\ e.later = FALSE
  BY DEF ClientMessage, Early

LEMMA EarlyClient ==
    ASSUME NEW c \in ClientHalf
    PROVE  LET e == Early(c)
           IN  /\ e \in ClientHalf /\ e.map = c.map /\ e.serverId = c.serverId
               /\ e.gameState = c.gameState /\ e.executed = c.executed
               /\ e.inGame = c.inGame /\ e.snapshots = c.snapshots /\ e.later = FALSE
  BY DEF ClientHalf, Early

LEMMA EarlierType ==
    ASSUME NEW M, NEW f \in Seq(M), \A m \in M : Early(m) \in M
    PROVE  /\ Earlier(f) \in Seq(M) /\ Len(Earlier(f)) = Len(f)
           /\ \A i \in 1 .. Len(f) : Earlier(f)[i] = Early(f[i])
           /\ Elements(Earlier(f)) = {Early(m) : m \in Elements(f)}
<1>1. PICK n : n = Len(f)
  OBVIOUS
<1>2. n \in Nat /\ DOMAIN f = 1 .. n /\ \A i \in 1 .. n : f[i] \in M
  BY <1>1, LenProperties, ElementOfSeq
<1>3. PICK e : e = [i \in 1 .. n |-> Early(f[i])]
  OBVIOUS
<1>4. Earlier(f) = e
  BY <1>2, <1>3 DEF Earlier, Early
<1>5. \A i \in 1 .. n : e[i] = Early(f[i]) /\ e[i] \in M
  BY <1>2, <1>3
<1>6. e \in Seq(M) /\ Len(e) = n
  <2>1. e \in [1 .. n -> M]
    BY <1>3, <1>5
  <2>2. e \in Seq(M)
    BY <1>2, <2>1, SeqDef
  <2> QED
    BY <1>2, <1>3, <2>2, LenProperties
<1>7. Elements(e) = {Early(m) : m \in Elements(f)}
  BY <1>1, <1>5, <1>6 DEF Elements
<1> QED
  BY <1>1, <1>4, <1>5, <1>6, <1>7

LEMMA EarlyIsSound ==
    ASSUME NEW c \in ClientHalf, NEW e, e = Early(c), NEW g, NEW y
    PROVE  /\ ClientIsSound(c, g, y) => ClientIsSound(e, g, y)
           /\ \A p \in ClientMessage :
                 PacketIsSound(p, c, g, y) => PacketIsSound(Early(p), e, g, y)
           /\ \A m \in ServerMessage :
                 MessageIsSound(m, c, g) => MessageIsSound(Early(m), e, g)
<1>1. /\ e \in ClientHalf /\ e.map = c.map /\ e.serverId = c.serverId
      /\ e.gameState = c.gameState /\ e.executed = c.executed
      /\ e.snapshots = c.snapshots /\ e.later = FALSE
  BY EarlyClient
<1>2. ClientIsSound(c, g, y) => ClientIsSound(e, g, y)
  BY <1>1 DEF ClientIsSound, ClientFollows, ClientIsBehind
<1>3. ASSUME NEW p \in ClientMessage, PacketIsSound(p, c, g, y)
      PROVE  PacketIsSound(Early(p), e, g, y)
  <2>1. PICK q : q = Early(p)
    OBVIOUS
  <2>2. q \in ClientMessage /\ q.serverId = p.serverId /\ q.map = p.map /\ q.later = FALSE
    BY <2>1, EarlyPacket
  <2>3. PacketIsSound(q, e, g, y)
    BY <1>1, <1>3, <2>2 DEF PacketIsSound
  <2> QED
    BY <2>1, <2>3
<1>4. ASSUME NEW m \in ServerMessage, MessageIsSound(m, c, g)
      PROVE  MessageIsSound(Early(m), e, g)
  <2>1. PICK n : n = Early(m)
    OBVIOUS
  <2>2. /\ n \in ServerMessage /\ n.kind = m.kind /\ n.commands = m.commands
        /\ n.later = FALSE /\ n.map = m.map /\ n.strings = m.strings
    BY <2>1, EarlyMessage
  <2>3. GameStateIsSound(m, c, g) => GameStateIsSound(n, e, g)
    BY <1>1, <2>2 DEF GameStateIsSound
  <2>4. MessageIsSound(n, e, g)
    BY <1>1, <1>4, <2>2, <2>3 DEF MessageIsSound
  <2> QED
    BY <2>1, <2>4
<1> QED
  BY <1>2, <1>3, <1>4

(* The new gamestate: the server's configstrings, and no command behind it. *)
LEMMA GameStateMessageIsSound ==
    ASSUME NEW h, ServerIsSound(h), NEW g, Follows(h, g), g.sv.state = "primed",
           g.sv.configstrings = h.sv.configstrings, g.log = h.log,
           NEW x, NEW c, ClientIsSound(c, h, x), ~c.later
    PROVE  /\ MessageIsSound(GameStateMessage(h), c, g)
           /\ \A m \in ServerMessage :
                 /\ m.commands <= Len(h.log) /\ ~m.later
                 /\ m.kind = "gamestate" => m.map <= h.sv.restartedServerId
                 => <<m, GameStateMessage(h)>> \in SentOrder
<1>1. PICK s : s = GameStateMessage(h)
  OBVIOUS
<1>2. /\ h.log \in Seq(Command) /\ Len(h.log) \in Nat /\ h.sv.configstrings \in Strings
      /\ h.sv.restartedServerId \in ServerId /\ h.sv.restartedServerId \in Nat
      /\ h.sv.configstrings["systeminfo"] \in Nat /\ h.sv.serverId \in Nat
  BY ServerParts
<1>3. /\ s \in ServerMessage /\ s.kind = "gamestate" /\ s.commands = Len(h.log)
      /\ s.later = FALSE /\ s.map = h.sv.restartedServerId
      /\ s.strings = h.sv.configstrings
  BY <1>1, <1>2 DEF GameStateMessage, ServerMessage
<1>4. /\ ServerIsSound(g) /\ g.sv.restartedServerId = h.sv.restartedServerId
      /\ h.sv.serverId <= g.sv.serverId
  BY DEF Follows, Grows
<1>5. /\ 1 <= s.map /\ s.map <= g.sv.restartedServerId
      /\ s.strings["systeminfo"] <= g.sv.serverId
      /\ s.strings["systeminfo"] >= g.sv.restartedServerId
  <2>1. /\ 1 <= h.sv.restartedServerId
        /\ g.sv.restartedServerId <= g.sv.configstrings["systeminfo"]
        /\ g.sv.configstrings["systeminfo"] <= g.sv.serverId
    BY <1>4 DEF ServerIsSound
  <2> QED
    BY <1>2, <1>3, <1>4, <2>1
<1>6. \A i : Changes(g.log, i, Len(h.log) + 1, Len(g.log)) = {}
  BY <1>2 DEF Changes
<1>7. OfThisMap(s.commands, g)
  BY <1>3, <1>6 DEF OfThisMap, SystemInfos
<1>8. Reaches(s.strings, s.commands, g)
  <2> SUFFICES ASSUME NEW i \in Index
               PROVE  ReachesAt(s.strings, i, s.commands, g)
    BY DEF Reaches
  <2>1. ValueAfter(s.strings[i], g.log, i, Len(h.log) + 1, Len(g.log)) = s.strings[i]
    BY <1>6, ValueAfterNone
  <2> QED
    BY <1>3, <2>1 DEF ReachesAt
<1>9. GameStateIsSound(s, c, g)
  <2>1. c.map <= s.map
    BY <1>3 DEF ClientIsSound
  <2> QED
    BY <1>3, <1>4, <1>5, <1>7, <1>8, <2>1 DEF GameStateIsSound
<1>10. /\ s.commands <= Len(g.log) /\ c.executed <= s.commands
       /\ \A i \in 1 .. Len(c.snapshots) : c.snapshots[i].commandNum <= s.commands
  BY <1>2, <1>3 DEF ClientIsSound
<1>11. MessageIsSound(s, c, g)
  BY <1>3, <1>9, <1>10 DEF MessageIsSound
<1>12. ASSUME NEW m \in ServerMessage, m.commands <= Len(h.log), ~m.later,
              m.kind = "gamestate" => m.map <= h.sv.restartedServerId
       PROVE  <<m, s>> \in SentOrder
  BY <1>3, <1>12 DEF SentOrder
<1> QED
  BY <1>1, <1>11, <1>12

(* It goes to a client that has none of this map, and none on its way.      *)
LEMMA GameStateIsNeeded ==
    ASSUME IInv, NEW p \in Elements(toServer), ~IsCurrent(p), HasDroppedGameState(p),
           ~history.stale
    PROVE  ~HasGameState
<1>1. PICK h : h = Here
  OBVIOUS
<1>2. /\ ServerIsSound(h) /\ h.sv = sv /\ cl \in ClientHalf
      /\ toClient \in Seq(ServerMessage) /\ PacketIsSound(p, cl, h, history)
  BY <1>1, InvariantParts DEF IInv
<1>3. /\ sv.restartedServerId \in Nat /\ sv.serverId \in Nat /\ 1 <= sv.restartedServerId
  BY <1>2, ServerParts DEF ServerIsSound
<1>4. /\ p.serverId \in Nat /\ p.map \in Nat /\ p.serverId <= sv.serverId
      /\ cl.later /\ p.map = cl.map
  BY <1>2, PacketParts DEF PacketIsSound, HasDroppedGameState
<1>5. p.serverId < sv.restartedServerId
  <2>1. ~(p.serverId >= sv.restartedServerId /\ p.serverId < sv.serverId)
    BY DEF HasDroppedGameState, BeforeMapRestart
  <2>2. p.serverId # sv.serverId
    BY DEF IsCurrent
  <2> QED
    BY <1>3, <1>4, <2>1, <2>2
<1>6. cl.map # sv.restartedServerId
  <2>1. p.map = sv.restartedServerId => p.serverId >= sv.restartedServerId
    BY <1>2 DEF PacketIsSound
  <2> QED
    BY <1>3, <1>4, <1>5, <2>1
<1>7. ASSUME NEW i \in DOMAIN toClient
      PROVE  toClient[i].map # sv.restartedServerId
  <2>1. PICK m : m = toClient[i]
    OBVIOUS
  <2>2. i \in 1 .. Len(toClient)
    BY <1>2, <1>7, LenProperties
  <2>3. MessageIsSound(m, cl, h)
    BY <1>1, <2>1, <2>2 DEF IInv, Elements
  <2>4. m.later /\ m.kind \in {"snapshot", "gamestate"}
    BY <1>4, <2>3, MessageParts DEF MessageIsSound
  <2>5. m.kind = "snapshot"
    BY <2>3, <2>4 DEF MessageIsSound, GameStateIsSound
  <2>6. m.map = 0
    BY <2>3, <2>5 DEF MessageIsSound
  <2> QED
    BY <1>3, <2>1, <2>6
<1> QED
  BY <1>6, <1>7 DEF HasGameState

LEMMA SendClientGameStateStep ==
    ASSUME IInv, NEW i \in 1 .. Len(toServer), NEW p, p = toServer[i],
           ~IsCurrent(p), HasDroppedGameState(p), SendClientGameState,
           toServer' = Earlier(AfterArrival(toServer, i)), counts' = counts
    PROVE  IInv'
<1>1. PICK h : h = Here
  OBVIOUS
<1>2. /\ ServerIsSound(h) /\ h.sv = sv /\ h.log = log
      /\ CountsAreSound /\ HistoryIsSound /\ toServer \in Seq(ClientMessage)
      /\ toClient \in Seq(ServerMessage)
      /\ cl \in ClientHalf /\ ClientIsSound(cl, h, history)
  BY <1>1, InvariantParts
<1>3. PICK s : s = [sv EXCEPT !.state = "primed"]
  OBVIOUS
<1>4. PICK g : g = [h EXCEPT !.sv = s]
  OBVIOUS
<1>5. PICK e, n, q : e = Early(cl) /\ n = GameStateMessage(h) /\ q = history'
  OBVIOUS
<1>6. /\ sv' = s /\ toClient' = Flying(Earlier(toClient), n) /\ cl' = e /\ log' = log
      /\ history' = [history EXCEPT !.raced = @ \/ sv.modified,
                                    !.needless = @ \/ HasGameState]
  BY <1>1, <1>3, <1>5 DEF SendClientGameState, Early
<1>7. /\ s \in ServerHalf /\ s.state = "primed" /\ s.serverId = sv.serverId
      /\ s.restartedServerId = sv.restartedServerId /\ s.csUpdated = sv.csUpdated
      /\ s.configstrings = sv.configstrings /\ sv.serverId \in Nat
      /\ sv.restartedServerId \in Nat /\ Len(log) \in Nat
  <2>1. /\ sv \in ServerHalf /\ sv.serverId \in Nat /\ sv.restartedServerId \in Nat
        /\ Len(log) \in Nat
    BY <1>2, ServerParts
  <2> QED
    BY <1>3, <2>1 DEF ServerHalf
<1>8. Follows(h, g) /\ g.sv = s /\ g.log = h.log
  <2>1. h.sv = sv /\ ServerIsSound(h) /\ s \in ServerHalf
    BY <1>2, <1>7
  <2>2. /\ s.restartedServerId = h.sv.restartedServerId
        /\ s.configstrings = h.sv.configstrings /\ s.csUpdated = h.sv.csUpdated
        /\ h.sv.serverId <= s.serverId
        /\ h.sv.state # "connected" => s.state # "connected"
    BY <1>7, <2>1
  <2> QED
    BY <1>4, <2>1, <2>2, FollowsStill
<1>9. ServerIsSound(g) /\ NothingWaits(g) /\ g.sv.restartedServerId = sv.restartedServerId
  BY <1>7, <1>8 DEF Follows, Grows, NothingWaits
<1>10. Here' = g
  <2>1. Becomes(g)
    BY <1>2, <1>6, <1>8 DEF Becomes
  <2> QED
    BY <1>9, <2>1, ThereParts DEF ServerIsSound
<1>11. HistoryIsSound' /\ Hardens(history, q)
  <2>1. p \in Elements(toServer)
    BY DEF Elements
  <2>2. ~history.stale => ~HasGameState
    BY <2>1, GameStateIsNeeded
  <2>3. HasGameState \in BOOLEAN /\ sv.modified \in BOOLEAN
    BY <1>2, ServerParts DEF HasGameState, ServerHalf
  <2>4. /\ q \in [stale : BOOLEAN, forced : BOOLEAN, raced : BOOLEAN,
                  needless : BOOLEAN]
        /\ q.stale = history.stale /\ q.forced = history.forced
        /\ q.needless => history.needless \/ HasGameState
    BY <1>2, <1>5, <1>6, <2>3 DEF HistoryIsSound
  <2>5. ~q.stale => ~q.needless
    BY <1>2, <2>2, <2>4 DEF HistoryIsSound
  <2> QED
    BY <1>5, <2>4, <2>5 DEF HistoryIsSound, Hardens
<1>12. PICK x : x = history
  OBVIOUS
<1>13. Hardens(x, q) /\ ClientIsSound(cl, h, x)
  BY <1>2, <1>11, <1>12
<1>14. PICK c : c = cl
  OBVIOUS
<1>15. c \in ClientHalf /\ e = Early(c) /\ ClientIsSound(c, h, x)
  BY <1>2, <1>5, <1>13, <1>14
<1>16. ClientIsSound(e, g, q) /\ e.later = FALSE
  <2>1. g.sv.state # "active"
    BY <1>7, <1>8
  <2>2. ClientIsSound(c, g, q)
    BY <1>2, <1>8, <1>13, <1>15, <2>1, ClientStays
  <2>3. ClientIsSound(e, g, q)
    BY <1>15, <2>2, EarlyIsSound
  <2> QED
    BY <1>15, <2>3, EarlyClient
<1>17. /\ toServer' \in Seq(ClientMessage)
       /\ \A m \in Elements(toServer') : PacketIsSound(m, e, g, q)
  <2>1. PICK f : f = AfterArrival(toServer, i)
    OBVIOUS
  <2>2. f \in Seq(ClientMessage) /\ Elements(f) \subseteq Elements(toServer)
    BY <1>2, <2>1, ArrivalKeepsOrder
  <2>3. \A m \in ClientMessage : Early(m) \in ClientMessage
    BY EarlyPacket
  <2>4. /\ Earlier(f) \in Seq(ClientMessage)
        /\ Elements(Earlier(f)) = {Early(m) : m \in Elements(f)}
    BY <2>2, <2>3, EarlierType
  <2>5. ASSUME NEW m \in Elements(f)
        PROVE  PacketIsSound(Early(m), e, g, q)
    <3>1. PacketIsSound(m, c, h, x)
      BY <1>1, <1>12, <1>14, <2>2, <2>5 DEF IInv
    <3>2. PacketIsSound(m, c, g, q)
      BY <1>2, <1>8, <1>13, <3>1, PacketStays
    <3>3. m \in ClientMessage
      BY <3>1 DEF PacketIsSound
    <3> QED
      BY <1>15, <3>2, <3>3, EarlyIsSound
  <2> QED
    BY <2>1, <2>4, <2>5
<1>18. /\ n \in ServerMessage /\ MessageIsSound(n, e, g)
       /\ \A m \in ServerMessage :
             /\ m.commands <= Len(log) /\ ~m.later
             /\ m.kind = "gamestate" => m.map <= sv.restartedServerId
             => <<m, n>> \in SentOrder
  <2>1. g.sv.state = "primed" /\ g.sv.configstrings = h.sv.configstrings
    BY <1>2, <1>7, <1>8
  <2>2. ClientIsSound(e, h, q)
    <3>1. Hardens(x, q) /\ Follows(h, h)
      BY <1>2, <1>13, FollowsItself
    <3>2. ~q.forced /\ c.map # h.sv.restartedServerId => h.sv.state # "active"
      BY <1>2, <1>11, <1>14, BehindIsOutside DEF Hardens
    <3>3. ClientIsSound(c, h, q)
      BY <1>2, <1>15, <3>1, <3>2, ClientStays
    <3> QED
      BY <1>15, <3>3, EarlyIsSound
  <2>3. /\ MessageIsSound(n, e, g)
        /\ \A m \in ServerMessage :
              /\ m.commands <= Len(h.log) /\ ~m.later
              /\ m.kind = "gamestate" => m.map <= h.sv.restartedServerId
              => <<m, n>> \in SentOrder
    BY <1>2, <1>5, <1>8, <1>16, <2>1, <2>2, GameStateMessageIsSound
  <2>4. n \in ServerMessage
    BY <2>3 DEF MessageIsSound
  <2> QED
    BY <1>2, <2>3, <2>4
<1>19. PICK f : f = Earlier(toClient)
  OBVIOUS
<1>20. /\ f \in Seq(ServerMessage) /\ Sorted(f, SentOrder)
       /\ Elements(f) = {Early(m) : m \in Elements(toClient)}
  <2>1. \A m \in ServerMessage : Early(m) \in ServerMessage
    BY EarlyMessage
  <2>2. /\ f \in Seq(ServerMessage) /\ Len(f) = Len(toClient)
        /\ \A j \in 1 .. Len(toClient) : f[j] = Early(toClient[j])
        /\ Elements(f) = {Early(m) : m \in Elements(toClient)}
    BY <1>2, <1>19, <2>1, EarlierType
  <2>3. Sorted(f, SentOrder)
    <3> SUFFICES ASSUME NEW j \in 1 .. Len(f), NEW k \in 1 .. Len(f), j < k
                 PROVE  <<f[j], f[k]>> \in SentOrder
      BY DEF Sorted
    <3>1. PICK a, b : a = toClient[j] /\ b = toClient[k]
      OBVIOUS
    <3>2. a \in ServerMessage /\ b \in ServerMessage /\ <<a, b>> \in SentOrder
      <4>1. Sorted(toClient, SentOrder)
        BY InvariantParts
      <4> QED
        BY <1>2, <2>2, <3>1, <4>1, ElementOfSeq DEF Sorted
    <3>3. PICK a1, b1 : a1 = Early(a) /\ b1 = Early(b)
      OBVIOUS
    <3>4. /\ a1 \in ServerMessage /\ a1.kind = a.kind /\ a1.commands = a.commands
          /\ a1.later = FALSE /\ a1.map = a.map
      BY <3>2, <3>3, EarlyMessage
    <3>5. /\ b1 \in ServerMessage /\ b1.kind = b.kind /\ b1.commands = b.commands
          /\ b1.map = b.map
      BY <3>2, <3>3, EarlyMessage
    <3>6. <<a1, b1>> \in SentOrder
      BY <3>2, <3>4, <3>5 DEF SentOrder
    <3>7. f[j] = a1 /\ f[k] = b1
      <4>1. j \in 1 .. Len(toClient) /\ k \in 1 .. Len(toClient)
        BY <2>2
      <4> QED
        BY <2>2, <3>1, <3>3, <4>1
    <3> QED
      BY <3>6, <3>7
  <2> QED
    BY <2>2, <2>3
<1>21. ASSUME NEW m \in Elements(f)
       PROVE  MessageIsSound(m, e, g) /\ <<m, n>> \in SentOrder
  <2>1. PICK o \in Elements(toClient) : m = Early(o)
    BY <1>20, <1>21
  <2>2. MessageIsSound(o, c, h)
    BY <1>1, <1>14, <2>1 DEF IInv
  <2>3. MessageIsSound(o, c, g) /\ o \in ServerMessage
    BY <1>2, <1>8, <2>2, MessageStays DEF MessageIsSound
  <2>4. MessageIsSound(m, e, g)
    BY <1>15, <2>1, <2>3, EarlyIsSound
  <2>5. m \in ServerMessage /\ m.later = FALSE
    BY <2>1, <2>3, EarlyMessage
  <2>6. m.commands <= Len(log)
    BY <1>2, <1>8, <2>4 DEF MessageIsSound
  <2>7. m.kind = "gamestate" => m.map <= sv.restartedServerId
    BY <1>9, <2>4 DEF MessageIsSound, GameStateIsSound
  <2> QED
    BY <1>18, <2>4, <2>5, <2>6, <2>7
<1>22. /\ toClient' \in Seq(ServerMessage) /\ Sorted(toClient', SentOrder)
       /\ \A m \in Elements(toClient') : MessageIsSound(m, e, g)
  <2>1. Before(Elements(f), {n}, SentOrder)
    BY <1>21 DEF Before
  <2>2. /\ Flying(f, n) \in Seq(ServerMessage) /\ Sorted(Flying(f, n), SentOrder)
        /\ Elements(Flying(f, n)) \subseteq Elements(f) \cup {n}
    BY <1>18, <1>20, <2>1, FlyingKeepsOrder
  <2> QED
    BY <1>6, <1>18, <1>19, <1>21, <2>2
<1>23. CountsAreSound'
  BY <1>2, <1>6, <1>7, CountsStay
<1>24. /\ ServerIsSound(Here') /\ NothingWaits(Here')
       /\ ClientIsSound(cl', Here', history')
       /\ \A m \in Elements(toServer') : PacketIsSound(m, cl', Here', history')
       /\ \A m \in Elements(toClient') : MessageIsSound(m, cl', Here')
  BY <1>5, <1>6, <1>9, <1>10, <1>16, <1>17, <1>22
<1> QED
  BY <1>11, <1>17, <1>22, <1>23, <1>24 DEF IInv

LEMMA SvReceiveOtherStep ==
    ASSUME IInv, NEW i \in 1 .. Len(toServer), SvReceiveOther(i)
    PROVE  IInv'
<1>1. PICK p : p = toServer[i]
  OBVIOUS
<1>2. /\ ~IsCurrent(p) /\ counts' = counts
      /\ \/ /\ HasDroppedGameState(p) /\ SendClientGameState
            /\ toServer' = Earlier(AfterArrival(toServer, i))
         \/ /\ toServer' = AfterArrival(toServer, i)
            /\ UNCHANGED <<sv, cl, toClient, log, history>>
  BY <1>1 DEF SvReceiveOther
<1>3. CASE /\ HasDroppedGameState(p) /\ SendClientGameState
           /\ toServer' = Earlier(AfterArrival(toServer, i))
  BY <1>1, <1>2, <1>3, SendClientGameStateStep
<1>4. CASE /\ toServer' = AfterArrival(toServer, i)
           /\ UNCHANGED <<sv, cl, toClient, log, history>>
  <2>1. toServer \in Seq(ClientMessage) /\ CountsAreSound /\ HistoryIsSound
    BY InvariantParts
  <2>2. /\ toServer' \in Seq(ClientMessage)
        /\ Elements(toServer') \subseteq Elements(toServer)
    BY <1>4, <2>1, ArrivalKeepsOrder
  <2>3. /\ cl' = cl /\ history' = history /\ toClient' = toClient /\ Here' = Here
    BY <1>4 DEF Here
  <2>4. CountsAreSound' /\ HistoryIsSound'
    BY <1>2, <1>4, <2>1, CountsStay, HistoryStays
  <2> QED
    BY <2>2, <2>3, <2>4 DEF IInv
<1> QED
  BY <1>2, <1>3, <1>4

-----------------------------------------------------------------------------
(* The actions of the client. *)

LEMMA ClientStep ==
    ASSUME IInv, sv' = sv, log' = log, counts' = counts, HistoryIsSound',
           ClientIsSound(cl', Here, history'),
           toServer' \in Seq(ClientMessage),
           \A p \in Elements(toServer') : PacketIsSound(p, cl', Here, history'),
           toClient' \in Seq(ServerMessage), Sorted(toClient', SentOrder),
           \A m \in Elements(toClient') : MessageIsSound(m, cl', Here)
    PROVE  IInv'
<1>1. Here' = Here /\ ServerIsSound(Here) /\ NothingWaits(Here) /\ CountsAreSound
  BY InvariantParts DEF Here
<1>2. CountsAreSound'
  BY <1>1, CountsStay
<1>3. /\ ServerIsSound(Here') /\ NothingWaits(Here')
      /\ ClientIsSound(cl', Here', history')
      /\ \A p \in Elements(toServer') : PacketIsSound(p, cl', Here', history')
      /\ \A m \in Elements(toClient') : MessageIsSound(m, cl', Here')
  BY <1>1
<1> QED
  BY <1>2, <1>3 DEF IInv

LEMMA ClWritePacketStep ==
    ASSUME IInv, ClWritePacket
    PROVE  IInv'
<1>1. PICK h : h = Here
  OBVIOUS
<1>2. PICK p : p = [serverId |-> cl.serverId, map |-> cl.map, later |-> cl.later]
  OBVIOUS
<1>3. /\ toServer' = Flying(toServer, p)
      /\ sv' = sv /\ cl' = cl /\ toClient' = toClient /\ log' = log
      /\ counts' = counts /\ history' = history
  BY <1>2 DEF ClWritePacket
<1>4. /\ ServerIsSound(h) /\ toServer \in Seq(ClientMessage)
      /\ toClient \in Seq(ServerMessage) /\ Sorted(toClient, SentOrder)
      /\ cl \in ClientHalf /\ ClientIsSound(cl, h, history) /\ HistoryIsSound
  BY <1>1, InvariantParts
<1>5. p \in ClientMessage
  BY <1>2, <1>4 DEF ClientHalf, ClientMessage
<1>6. PacketIsSound(p, cl, h, history)
  <2>1. p.serverId = cl.serverId /\ p.map = cl.map /\ p.later = cl.later
    BY <1>2
  <2>2. cl.map \in Nat /\ cl.map <= cl.map /\ cl.serverId <= h.sv.serverId
    BY <1>4, ClientParts DEF ClientIsSound
  <2>3. ~history.forced /\ cl.map # h.sv.restartedServerId
           => cl.serverId < h.sv.restartedServerId
    BY <1>4 DEF ClientIsSound, ClientIsBehind
  <2>4. ~history.stale /\ cl.map = h.sv.restartedServerId
           => cl.serverId >= h.sv.restartedServerId
    BY <1>4 DEF ClientIsSound, ClientFollows
  <2> QED
    BY <1>5, <2>1, <2>2, <2>3, <2>4 DEF PacketIsSound
<1>8. /\ Flying(toServer, p) \in Seq(ClientMessage)
      /\ Elements(Flying(toServer, p)) \subseteq Elements(toServer) \cup {p}
  BY <1>4, <1>5, FlyingKeepsOrder
<1>9. \A q \in Elements(toServer') : PacketIsSound(q, cl', Here, history')
  BY <1>1, <1>3, <1>6, <1>8 DEF IInv
<1>10. /\ ClientIsSound(cl', Here, history') /\ HistoryIsSound'
       /\ toServer' \in Seq(ClientMessage)
       /\ toClient' \in Seq(ServerMessage) /\ Sorted(toClient', SentOrder)
       /\ \A m \in Elements(toClient') : MessageIsSound(m, cl', Here)
  BY <1>1, <1>3, <1>4, <1>8, HistoryStays DEF IInv
<1> QED
  BY <1>3, <1>9, <1>10, ClientStep

(* A client that has read gamestate m.                                      *)
Started(c, m) ==
    [c EXCEPT !.map = m.map, !.serverId = m.strings["systeminfo"],
              !.gameState = m.strings, !.later = FALSE, !.inGame = FALSE,
              !.snapshots = <<>>]

LEMMA StartedParts ==
    ASSUME NEW c \in ClientHalf, NEW m \in ServerMessage,
           m.strings["systeminfo"] \in ServerId
    PROVE  LET d == Started(c, m)
           IN  /\ d \in ClientHalf /\ d.map = m.map
               /\ d.serverId = m.strings["systeminfo"] /\ d.gameState = m.strings
               /\ d.executed = c.executed /\ d.later = FALSE
               /\ d.snapshots = <<>> /\ Len(d.snapshots) = 0
<1>d. PICK d : d = Started(c, m)
  OBVIOUS
<1>1. m.map \in ServerId /\ m.strings \in Strings
  BY MessageParts
<1>2. PICK e : e = <<>>
  OBVIOUS
<1>3. e \in Seq(SnapshotRead) /\ Len(e) = 0
  BY <1>2, EmptySeq
<1>4. PICK v : v = m.strings["systeminfo"]
  OBVIOUS
<1>5. d = [c EXCEPT !.map = m.map, !.serverId = v, !.gameState = m.strings,
                    !.later = FALSE, !.inGame = FALSE, !.snapshots = e]
  BY <1>d, <1>2, <1>4 DEF Started
<1>6. /\ d \in ClientHalf /\ d.map = m.map /\ d.serverId = v /\ d.gameState = m.strings
      /\ d.executed = c.executed /\ d.later = FALSE /\ d.snapshots = e
  BY <1>1, <1>3, <1>4, <1>5 DEF ClientHalf
<1> QED
  BY <1>d, <1>2, <1>3, <1>4, <1>6

(* It has missed no configstring that m does not have.                      *)
NothingOvertaken(c, m, h) ==
    \A i \in Index : Changes(h.log, i, c.executed + 1, m.commands) = {}

LEMMA StartedIsSound ==
    ASSUME NEW h, ServerIsSound(h), NEW x, NEW y, Softens(x, y),
           NEW c, ClientIsSound(c, h, x),
           NEW m, MessageIsSound(m, c, h), m.kind = "gamestate",
           y.stale \/ NothingOvertaken(c, m, h)
    PROVE  LET d == Started(c, m)
           IN  /\ ClientIsSound(d, h, y) /\ ~d.later /\ d.map = m.map
               /\ c.map <= d.map /\ d.executed = c.executed /\ Len(d.snapshots) = 0
<1>d. PICK d : d = Started(c, m)
  OBVIOUS
<1>1. /\ m \in ServerMessage /\ GameStateIsSound(m, c, h) /\ c \in ClientHalf
      /\ c.executed <= m.commands /\ m.commands <= Len(h.log)
  BY DEF MessageIsSound, ClientIsSound
<1>2. /\ h.log \in Seq(Command) /\ Len(h.log) \in Nat
      /\ h.sv.serverId \in ServerId /\ h.sv.serverId \in Nat
      /\ h.sv.restartedServerId \in Nat
  BY ServerParts
<1>3. /\ m.map \in Nat /\ m.strings \in Strings /\ m.strings["systeminfo"] \in Nat
      /\ m.commands \in Nat
      /\ c.executed \in Nat /\ c.map \in Nat
  BY <1>1, MessageParts, ClientParts
<1>4. /\ m.strings["systeminfo"] <= h.sv.serverId
      /\ c.map <= m.map /\ m.map <= h.sv.restartedServerId
  BY <1>1 DEF GameStateIsSound
<1>5. m.strings["systeminfo"] \in ServerId
  BY <1>2, <1>3, <1>4, ServerIdType
<1>6. /\ d \in ClientHalf /\ d.map = m.map
      /\ d.serverId = m.strings["systeminfo"] /\ d.gameState = m.strings
      /\ d.executed = c.executed /\ d.later = FALSE
      /\ d.snapshots = <<>> /\ Len(d.snapshots) = 0
  BY <1>d, <1>1, <1>5, StartedParts
<1>7. ClientFollows(d, h, y)
  <2> SUFFICES ASSUME d.map = h.sv.restartedServerId
               PROVE  /\ h.sv.state # "connected"
                      /\ ~y.stale => /\ d.serverId >= h.sv.restartedServerId
                                     /\ OfThisMap(d.executed, h)
                                     /\ Reaches(d.gameState, d.executed, h)
    BY DEF ClientFollows
  <2>1. /\ h.sv.state # "connected"
        /\ m.strings["systeminfo"] >= h.sv.restartedServerId
        /\ OfThisMap(m.commands, h)
        /\ Reaches(m.strings, m.commands, h)
    BY <1>1, <1>6 DEF GameStateIsSound
  <2>2. ASSUME ~y.stale
        PROVE  OfThisMap(c.executed, h)
    <3> SUFFICES ASSUME NEW k \in SystemInfos(h.log, c.executed)
                 PROVE  h.log[k].value >= h.sv.restartedServerId
      BY DEF OfThisMap
    <3>1. /\ k \in Nat /\ c.executed < k /\ k <= Len(h.log)
          /\ h.log[k].kind = "cs" /\ h.log[k].index = "systeminfo"
      BY <1>2, <1>3, SystemInfoParts
    <3>2. CASE k <= m.commands
      <4>1. k \in c.executed + 1 .. m.commands
        BY <1>3, <3>1, <3>2
      <4>2. k \in Changes(h.log, "systeminfo", c.executed + 1, m.commands)
        BY <3>1, <4>1 DEF Changes
      <4> QED
        BY <2>2, <4>2 DEF Index, NothingOvertaken
    <3>3. CASE ~(k <= m.commands)
      <4>1. k \in m.commands + 1 .. Len(h.log)
        BY <1>2, <1>3, <3>1, <3>3
      <4>2. k \in SystemInfos(h.log, m.commands)
        BY <3>1, <4>1 DEF SystemInfos, Changes
      <4> QED
        BY <2>1, <4>2 DEF OfThisMap
    <3> QED
      BY <3>2, <3>3
  <2>3. ASSUME ~y.stale
        PROVE  Reaches(m.strings, c.executed, h)
    <3> SUFFICES ASSUME NEW i \in Index, i \notin h.sv.csUpdated
                 PROVE  ReachesAt(m.strings, i, c.executed, h)
      BY DEF Reaches
    <3>1. ReachesAt(m.strings, i, m.commands, h)
      BY <2>1 DEF Reaches
    <3>2. Changes(h.log, i, c.executed + 1, m.commands) = {}
      BY <2>3 DEF NothingOvertaken
    <3>3. ValueAfter(m.strings[i], h.log, i, c.executed + 1, Len(h.log))
             = ValueAfter(m.strings[i], h.log, i, m.commands + 1, Len(h.log))
      <4>1. PICK l, n, b : l = h.log /\ n = c.executed /\ b = m.commands
        OBVIOUS
      <4>2. /\ l \in Seq(Command) /\ n \in Nat /\ b \in Nat /\ n <= b /\ b <= Len(l)
            /\ Changes(l, i, n + 1, b) = {}
        BY <1>1, <1>2, <1>3, <3>2, <4>1
      <4>3. PICK old : old = m.strings[i]
        OBVIOUS
      <4>4. ValueAfter(old, l, i, n + 1, Len(l)) = ValueAfter(old, l, i, b + 1, Len(l))
        BY <4>2, ValueAfterSkip
      <4> QED
        BY <4>1, <4>3, <4>4
    <3> QED
      BY <3>1, <3>3 DEF ReachesAt
  <2> QED
    BY <1>6, <2>1, <2>2, <2>3
<1>8. ClientIsBehind(d, h, y)
  <2> SUFFICES ASSUME ~y.forced, d.map # h.sv.restartedServerId
               PROVE  /\ h.sv.state # "active"
                      /\ d.serverId < h.sv.restartedServerId
                      /\ \A k \in SystemInfos(h.log, 0) :
                            h.log[k].value < h.sv.restartedServerId
    BY DEF ClientIsBehind
  <2>1. d.serverId < h.sv.restartedServerId
    BY <1>1, <1>6 DEF GameStateIsSound
  <2>2. c.map # h.sv.restartedServerId
    BY <1>2, <1>3, <1>4, <1>6
  <2>3. ClientIsBehind(c, h, x)
    BY DEF ClientIsSound
  <2> QED
    BY <2>1, <2>2, <2>3 DEF ClientIsBehind, Softens
<1>9. /\ Len(d.snapshots) <= SnapshotBackup
      /\ \A i \in 1 .. Len(d.snapshots) : FALSE
  BY <1>6, GameStateAssumption
<1>10. ClientIsSound(d, h, y)
  <2>1. c.executed <= Len(h.log)
    BY DEF ClientIsSound
  <2> QED
    BY <1>4, <1>6, <1>7, <1>8, <1>9, <2>1 DEF ClientIsSound
<1> QED
  BY <1>d, <1>4, <1>6, <1>10

(* A message that arrives is sound, and those behind it come after it.      *)
LEMMA ArrivedMessage ==
    ASSUME IInv, NEW i \in 1 .. Len(toClient), NEW m, m = toClient[i],
           NEW f, f = AfterArrival(toClient, i)
    PROVE  /\ m \in ServerMessage /\ MessageIsSound(m, cl, Here)
           /\ f \in Seq(ServerMessage) /\ Sorted(f, SentOrder)
           /\ \A n \in Elements(f) :
                 /\ n \in ServerMessage /\ MessageIsSound(n, cl, Here)
                 /\ <<m, n>> \in SentOrder
<1>1. toClient \in Seq(ServerMessage) /\ Sorted(toClient, SentOrder)
  BY InvariantParts
<1>2. /\ f \in Seq(ServerMessage) /\ m \in Elements(toClient) /\ m \in ServerMessage
      /\ Elements(f) \subseteq Elements(toClient) /\ Sorted(f, SentOrder)
      /\ Before({m}, Elements(f), SentOrder)
  BY <1>1, ArrivalKeepsOrder
<1>3. \A n \in Elements(toClient) : MessageIsSound(n, cl, Here)
  BY DEF IInv
<1>4. \A n \in Elements(f) : <<m, n>> \in SentOrder
  BY <1>2 DEF Before
<1> QED
  BY <1>2, <1>3, <1>4 DEF MessageIsSound

LEMMA ClReceiveGameStateStep ==
    ASSUME IInv, NEW i \in 1 .. Len(toClient), ClReceiveGameState(i)
    PROVE  IInv'
<1>1. PICK h, c, x, y : h = Here /\ c = cl /\ x = history /\ y = history'
  OBVIOUS
<1>2. PICK m, d, f : /\ m = toClient[i] /\ d = Started(c, m)
                     /\ f = AfterArrival(toClient, i)
  OBVIOUS
<1>3. /\ m.kind = "gamestate" /\ toClient' = f /\ cl' = d
      /\ history' = [history EXCEPT !.stale = @ \/ OvertakesConfigstring(m)]
      /\ sv' = sv /\ toServer' = toServer /\ log' = log /\ counts' = counts
  BY <1>1, <1>2 DEF ClReceiveGameState, Started
<1>4. /\ ServerIsSound(h) /\ h.log = log /\ ClientIsSound(c, h, x) /\ c \in ClientHalf
      /\ HistoryIsSound /\ toServer \in Seq(ClientMessage)
  BY <1>1, InvariantParts
<1>5. /\ MessageIsSound(m, c, h) /\ m \in ServerMessage
      /\ f \in Seq(ServerMessage) /\ Sorted(f, SentOrder)
      /\ \A n \in Elements(f) :
            n \in ServerMessage /\ MessageIsSound(n, c, h) /\ <<m, n>> \in SentOrder
  BY <1>1, <1>2, ArrivedMessage
<1>6. /\ HistoryIsSound' /\ Softens(x, y)
      /\ OvertakesConfigstring(m) => y.stale
  <2>1. OvertakesConfigstring(m) \in BOOLEAN
    BY DEF OvertakesConfigstring
  <2>2. /\ y \in [stale : BOOLEAN, forced : BOOLEAN, raced : BOOLEAN,
                  needless : BOOLEAN]
        /\ y.stale = (x.stale \/ OvertakesConfigstring(m))
        /\ y.forced = x.forced /\ y.needless = x.needless
    BY <1>1, <1>3, <1>4, <2>1 DEF HistoryIsSound
  <2>3. ~y.stale => ~y.needless
    BY <1>1, <1>4, <2>2 DEF HistoryIsSound
  <2> QED
    BY <1>1, <2>2, <2>3 DEF HistoryIsSound, Softens
<1>7. y.stale \/ NothingOvertaken(c, m, h)
  <2>1. ~OvertakesConfigstring(m)
           => \A k \in c.executed + 1 .. m.commands : h.log[k].kind # "cs"
    BY <1>1, <1>4 DEF OvertakesConfigstring
  <2> QED
    BY <1>6, <2>1 DEF Changes, NothingOvertaken
<1>8. /\ ClientIsSound(d, h, y) /\ ~d.later /\ d.map = m.map /\ c.map <= d.map
      /\ d.executed = c.executed /\ Len(d.snapshots) = 0
  BY <1>2, <1>3, <1>4, <1>5, <1>6, <1>7, StartedIsSound
<1>9. c.map \in Nat /\ d.map \in Nat /\ d \in ClientHalf
  BY <1>4, <1>8, ClientParts DEF ClientIsSound
<1>10. ASSUME NEW p \in Elements(toServer)
       PROVE  PacketIsSound(p, d, h, y)
  <2>1. PacketIsSound(p, c, h, x)
    BY <1>1 DEF IInv
  <2>2. p \in ClientMessage /\ p.map \in Nat /\ p.map <= c.map
    BY <2>1, PacketParts DEF PacketIsSound
  <2>3. p.map <= d.map
    BY <1>8, <1>9, <2>2
  <2>4. ~p.later
    <3>1. ~m.later
      BY <1>3, <1>5 DEF MessageIsSound, GameStateIsSound
    <3>2. ~c.later
      BY <1>5, <3>1 DEF MessageIsSound
    <3> QED
      BY <2>1, <3>2 DEF PacketIsSound
  <2> QED
    BY <1>6, <2>1, <2>3, <2>4 DEF PacketIsSound, Softens
<1>11. ASSUME NEW n \in Elements(f)
       PROVE  MessageIsSound(n, d, h)
  <2>1. /\ n \in ServerMessage /\ MessageIsSound(n, c, h) /\ <<m, n>> \in SentOrder
    BY <1>5
  <2>2. n.kind = "gamestate" => d.map <= n.map
    BY <1>3, <1>8, <2>1 DEF SentOrder
  <2>3. n.kind = "gamestate" => GameStateIsSound(n, d, h)
    BY <2>1, <2>2 DEF MessageIsSound, GameStateIsSound
  <2>4. \A j \in 1 .. Len(d.snapshots) : FALSE
    BY <1>8
  <2> QED
    BY <1>8, <2>1, <2>3, <2>4 DEF MessageIsSound
<1>12. /\ ClientIsSound(cl', Here, history')
       /\ toServer' \in Seq(ClientMessage)
       /\ \A p \in Elements(toServer') : PacketIsSound(p, cl', Here, history')
       /\ toClient' \in Seq(ServerMessage) /\ Sorted(toClient', SentOrder)
       /\ \A n \in Elements(toClient') : MessageIsSound(n, cl', Here)
  BY <1>1, <1>3, <1>4, <1>5, <1>8, <1>10, <1>11
<1> QED
  BY <1>3, <1>6, <1>12, ClientStep

-----------------------------------------------------------------------------
(* Snapshots: received, and shown. *)

(* Snapshots of commands in order, between those executed and those of log. *)
SnapshotsInOrder(snapshots, executed, last) ==
    /\ snapshots \in Seq(SnapshotRead)
    /\ Len(snapshots) <= SnapshotBackup
    /\ \A i \in 1 .. Len(snapshots) :
          executed <= snapshots[i].commandNum /\ snapshots[i].commandNum <= last
    /\ \A i, j \in 1 .. Len(snapshots) :
          i < j => snapshots[i].commandNum <= snapshots[j].commandNum

LEMMA ReadsInOrder ==
    ASSUME NEW s, NEW a \in Nat, NEW b \in Nat, SnapshotsInOrder(s, a, b),
           NEW r \in SnapshotRead, a <= r.commandNum, b = r.commandNum
    PROVE  SnapshotsInOrder(Append(IF Len(s) < SnapshotBackup THEN s ELSE Tail(s), r), a, b)
<1>1. /\ s \in Seq(SnapshotRead) /\ Len(s) \in Nat /\ SnapshotBackup \in Nat
      /\ SnapshotBackup >= 1 /\ Len(s) <= SnapshotBackup
  BY LenProperties, GameStateAssumption DEF SnapshotsInOrder
<1>2. PICK t : t = IF Len(s) < SnapshotBackup THEN s ELSE Tail(s)
  OBVIOUS
<1>3. /\ t \in Seq(SnapshotRead) /\ Len(t) \in Nat /\ Len(t) + 1 <= SnapshotBackup
      /\ \A i \in 1 .. Len(t) : a <= t[i].commandNum /\ t[i].commandNum <= b
      /\ \A i, j \in 1 .. Len(t) : i < j => t[i].commandNum <= t[j].commandNum
  <2>1. CASE Len(s) < SnapshotBackup
    BY <1>1, <1>2, <2>1 DEF SnapshotsInOrder
  <2>2. CASE ~(Len(s) < SnapshotBackup)
    <3>1. s # <<>>
      BY <1>1, <2>2, EmptySeq
    <3>2. /\ Tail(s) \in Seq(SnapshotRead) /\ Len(Tail(s)) = Len(s) - 1
          /\ \A i \in 1 .. Len(s) - 1 : Tail(s)[i] = s[i + 1]
      BY <1>1, <3>1, HeadTailProperties
    <3>3. /\ t \in Seq(SnapshotRead) /\ Len(t) = Len(s) - 1
          /\ \A i \in 1 .. Len(s) - 1 : t[i] = s[i + 1]
      BY <1>2, <2>2, <3>2
    <3>4. \A i \in 1 .. Len(s) - 1 : i + 1 \in 1 .. Len(s)
      BY <1>1
    <3>5. \A i, j \in 1 .. Len(s) - 1 : i < j => i + 1 < j + 1
      BY <1>1
    <3>6. Len(t) \in Nat /\ Len(t) + 1 <= SnapshotBackup
      BY <1>1, <3>3, LenProperties
    <3> QED
      BY <3>3, <3>4, <3>5, <3>6 DEF SnapshotsInOrder
  <2> QED
    BY <2>1, <2>2
<1>4. PICK u : u = Append(t, r)
  OBVIOUS
<1>5. /\ u \in Seq(SnapshotRead) /\ Len(u) = Len(t) + 1 /\ u[Len(t) + 1] = r
      /\ \A i \in 1 .. Len(t) : u[i] = t[i]
  BY <1>3, <1>4, AppendProperties
<1>6. \A i \in 1 .. Len(u) : i \in 1 .. Len(t) \/ i = Len(t) + 1
  BY <1>3, <1>5
<1>7. \A i \in 1 .. Len(u) : a <= u[i].commandNum /\ u[i].commandNum <= b
  BY <1>3, <1>5, <1>6
<1>8. \A i, j \in 1 .. Len(u) : i < j => u[i].commandNum <= u[j].commandNum
  <2> SUFFICES ASSUME NEW i \in 1 .. Len(u), NEW j \in 1 .. Len(u), i < j
               PROVE  u[i].commandNum <= u[j].commandNum
    OBVIOUS
  <2>1. i \in 1 .. Len(t)
    BY <1>3, <1>5
  <2>2. CASE j \in 1 .. Len(t)
    BY <1>3, <1>5, <2>1, <2>2
  <2>3. CASE j = Len(t) + 1
    BY <1>3, <1>5, <2>1, <2>3
  <2> QED
    BY <1>6, <2>2, <2>3
<1>9. SnapshotsInOrder(u, a, b)
  BY <1>3, <1>5, <1>7, <1>8 DEF SnapshotsInOrder
<1> QED
  BY <1>2, <1>4, <1>9

(* What a client has that has a gamestate and shows nothing new.            *)
LEMMA ReadsAreSound ==
    ASSUME NEW h, ServerIsSound(h), NEW x, NEW c, ClientIsSound(c, h, x),
           NEW d \in ClientHalf, d.map = c.map, d.serverId = c.serverId,
           d.gameState = c.gameState, d.executed = c.executed,
           NEW b \in Nat, b <= Len(h.log),
           SnapshotsInOrder(d.snapshots, c.executed, b)
    PROVE  ClientIsSound(d, h, x)
<1>1. ClientFollows(d, h, x) /\ ClientIsBehind(d, h, x)
  BY DEF ClientIsSound, ClientFollows, ClientIsBehind
<1>2. \A i \in 1 .. Len(d.snapshots) :
         /\ d.executed <= d.snapshots[i].commandNum
         /\ d.snapshots[i].commandNum <= Len(h.log)
  <2> SUFFICES ASSUME NEW i \in 1 .. Len(d.snapshots)
               PROVE  /\ d.executed <= d.snapshots[i].commandNum
                      /\ d.snapshots[i].commandNum <= Len(h.log)
    OBVIOUS
  <2>1. /\ d.executed <= d.snapshots[i].commandNum
        /\ d.snapshots[i].commandNum <= b
    BY DEF SnapshotsInOrder
  <2>2. d.snapshots[i].commandNum \in Nat /\ Len(h.log) \in Nat
    BY ClientParts, ServerParts
  <2> QED
    BY <2>1, <2>2
<1> QED
  BY <1>1, <1>2 DEF ClientIsSound, SnapshotsInOrder

LEMMA ClReceiveSnapshotStep ==
    ASSUME IInv, NEW i \in 1 .. Len(toClient), ClReceiveSnapshot(i)
    PROVE  IInv'
<1>1. PICK h, c, x : h = Here /\ c = cl /\ x = history
  OBVIOUS
<1>2. PICK m, f, r : /\ m = toClient[i] /\ f = AfterArrival(toClient, i)
                     /\ r = [commandNum |-> m.commands, active |-> m.active]
  OBVIOUS
<1>3. PICK u : u = Append(IF Len(c.snapshots) < SnapshotBackup THEN c.snapshots
                          ELSE Tail(c.snapshots), r)
  OBVIOUS
<1>4. PICK e : e = <<>>
  OBVIOUS
<1>5. PICK s : s = IF c.map = 0 THEN e ELSE u
  OBVIOUS
<1>6. PICK d : d = [c EXCEPT !.later = m.later, !.snapshots = s]
  OBVIOUS
<1>7. /\ m.kind = "snapshot" /\ toClient' = f /\ cl' = d /\ history' = history
      /\ sv' = sv /\ toServer' = toServer /\ log' = log /\ counts' = counts
  BY <1>1, <1>2, <1>3, <1>4, <1>5, <1>6 DEF ClReceiveSnapshot, Kept
<1>8. /\ ServerIsSound(h) /\ h.log = log /\ ClientIsSound(c, h, x) /\ c \in ClientHalf
      /\ HistoryIsSound /\ toServer \in Seq(ClientMessage) /\ Len(h.log) \in Nat
  BY <1>1, InvariantParts, ServerParts
<1>9. /\ MessageIsSound(m, c, h) /\ m \in ServerMessage
      /\ f \in Seq(ServerMessage) /\ Sorted(f, SentOrder)
      /\ \A n \in Elements(f) :
            n \in ServerMessage /\ MessageIsSound(n, c, h) /\ <<m, n>> \in SentOrder
  BY <1>1, <1>2, ArrivedMessage
<1>10. /\ m.commands \in Nat /\ m.active \in BOOLEAN /\ m.later \in BOOLEAN
       /\ m.commands <= Len(h.log) /\ c.executed <= m.commands /\ c.executed \in Nat
       /\ c.snapshots \in Seq(SnapshotRead)
  BY <1>8, <1>9, MessageParts, ClientParts DEF MessageIsSound
<1>11. r \in SnapshotRead /\ r.commandNum = m.commands
  BY <1>2, <1>10 DEF SnapshotRead
<1>12. SnapshotsInOrder(s, c.executed, m.commands)
  <2>1. SnapshotsInOrder(c.snapshots, c.executed, m.commands)
    <3>1. /\ Len(c.snapshots) <= SnapshotBackup
          /\ \A j \in 1 .. Len(c.snapshots) : c.executed <= c.snapshots[j].commandNum
          /\ \A j, k \in 1 .. Len(c.snapshots) :
                j < k => c.snapshots[j].commandNum <= c.snapshots[k].commandNum
      BY <1>8 DEF ClientIsSound
    <3>2. \A j \in 1 .. Len(c.snapshots) : c.snapshots[j].commandNum <= m.commands
      BY <1>9 DEF MessageIsSound
    <3> QED
      BY <1>10, <3>1, <3>2 DEF SnapshotsInOrder
  <2>2. PICK t : t = c.snapshots
    OBVIOUS
  <2>3. SnapshotsInOrder(u, c.executed, m.commands)
    <3>1. SnapshotsInOrder(t, c.executed, m.commands)
      BY <2>1, <2>2
    <3>2. PICK a, b : a = c.executed /\ b = m.commands
      OBVIOUS
    <3>3. SnapshotsInOrder(Append(IF Len(t) < SnapshotBackup THEN t ELSE Tail(t), r), a, b)
      <4>1. /\ SnapshotsInOrder(t, a, b) /\ a \in Nat /\ b \in Nat
            /\ a <= r.commandNum /\ b = r.commandNum
        BY <1>10, <1>11, <3>1, <3>2
      <4> QED
        BY <1>11, <4>1, ReadsInOrder
    <3> QED
      BY <1>3, <2>2, <3>2, <3>3
  <2>4. SnapshotsInOrder(e, c.executed, m.commands)
    <3>1. e \in Seq(SnapshotRead) /\ Len(e) = 0
      BY <1>4, EmptySeq
    <3>2. Len(e) <= SnapshotBackup /\ \A j \in 1 .. Len(e) : FALSE
      BY <3>1, GameStateAssumption
    <3> QED
      BY <3>1, <3>2 DEF SnapshotsInOrder
  <2> QED
    BY <1>5, <2>3, <2>4
<1>13. /\ d \in ClientHalf /\ d.map = c.map /\ d.serverId = c.serverId
       /\ d.gameState = c.gameState /\ d.executed = c.executed
       /\ d.later = m.later /\ d.snapshots = s
  <2>1. s \in Seq(SnapshotRead)
    BY <1>12 DEF SnapshotsInOrder
  <2> QED
    BY <1>6, <1>8, <1>10, <2>1 DEF ClientHalf
<1>14. ClientIsSound(d, h, x)
  <2>1. PICK b : b = m.commands
    OBVIOUS
  <2>2. /\ b \in Nat /\ b <= Len(h.log) /\ SnapshotsInOrder(d.snapshots, c.executed, b)
    BY <1>10, <1>12, <1>13, <2>1
  <2> QED
    BY <1>8, <1>13, <2>2, ReadsAreSound
<1>15. ASSUME NEW p \in Elements(toServer)
       PROVE  PacketIsSound(p, d, h, x)
  <2>1. PacketIsSound(p, c, h, x)
    BY <1>1 DEF IInv
  <2>2. c.later => m.later
    BY <1>9 DEF MessageIsSound
  <2> QED
    BY <1>13, <2>1, <2>2 DEF PacketIsSound
<1>16. ASSUME NEW n \in Elements(f)
       PROVE  MessageIsSound(n, d, h)
  <2>1. n \in ServerMessage /\ MessageIsSound(n, c, h) /\ <<m, n>> \in SentOrder
    BY <1>9
  <2>2. m.commands <= n.commands /\ (m.later => n.later)
    BY <2>1 DEF SentOrder
  <2>3. \A j \in 1 .. Len(d.snapshots) : d.snapshots[j].commandNum <= n.commands
    <3> SUFFICES ASSUME NEW j \in 1 .. Len(d.snapshots)
                 PROVE  d.snapshots[j].commandNum <= n.commands
      OBVIOUS
    <3>1. d.snapshots[j].commandNum \in Nat /\ n.commands \in Nat
      BY <1>13, <2>1, ClientParts, MessageParts
    <3>2. d.snapshots[j].commandNum <= m.commands
      BY <1>12, <1>13 DEF SnapshotsInOrder
    <3> QED
      BY <1>10, <2>2, <3>1, <3>2
  <2>4. n.kind = "gamestate" => GameStateIsSound(n, d, h)
    BY <1>13, <2>1 DEF MessageIsSound, GameStateIsSound
  <2> QED
    BY <1>13, <2>1, <2>2, <2>3, <2>4 DEF MessageIsSound
<1>17. /\ ClientIsSound(cl', Here, history') /\ HistoryIsSound'
       /\ toServer' \in Seq(ClientMessage)
       /\ \A p \in Elements(toServer') : PacketIsSound(p, cl', Here, history')
       /\ toClient' \in Seq(ServerMessage) /\ Sorted(toClient', SentOrder)
       /\ \A n \in Elements(toClient') : MessageIsSound(n, cl', Here)
  BY <1>1, <1>7, <1>8, <1>9, <1>14, <1>15, <1>16, HistoryStays
<1> QED
  BY <1>7, <1>17, ClientStep

LEMMA TailInOrder ==
    ASSUME NEW s, NEW a \in Nat, NEW b \in Nat, SnapshotsInOrder(s, a, b), s # <<>>
    PROVE  /\ s[1] \in SnapshotRead /\ a <= s[1].commandNum /\ s[1].commandNum <= b
           /\ s[1].commandNum \in Nat
           /\ SnapshotsInOrder(Tail(s), s[1].commandNum, b)
           /\ SnapshotsInOrder(Tail(s), a, b)
<1>1. s \in Seq(SnapshotRead) /\ Len(s) <= SnapshotBackup /\ SnapshotBackup \in Nat
  BY GameStateAssumption DEF SnapshotsInOrder
<1>2. Len(s) \in Nat /\ Len(s) >= 1 /\ 1 \in 1 .. Len(s)
  BY <1>1, EmptySeq
<1>3. PICK t : t = Tail(s)
  OBVIOUS
<1>4. /\ t \in Seq(SnapshotRead) /\ Len(t) = Len(s) - 1
      /\ \A i \in 1 .. Len(s) - 1 : t[i] = s[i + 1]
  BY <1>1, <1>3, HeadTailProperties
<1>5. \A i \in 1 .. Len(s) - 1 : i + 1 \in 1 .. Len(s) /\ 1 < i + 1
  BY <1>2
<1>6. \A i, j \in 1 .. Len(s) - 1 : i < j => i + 1 < j + 1
  BY <1>2
<1>7. s[1] \in SnapshotRead
  BY <1>1, <1>2, ElementOfSeq
<1>8. s[1].commandNum \in Nat /\ a <= s[1].commandNum /\ s[1].commandNum <= b
  BY <1>2, <1>7 DEF SnapshotsInOrder, SnapshotRead
<1>9. Len(t) <= SnapshotBackup
  BY <1>1, <1>2, <1>4
<1>10. SnapshotsInOrder(t, s[1].commandNum, b) /\ SnapshotsInOrder(t, a, b)
  BY <1>2, <1>4, <1>5, <1>6, <1>9 DEF SnapshotsInOrder
<1> QED
  BY <1>3, <1>7, <1>8, <1>10

(* The values of serverIds among commands n + 1 .. b, of bound T.           *)
LEMMA ServerIdAfterIn ==
    ASSUME NEW l \in Seq(Command), NEW n \in Nat, NEW b \in Nat, b <= Len(l),
           NEW T, NEW old \in T, \A k \in SystemInfos(l, n) : l[k].value \in T
    PROVE  ValueAfter(old, l, "systeminfo", n + 1, b) \in T
<1>1. Len(l) \in Nat
  BY LenProperties
<1>2. \A k \in Changes(l, "systeminfo", n + 1, b) : l[k].value \in T
  <2> SUFFICES ASSUME NEW k \in Changes(l, "systeminfo", n + 1, b)
               PROVE  k \in SystemInfos(l, n)
    OBVIOUS
  <2>1. k \in n + 1 .. b /\ l[k].kind = "cs" /\ l[k].index = "systeminfo"
    BY DEF Changes
  <2>2. k \in n + 1 .. Len(l)
    BY <1>1, <2>1
  <2> QED
    BY <2>1, <2>2 DEF SystemInfos, Changes
<1>3. PICK i : i = "systeminfo"
  OBVIOUS
<1>4. i \in Index
  BY <1>3 DEF Index
<1>5. ValueAfter(old, l, i, n + 1, b) \in T
  BY <1>2, <1>3, <1>4, ValueAfterIn
<1> QED
  BY <1>3, <1>5

(* What the cgame makes of the configstrings with commands up to b.         *)
StringsAfter(strings, l, n, b) ==
    [i \in Index |-> ValueAfter(strings[i], l, i, n + 1, b)]

LEMMA ShownIsSound ==
    ASSUME NEW h, ServerIsSound(h), NEW x, NEW c, ClientIsSound(c, h, x),
           NEW b \in Nat, c.executed <= b, b <= Len(h.log),
           NEW d,
           d.map = c.map, d.executed = b,
           d.serverId = ValueAfter(c.serverId, h.log, "systeminfo", c.executed + 1, b),
           d.gameState = StringsAfter(c.gameState, h.log, c.executed, b),
           d.serverId \in ServerId /\ d.gameState \in Strings => d \in ClientHalf,
           SnapshotsInOrder(d.snapshots, b, Len(h.log))
    PROVE  ClientIsSound(d, h, x)
<1>1. PICK l, n : l = h.log /\ n = c.executed
  OBVIOUS
<1>2. c \in ClientHalf /\ c.serverId <= h.sv.serverId
  BY DEF ClientIsSound
<1>3. /\ l \in Seq(Command) /\ Len(l) \in Nat /\ n \in Nat /\ n <= b /\ b <= Len(l)
      /\ c.serverId \in Nat /\ c.gameState \in Strings
      /\ h.sv.serverId \in ServerId /\ h.sv.serverId \in Nat
      /\ h.sv.restartedServerId \in Nat
      /\ \A k \in SystemInfos(l, 0) : l[k].value \in Nat
  BY <1>1, <1>2, ServerParts, ClientParts
<1>4. PICK old, new : old = c.serverId /\ new = d.serverId
  OBVIOUS
<1>5. new = ValueAfter(old, l, "systeminfo", n + 1, b)
  BY <1>1, <1>4
<1>6. SystemInfos(l, n) \subseteq SystemInfos(l, 0)
  <2>1. 0 \in Nat /\ 0 <= n
    BY <1>3
  <2> QED
    BY <1>3, <2>1, SystemInfosFrom
<1>7. new \in Nat /\ new <= h.sv.serverId /\ new \in ServerId
  <2>1. PICK T : T = {v \in Nat : v <= h.sv.serverId}
    OBVIOUS
  <2>2. old \in T
    BY <1>2, <1>3, <1>4, <2>1
  <2>3. \A k \in SystemInfos(l, n) : l[k].value \in T
    BY <1>1, <1>3, <1>6, <2>1 DEF ServerIsSound
  <2>4. new \in T
    BY <1>3, <1>5, <2>2, <2>3, ServerIdAfterIn
  <2> QED
    BY <1>3, <2>1, <2>4, ServerIdType
<1>8. d.gameState \in Strings
  <2> SUFFICES ASSUME NEW i \in Index
               PROVE  ValueAfter(c.gameState[i], l, i, n + 1, b) \in Value
    BY <1>1 DEF StringsAfter, Strings
  <2>1. PICK o, T : o = c.gameState[i] /\ T = Value
    OBVIOUS
  <2>2. o \in T
    BY <1>3, <2>1 DEF Strings
  <2>3. n + 1 \in Nat /\ n + 1 >= 1
    BY <1>3
  <2>4. \A k \in Changes(l, i, n + 1, b) : l[k].value \in T
    BY <1>3, <2>1, <2>3, ChangesType
  <2>5. ValueAfter(o, l, i, n + 1, b) \in T
    BY <1>3, <2>2, <2>4, ValueAfterIn
  <2> QED
    BY <2>1, <2>5
<1>9. d \in ClientHalf
  BY <1>4, <1>7, <1>8
<1>10. ClientFollows(d, h, x)
  <2> SUFFICES ASSUME d.map = h.sv.restartedServerId
               PROVE  /\ h.sv.state # "connected"
                      /\ ~x.stale => /\ d.serverId >= h.sv.restartedServerId
                                     /\ OfThisMap(d.executed, h)
                                     /\ Reaches(d.gameState, d.executed, h)
    BY DEF ClientFollows
  <2>1. /\ h.sv.state # "connected"
        /\ ~x.stale => /\ c.serverId >= h.sv.restartedServerId
                       /\ OfThisMap(c.executed, h)
                       /\ Reaches(c.gameState, c.executed, h)
    BY DEF ClientIsSound, ClientFollows
  <2>2. ASSUME ~x.stale
        PROVE  new >= h.sv.restartedServerId
    <3>1. PICK T : T = {v \in Nat : v >= h.sv.restartedServerId}
      OBVIOUS
    <3>2. old \in T
      BY <1>3, <1>4, <2>1, <2>2, <3>1
    <3>3. \A k \in SystemInfos(l, n) : l[k].value \in T
      BY <1>1, <1>3, <1>6, <2>1, <2>2, <3>1 DEF OfThisMap
    <3>4. new \in T
      BY <1>3, <1>5, <3>2, <3>3, ServerIdAfterIn
    <3> QED
      BY <3>1, <3>4
  <2>3. ASSUME ~x.stale
        PROVE  OfThisMap(b, h)
    <3>1. SystemInfos(l, b) \subseteq SystemInfos(l, n)
      BY <1>3, SystemInfosFrom
    <3> QED
      BY <1>1, <2>1, <2>3, <3>1 DEF OfThisMap
  <2>4. ASSUME ~x.stale, NEW i \in Index, i \notin h.sv.csUpdated
        PROVE  ReachesAt(d.gameState, i, b, h)
    <3>1. PICK o : o = c.gameState[i]
      OBVIOUS
    <3>2. d.gameState[i] = ValueAfter(o, l, i, n + 1, b)
      BY <1>1, <3>1 DEF StringsAfter
    <3>3. ValueAfter(o, l, i, n + 1, Len(l)) = h.sv.configstrings[i]
      BY <1>1, <2>1, <2>4, <3>1 DEF Reaches, ReachesAt
    <3>4. PICK e : e = Len(l)
      OBVIOUS
    <3>5. e \in Nat /\ b <= e
      BY <1>3, <3>4
    <3>6. ValueAfter(ValueAfter(o, l, i, n + 1, b), l, i, b + 1, e)
             = ValueAfter(o, l, i, n + 1, e)
      BY <1>3, <3>5, ValueAfterBoth
    <3> QED
      BY <1>1, <3>2, <3>3, <3>4, <3>6 DEF ReachesAt
  <2> QED
    BY <1>4, <2>1, <2>2, <2>3, <2>4 DEF Reaches
<1>11. ClientIsBehind(d, h, x)
  <2> SUFFICES ASSUME ~x.forced, d.map # h.sv.restartedServerId
               PROVE  /\ h.sv.state # "active"
                      /\ d.serverId < h.sv.restartedServerId
                      /\ \A k \in SystemInfos(h.log, 0) :
                            h.log[k].value < h.sv.restartedServerId
    BY DEF ClientIsBehind
  <2>1. /\ h.sv.state # "active" /\ c.serverId < h.sv.restartedServerId
        /\ \A k \in SystemInfos(h.log, 0) : h.log[k].value < h.sv.restartedServerId
    BY DEF ClientIsSound, ClientIsBehind
  <2>2. PICK T : T = {v \in Nat : v < h.sv.restartedServerId}
    OBVIOUS
  <2>3. old \in T
    BY <1>3, <1>4, <2>1, <2>2
  <2>4. \A k \in SystemInfos(l, n) : l[k].value \in T
    BY <1>1, <1>3, <1>6, <2>1, <2>2
  <2>5. new \in T
    BY <1>3, <1>5, <2>3, <2>4, ServerIdAfterIn
  <2> QED
    BY <1>4, <2>1, <2>2, <2>5
<1>12. c.map <= h.sv.restartedServerId
  BY DEF ClientIsSound
<1> QED
  BY <1>4, <1>7, <1>9, <1>10, <1>11, <1>12 DEF ClientIsSound, SnapshotsInOrder

LEMMA CgShowSnapshotStep ==
    ASSUME IInv, CgShowSnapshot
    PROVE  IInv'
<1>1. PICK h, c, x : h = Here /\ c = cl /\ x = history
  OBVIOUS
<1>2. PICK s, r, t : s = c.snapshots /\ r = s[1] /\ t = Tail(s)
  OBVIOUS
<1>3. PICK strings, id : /\ strings = StringsAfter(c.gameState, log, c.executed, r.commandNum)
                         /\ id = ValueAfter(c.serverId, log, "systeminfo",
                                            c.executed + 1, r.commandNum)
  OBVIOUS
<1>4. PICK shown : shown = [c EXCEPT !.gameState = strings, !.serverId = id,
                                     !.executed = r.commandNum, !.inGame = TRUE]
  OBVIOUS
<1>5. PICK d : d = [(IF c.inGame \/ r.active THEN shown ELSE c) EXCEPT !.snapshots = t]
  OBVIOUS
<1>6. /\ ServerIsSound(h) /\ h.log = log /\ ClientIsSound(c, h, x) /\ c \in ClientHalf
      /\ HistoryIsSound /\ toServer \in Seq(ClientMessage) /\ Len(h.log) \in Nat
      /\ toClient \in Seq(ServerMessage) /\ Sorted(toClient, SentOrder)
  BY <1>1, InvariantParts, ServerParts
<1>7. /\ s # <<>> /\ cl' = d /\ sv' = sv /\ toServer' = toServer
      /\ toClient' = toClient /\ log' = log /\ counts' = counts /\ history' = history
  <2>1. /\ s # <<>> /\ sv' = sv /\ toServer' = toServer
        /\ toClient' = toClient /\ log' = log /\ counts' = counts /\ history' = history
    BY <1>1, <1>2 DEF CgShowSnapshot
  <2>2. cl' = d
    <3>1. CASE c.inGame \/ r.active
      <4>1. d = [shown EXCEPT !.snapshots = t]
        BY <1>5, <3>1
      <4>2. shown.snapshots = s
        BY <1>2, <1>4, <1>6 DEF ClientHalf
      <4>3. cl' = [shown EXCEPT !.snapshots = Tail(@)]
        BY <1>1, <1>2, <1>3, <1>4, <3>1 DEF CgShowSnapshot, StringsAfter
      <4> QED
        BY <1>2, <4>1, <4>2, <4>3
    <3>2. CASE ~(c.inGame \/ r.active)
      BY <1>1, <1>2, <1>5, <3>2 DEF CgShowSnapshot
    <3> QED
      BY <3>1, <3>2
  <2> QED
    BY <2>1, <2>2
<1>8. c.executed \in Nat /\ c.executed <= Len(h.log)
  BY <1>6, ClientParts DEF ClientIsSound
<1>9. SnapshotsInOrder(s, c.executed, Len(h.log))
  BY <1>2, <1>6, ClientParts DEF ClientIsSound, SnapshotsInOrder
<1>10. /\ r \in SnapshotRead /\ c.executed <= r.commandNum /\ r.commandNum <= Len(h.log)
       /\ r.commandNum \in Nat
       /\ SnapshotsInOrder(t, r.commandNum, Len(h.log))
       /\ SnapshotsInOrder(t, c.executed, Len(h.log))
  <2>1. PICK a, b : a = c.executed /\ b = Len(h.log)
    OBVIOUS
  <2>2. SnapshotsInOrder(s, a, b) /\ a \in Nat /\ b \in Nat
    BY <1>6, <1>8, <1>9, <2>1
  <2>3. /\ s[1] \in SnapshotRead /\ a <= s[1].commandNum /\ s[1].commandNum <= b
        /\ s[1].commandNum \in Nat
        /\ SnapshotsInOrder(Tail(s), s[1].commandNum, b)
        /\ SnapshotsInOrder(Tail(s), a, b)
    BY <1>7, <2>2, TailInOrder
  <2> QED
    BY <1>2, <2>1, <2>3
<1>11. t \in Seq(SnapshotRead)
  BY <1>10 DEF SnapshotsInOrder
<1>12. /\ ClientIsSound(d, h, x) /\ d.map = c.map /\ d.later = c.later
       /\ d.snapshots = t /\ d.executed \in {c.executed, r.commandNum}
  <2>1. CASE c.inGame \/ r.active
    <3>1. d = [c EXCEPT !.gameState = strings, !.serverId = id,
                        !.executed = r.commandNum, !.inGame = TRUE, !.snapshots = t]
      BY <1>4, <1>5, <1>6, <2>1 DEF ClientHalf
    <3>2. /\ d.map = c.map /\ d.later = c.later /\ d.snapshots = t
          /\ d.executed = r.commandNum /\ d.serverId = id /\ d.gameState = strings
          /\ d.serverId \in ServerId /\ d.gameState \in Strings => d \in ClientHalf
      BY <1>6, <1>10, <1>11, <3>1 DEF ClientHalf
    <3>3. ClientIsSound(d, h, x)
      <4>1. PICK b : b = r.commandNum
        OBVIOUS
      <4>2. /\ b \in Nat /\ c.executed <= b /\ b <= Len(h.log)
            /\ d.map = c.map /\ d.executed = b
            /\ d.serverId = ValueAfter(c.serverId, h.log, "systeminfo", c.executed + 1, b)
            /\ d.gameState = StringsAfter(c.gameState, h.log, c.executed, b)
            /\ d.serverId \in ServerId /\ d.gameState \in Strings => d \in ClientHalf
            /\ SnapshotsInOrder(d.snapshots, b, Len(h.log))
        BY <1>3, <1>6, <1>10, <3>2, <4>1
      <4> QED
        BY <1>6, <4>2, ShownIsSound
    <3> QED
      BY <3>2, <3>3
  <2>2. CASE ~(c.inGame \/ r.active)
    <3>1. d = [c EXCEPT !.snapshots = t]
      BY <1>5, <2>2
    <3>2. /\ d \in ClientHalf /\ d.map = c.map /\ d.later = c.later /\ d.snapshots = t
          /\ d.executed = c.executed /\ d.serverId = c.serverId
          /\ d.gameState = c.gameState
      BY <1>6, <1>11, <3>1 DEF ClientHalf
    <3>3. PICK b : b = Len(h.log)
      OBVIOUS
    <3>4. b \in Nat /\ b <= Len(h.log) /\ SnapshotsInOrder(d.snapshots, c.executed, b)
      BY <1>6, <1>10, <3>2, <3>3
    <3>5. ClientIsSound(d, h, x)
      BY <1>6, <3>2, <3>4, ReadsAreSound
    <3> QED
      BY <3>2, <3>5
  <2> QED
    BY <2>1, <2>2
<1>13. ASSUME NEW p \in Elements(toServer)
       PROVE  PacketIsSound(p, d, h, x)
  <2>1. PacketIsSound(p, c, h, x)
    BY <1>1 DEF IInv
  <2> QED
    BY <1>12, <2>1 DEF PacketIsSound
<1>14. ASSUME NEW n \in Elements(toClient)
       PROVE  MessageIsSound(n, d, h)
  <2>1. MessageIsSound(n, c, h)
    BY <1>1 DEF IInv
  <2>2. /\ c.executed <= n.commands
        /\ \A j \in 1 .. Len(s) : s[j].commandNum <= n.commands
    BY <1>2, <2>1 DEF MessageIsSound
  <2>3. s \in Seq(SnapshotRead) /\ Len(s) \in Nat
    BY <1>2, <1>6, ClientParts
  <2>4. Len(s) >= 1
    BY <1>7, <2>3, EmptySeq
  <2>5. r.commandNum <= n.commands
    BY <1>2, <2>2, <2>3, <2>4
  <2>6. \A j \in 1 .. Len(t) : t[j].commandNum <= n.commands
    <3>1. /\ Len(t) = Len(s) - 1 /\ \A j \in 1 .. Len(s) - 1 : t[j] = s[j + 1]
      BY <1>2, <1>7, <2>3, HeadTailProperties
    <3>2. \A j \in 1 .. Len(s) - 1 : j + 1 \in 1 .. Len(s)
      BY <2>3
    <3> QED
      BY <2>2, <3>1, <3>2
  <2>7. n.kind = "gamestate" => GameStateIsSound(n, d, h)
    BY <1>12, <2>1 DEF MessageIsSound, GameStateIsSound
  <2> QED
    BY <1>12, <2>1, <2>2, <2>5, <2>6, <2>7 DEF MessageIsSound
<1>15. /\ ClientIsSound(cl', Here, history') /\ HistoryIsSound'
       /\ toServer' \in Seq(ClientMessage)
       /\ \A p \in Elements(toServer') : PacketIsSound(p, cl', Here, history')
       /\ toClient' \in Seq(ServerMessage) /\ Sorted(toClient', SentOrder)
       /\ \A n \in Elements(toClient') : MessageIsSound(n, cl', Here)
  BY <1>1, <1>6, <1>7, <1>12, <1>13, <1>14, HistoryStays
<1> QED
  BY <1>7, <1>15, ClientStep

-----------------------------------------------------------------------------
(* The invariant holds at first, and every step keeps it.                   *)

LEMMA InitIsSound == Init => IInv
<1> SUFFICES ASSUME Init
             PROVE  IInv
  OBVIOUS
<1>1. PICK restarted \in BOOLEAN :
         sv = [serverId          |-> IF restarted THEN 2 ELSE 1,
               restartedServerId |-> 1,
               configstrings     |-> [systeminfo |-> 1, other |-> 1],
               modified          |-> restarted,
               state             |-> "connected",
               csUpdated         |-> {}]
  BY DEF Init
<1>2. /\ 0 \in ServerId /\ 1 \in ServerId /\ 2 \in ServerId
      /\ 0 \in Value /\ 1 \in Value /\ 0 \in Nat
  BY ServerIdType DEF ServerId, Value
<1>3. PICK e, o : e = <<>> /\ o = [systeminfo |-> 1, other |-> 1]
  OBVIOUS
<1>4. /\ e \in Seq(Command) /\ e \in Seq(ClientMessage) /\ e \in Seq(ServerMessage)
      /\ e \in Seq(SnapshotRead) /\ Len(e) = 0
  BY <1>3, EmptySeq
<1>5. o \in Strings /\ o["systeminfo"] = 1
  <2>1. DOMAIN o = Index /\ \A i \in Index : o[i] \in Value
    BY <1>2, <1>3 DEF Index
  <2>2. o = [i \in Index |-> o[i]]
    BY <1>3, <2>1 DEF Index
  <2> QED
    BY <1>3, <2>1, <2>2 DEF Strings
<1>6. /\ sv \in ServerHalf /\ sv.restartedServerId = 1 /\ sv.configstrings = o
      /\ sv.serverId \in {1, 2} /\ sv.state = "connected"
  <2>1. PICK id : id = (IF restarted THEN 2 ELSE 1)
    OBVIOUS
  <2>2. id \in {1, 2} /\ id \in ServerId
    BY <1>2, <2>1
  <2>3. sv = [serverId          |-> id,
              restartedServerId |-> 1,
              configstrings     |-> o,
              modified          |-> restarted,
              state             |-> "connected",
              csUpdated         |-> {}]
    BY <1>1, <1>3, <2>1
  <2> QED
    BY <1>2, <1>5, <2>2, <2>3 DEF ServerHalf
<1>7. log = e /\ toServer = e /\ toClient = e
  BY <1>3 DEF Init
<1>8. Here \in [sv : ServerHalf, log : Seq(Command)] /\ Here.sv = sv /\ Here.log = e
  BY <1>4, <1>6, <1>7 DEF Here
<1>9. SystemInfos(e, 0) = {}
  <2>1. 0 + 1 .. Len(e) = {}
    BY <1>4
  <2> QED
    BY <2>1 DEF SystemInfos, Changes
<1>10. ServerIsSound(Here) /\ NothingWaits(Here)
  BY <1>5, <1>6, <1>8, <1>9 DEF ServerIsSound, NothingWaits
<1>11. PICK z : z = [i \in Index |-> 0]
  OBVIOUS
<1>12. z \in Strings
  BY <1>2, <1>11 DEF Strings
<1>13. cl = [map |-> 0, serverId |-> 0, gameState |-> z, later |-> TRUE,
             executed |-> 0, inGame |-> FALSE, snapshots |-> e]
  BY <1>3, <1>11 DEF Init
<1>14. /\ cl \in ClientHalf /\ cl.map = 0 /\ cl.serverId = 0 /\ cl.executed = 0
       /\ cl.snapshots = e
  BY <1>2, <1>4, <1>12, <1>13 DEF ClientHalf
<1>15. ClientIsSound(cl, Here, history)
  <2>1. Len(e) <= SnapshotBackup /\ \A i \in 1 .. Len(e) : FALSE
    BY <1>4, GameStateAssumption
  <2>2. ClientFollows(cl, Here, history)
    BY <1>6, <1>8, <1>14 DEF ClientFollows
  <2>3. ClientIsBehind(cl, Here, history)
    BY <1>6, <1>8, <1>9, <1>14 DEF ClientIsBehind
  <2>4. cl.map <= sv.restartedServerId /\ cl.serverId <= sv.serverId /\ cl.executed <= Len(e)
    BY <1>4, <1>6, <1>14
  <2> QED
    BY <1>8, <1>14, <2>1, <2>2, <2>3, <2>4 DEF ClientIsSound
<1>16. Elements(e) = {} /\ Sorted(e, SentOrder)
  BY <1>4 DEF Elements, Sorted
<1>17. CountsAreSound
  <2>1. counts = [spawns |-> 0, restarts |-> 0, changes |-> 0]
    BY DEF Init
  <2>2. /\ 0 \in 0 .. MaxSpawns /\ 0 \in 0 .. MaxRestarts /\ 0 \in 0 .. MaxChanges
    BY GameStateAssumption
  <2> QED
    BY <1>6, <2>1, <2>2 DEF CountsAreSound, NextServerId
<1>18. HistoryIsSound
  BY DEF Init, HistoryIsSound
<1> QED
  BY <1>4, <1>7, <1>10, <1>15, <1>16, <1>17, <1>18 DEF IInv

LEMMA NextIsSound == IInv /\ [Next]_vars => IInv'
<1> SUFFICES ASSUME IInv, [Next]_vars
             PROVE  IInv'
  OBVIOUS
<1>1. toServer \in Seq(ClientMessage) /\ toClient \in Seq(ServerMessage)
  BY InvariantParts
<1>2. DOMAIN toServer = 1 .. Len(toServer) /\ DOMAIN toClient = 1 .. Len(toClient)
  BY <1>1, LenProperties
<1>3. CASE SvSetConfigstring
  BY <1>3, SvSetConfigstringStep
<1>4. CASE SvSpawnServer
  BY <1>4, SpawnStep
<1>5. CASE SvMapRestart
  BY <1>5, SvMapRestartStep
<1>6. CASE \E due \in BOOLEAN : SvFrame(due)
  BY <1>6, SvFrameStep
<1>7. CASE ReceiveGameState
  BY <1>2, <1>7, ClReceiveGameStateStep DEF ReceiveGameState
<1>8. CASE ReceiveSnapshot
  BY <1>2, <1>8, ClReceiveSnapshotStep DEF ReceiveSnapshot
<1>9. CASE CgShowSnapshot
  BY <1>9, CgShowSnapshotStep
<1>10. CASE ClWritePacket
  BY <1>10, ClWritePacketStep
<1>11. CASE ReceivePacket
  BY <1>2, <1>11, SvReceiveMoveStep, SvReceiveOtherStep DEF ReceivePacket, SvReceive
<1>12. CASE UNCHANGED vars
  <2>1. /\ Here' = Here /\ cl' = cl /\ toServer' = toServer /\ toClient' = toClient
        /\ history' = history /\ counts' = counts /\ sv' = sv
    BY <1>12 DEF vars, Here
  <2>2. CountsAreSound' /\ HistoryIsSound'
    BY <2>1, CountsStay, HistoryStays, InvariantParts
  <2> QED
    BY <2>1, <2>2 DEF IInv
<1> QED
  BY <1>3, <1>4, <1>5, <1>6, <1>7, <1>8, <1>9, <1>10, <1>11, <1>12 DEF Next

LEMMA Invariance == Spec => []IInv
<1> QED
  BY InitIsSound, NextIsSound, PTL DEF Spec

-----------------------------------------------------------------------------
(* The variables keep their types, and the client executes no command that  *)
(* has not been added (sv_main.c:132-168, cl_cgame.c:266-288).              *)
THEOREM TypeCorrect == Spec => []TypeOK
<1>1. ASSUME IInv
      PROVE  TypeOK
  <2>1. /\ ServerIsSound(Here) /\ Here.sv = sv /\ Here.log = log
        /\ ClientIsSound(cl, Here, history) /\ cl \in ClientHalf
        /\ toServer \in Seq(ClientMessage) /\ toClient \in Seq(ServerMessage)
        /\ CountsAreSound /\ HistoryIsSound
    BY <1>1, InvariantParts
  <2>2. sv \in ServerHalf /\ log \in Seq(Command)
    BY <2>1, ServerParts
  <2>3. Len(cl.snapshots) <= SnapshotBackup /\ cl.executed <= Len(log)
    BY <2>1 DEF ClientIsSound
  <2> QED
    BY <2>1, <2>2, <2>3 DEF TypeOK, CountsAreSound, HistoryIsSound
<1> QED
  BY <1>1, Invariance, PTL

(* "any configstring changes should be reliably transmitted to all clients" *)
(* (sv_init.c:607-609): a client that has executed all commands of the map  *)
(* it is in has the server's configstrings, unless a gamestate overtook one *)
(* of them.                                                                 *)
THEOREM ConfigstringsReach == Spec => []ConfigstringsReachTheClient
<1>1. ASSUME IInv
      PROVE  ConfigstringsReachTheClient
  <2> SUFFICES ASSUME HasCaughtUp, ~history.stale
               PROVE  cl.gameState = sv.configstrings
    BY DEF ConfigstringsReachTheClient
  <2>1. /\ ServerIsSound(Here) /\ NothingWaits(Here) /\ Here.sv = sv /\ Here.log = log
        /\ ClientIsSound(cl, Here, history) /\ cl \in ClientHalf
    BY <1>1, InvariantParts
  <2>2. /\ cl.gameState \in Strings /\ sv.configstrings \in Strings /\ Len(log) \in Nat
    BY <2>1, ServerParts, ClientParts
  <2>3. /\ cl.map = sv.restartedServerId /\ cl.executed = Len(log) /\ sv.csUpdated = {}
    BY <2>1 DEF HasCaughtUp, NothingWaits
  <2>4. Reaches(cl.gameState, Len(log), Here)
    BY <2>1, <2>3 DEF ClientIsSound, ClientFollows
  <2>5. ASSUME NEW i \in Index
        PROVE  cl.gameState[i] = sv.configstrings[i]
    <3>1. ValueAfter(cl.gameState[i], log, i, Len(log) + 1, Len(log)) = sv.configstrings[i]
      BY <2>1, <2>3, <2>4 DEF Reaches, ReachesAt
    <3>2. Changes(log, i, Len(log) + 1, Len(log)) = {}
      BY <2>2 DEF Changes
    <3> QED
      BY <3>1, <3>2, ValueAfterNone
  <2> QED
    BY <2>2, <2>5 DEF Strings
<1> QED
  BY <1>1, Invariance, PTL

(* "when we get the next packet from a connected client, the new gamestate  *)
(* will be sent" (sv_init.c:542-543): no packet the server takes for one of *)
(* the current game was written in another map, unless a map_restart put a  *)
(* client into the world that had not got there.                            *)
THEOREM PacketsOfThisMap == Spec => []PacketsAreOfThisMap
<1>1. ASSUME IInv
      PROVE  PacketsAreOfThisMap
  <2> SUFFICES ASSUME NEW i \in DOMAIN toServer, IsCurrent(toServer[i]), ~history.forced
               PROVE  toServer[i].map = sv.restartedServerId
    BY DEF PacketsAreOfThisMap
  <2>1. toServer \in Seq(ClientMessage)
    BY <1>1, InvariantParts
  <2>2. i \in 1 .. Len(toServer)
    BY <2>1, LenProperties
  <2>3. toServer[i] \in Elements(toServer)
    BY <2>2 DEF Elements
  <2> QED
    BY <1>1, <2>3, CurrentIsOfThisMap
<1> QED
  BY <1>1, Invariance, PTL

(* The gamestate is "resent if the client acknowledges a later message but  *)
(* has the wrong gamestate" (sv_client.c:490-491), and only then.           *)
THEOREM SentIfMissed == Spec => []GameStateIsSentIfMissed
<1>1. IInv => GameStateIsSentIfMissed
  BY DEF IInv, HistoryIsSound, GameStateIsSentIfMissed
<1> QED
  BY <1>1, Invariance, PTL
=============================================================================
