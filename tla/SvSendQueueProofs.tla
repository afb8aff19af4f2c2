------------------------- MODULE SvSendQueueProofs -------------------------
(***************************************************************************)
(* Proofs about SvSendQueue: its types, and what is left of SV_Final-      *)
(* Message's promise.  SvNetChanProofs shows that the channel with its     *)
(* sequence numbers and bytes implements this module.                      *)
(***************************************************************************)
EXTENDS SvSendQueue, SequenceTheorems, TLAPS

(* A path of the send queue: the current message, the messages that wait,   *)
(* and whether a final one went out.                                        *)
PathType == [left : Nat, final : BOOLEAN, queue : Seq(Waiting),
             finalSent : BOOLEAN]

LEMMA SizesArePositive == Size \subseteq Nat \ {0}
  BY SvSendQueueAssumption DEF Size

LEMMA MessagesOfSizes ==
    ASSUME NEW n \in Size
    PROVE  Plain(n) \in Waiting /\ Final(n) \in Waiting
  BY DEF Plain, Final, Waiting

(* A datagram leaves a path with fragments unsent a path.                   *)
LEMMA FragmentSentType ==
    ASSUME NEW s \in PathType, s.left > 0
    PROVE  /\ FragmentSent(s) \in PathType
           /\ FragmentSent(s).left = s.left - 1
           /\ FragmentSent(s).queue = s.queue
<1>1. s.left - 1 \in Nat
  BY DEF PathType
<1>2. s.finalSent \/ (s.left = 1 /\ s.final) \in BOOLEAN
  BY DEF PathType
<1> QED
  BY <1>1, <1>2 DEF FragmentSent, PathType

(* A message always takes the datagram that is sent at once.                *)
LEMMA TransmittedType ==
    ASSUME NEW s \in PathType, NEW m \in Waiting
    PROVE  /\ Transmitted(s, m) \in PathType
           /\ Transmitted(s, m).left = m.size - 1
           /\ Transmitted(s, m).queue = s.queue
<1> DEFINE t == [s EXCEPT !.left = m.size, !.final = m.final]
<1>1. m.size \in Nat /\ m.size > 0 /\ m.final \in BOOLEAN
  <2>1. m.size \in Size /\ m.final \in BOOLEAN
    BY DEF Waiting
  <2>2. m.size \in Nat \ {0}
    BY <2>1, SizesArePositive
  <2> QED
    BY <2>1, <2>2
<1>2. t \in PathType /\ t.left = m.size /\ t.queue = s.queue
  BY <1>1 DEF PathType
<1> HIDE DEF t
<1>3. t.left > 0
  BY <1>1, <1>2
<1>4. Transmitted(s, m) = FragmentSent(t)
  BY DEF Transmitted, t
<1> QED
  BY <1>2, <1>3, <1>4, FragmentSentType

(* SV_Netchan_Transmit keeps a path a path.                                 *)
LEMMA SvTransmitType ==
    ASSUME NEW s \in PathType, NEW m \in Waiting
    PROVE  SvTransmit(s, m) \in PathType
<1>1. CASE s.left > 0
  <2> DEFINE t == FragmentSent(s)
  <2>1. t \in PathType
    BY <1>1, FragmentSentType
  <2> HIDE DEF t
  <2>2. Append(t.queue, m) \in Seq(Waiting)
    BY <2>1, AppendProperties DEF PathType
  <2>3. [t EXCEPT !.queue = Append(@, m)] \in PathType
    BY <2>1, <2>2 DEF PathType
  <2> QED
    BY <1>1, <2>3 DEF SvTransmit, t
<1>2. CASE ~(s.left > 0)
  BY <1>2, TransmittedType DEF SvTransmit
<1> QED
  BY <1>1, <1>2

(* So does SV_Netchan_TransmitNextFragment with fragments unsent.           *)
LEMMA SvTransmitNextFragmentType ==
    ASSUME NEW s \in PathType, s.left > 0
    PROVE  SvTransmitNextFragment(s) \in PathType
<1> DEFINE t == FragmentSent(s)
<1>1. t \in PathType
  BY FragmentSentType
<1>2. SvTransmitNextFragment(s)
        = IF t.left = 0 /\ t.queue # <<>>
          THEN [Transmitted(t, Head(t.queue)) EXCEPT !.queue = Tail(@)]
          ELSE t
  BY DEF SvTransmitNextFragment
<1> HIDE DEF t
<1>3. CASE t.left = 0 /\ t.queue # <<>>
  <2> DEFINE u == Transmitted(t, Head(t.queue))
  <2>1. Head(t.queue) \in Waiting /\ Tail(t.queue) \in Seq(Waiting)
    BY <1>1, <1>3, HeadTailProperties DEF PathType
  <2>2. u \in PathType /\ u.queue = t.queue
    BY <1>1, <2>1, TransmittedType
  <2> HIDE DEF u
  <2>3. [u EXCEPT !.queue = Tail(@)] \in PathType
    BY <2>1, <2>2 DEF PathType
  <2> QED
    BY <1>2, <1>3, <2>3 DEF u
<1> QED
  BY <1>1, <1>2, <1>3

LEMMA NextPathType ==
    ASSUME NEW s \in PathType, IsNextPath(s)
    PROVE  /\ left' \in Nat /\ final' \in BOOLEAN
           /\ queue' \in Seq(Waiting) /\ finalSent' \in BOOLEAN
  BY DEF IsNextPath, PathType

LEMMA NextType ==
    ASSUME TypeOK, [Next]_vars
    PROVE  TypeOK'
<1>1. Path \in PathType
  BY DEF TypeOK, Path, PathType
<1>2. SnapshotSizes \subseteq Size /\ GameStateSizes \subseteq Size
  BY DEF Size
<1>3. CASE SendFragment
  <2>1. Path.left > 0
    BY <1>3 DEF SendFragment, Path
  <2>2. SvTransmitNextFragment(Path) \in PathType
    BY <1>1, <2>1, SvTransmitNextFragmentType
  <2> QED
    BY <1>3, <2>2, NextPathType DEF SendFragment, TypeOK
<1>4. CASE SendSnapshot
  <2>1. PICK n \in SnapshotSizes : IsNextPath(SvTransmit(Path, Plain(n)))
    BY <1>4 DEF SendSnapshot
  <2>2. SvTransmit(Path, Plain(n)) \in PathType
    BY <1>1, <1>2, MessagesOfSizes, SvTransmitType
  <2> QED
    BY <1>4, <2>1, <2>2, NextPathType DEF SendSnapshot, TypeOK
<1>5. CASE SendGameState
  <2>1. PICK n \in GameStateSizes : IsNextPath(SvTransmit(Path, Plain(n)))
    BY <1>5 DEF SendGameState
  <2>2. SvTransmit(Path, Plain(n)) \in PathType
    BY <1>1, <1>2, MessagesOfSizes, SvTransmitType
  <2>3. gameStates' \in 0 .. MaxGameStates
    BY <1>5, SvSendQueueAssumption DEF SendGameState, TypeOK
  <2> QED
    BY <1>5, <2>1, <2>2, <2>3, NextPathType DEF SendGameState, TypeOK
<1>6. ASSUME NEW n \in SnapshotSizes, NEW k \in SnapshotSizes, FinalMessage(n, k)
      PROVE  TypeOK'
  <2>1. SvTransmit(SvTransmit(Path, Final(n)), Final(k)) \in PathType
    BY <1>1, <1>2, MessagesOfSizes, SvTransmitType
  <2> QED
    BY <1>6, <2>1, NextPathType DEF FinalMessage, TypeOK
<1>7. CASE UNCHANGED vars
  BY <1>7 DEF vars, TypeOK
<1> QED
  BY <1>3, <1>4, <1>5, <1>6, <1>7 DEF Next, SendClientMessages

(* What is left of a message never runs below zero and only whole messages  *)
(* wait: a fragment is asked for only while one is left, and every message  *)
(* takes a datagram (sv_net_chan.c:130-205).                                *)
THEOREM TypeCorrect == Spec => []TypeOK
<1>1. Init => TypeOK
  <2> SUFFICES ASSUME Init
               PROVE  TypeOK
    OBVIOUS
  <2>1. 0 \in 0 .. MaxGameStates
    BY SvSendQueueAssumption
  <2>2. <<>> \in Seq(Waiting)
    OBVIOUS
  <2> QED
    BY <2>1, <2>2 DEF Init, TypeOK
<1> QED
  BY <1>1, NextType, PTL DEF Spec

-----------------------------------------------------------------------------
(* Until SV_FinalMessage is called nothing on the path is a final message.  *)
PathIsPlain(s) ==
    /\ ~s.final /\ ~s.finalSent
    /\ \A i \in 1 .. Len(s.queue) : ~s.queue[i].final

PlainUntilDown == ~down => PathIsPlain(Path)

LEMMA FragmentSentIsPlain ==
    ASSUME NEW s \in PathType, s.left > 0, PathIsPlain(s)
    PROVE  PathIsPlain(FragmentSent(s))
<1>1. ~FragmentSent(s).final /\ ~FragmentSent(s).finalSent
  BY DEF FragmentSent, PathIsPlain, PathType
<1> QED
  BY <1>1, FragmentSentType DEF PathIsPlain

LEMMA TransmittedIsPlain ==
    ASSUME NEW s \in PathType, PathIsPlain(s), NEW m \in Waiting, ~m.final
    PROVE  PathIsPlain(Transmitted(s, m))
<1>1. ~Transmitted(s, m).final /\ ~Transmitted(s, m).finalSent
  BY DEF Transmitted, FragmentSent, PathIsPlain, PathType
<1> QED
  BY <1>1, TransmittedType DEF PathIsPlain

LEMMA SvTransmitIsPlain ==
    ASSUME NEW s \in PathType, PathIsPlain(s), NEW m \in Waiting, ~m.final
    PROVE  PathIsPlain(SvTransmit(s, m))
<1>1. CASE s.left > 0
  <2> DEFINE t == FragmentSent(s)
             u == [t EXCEPT !.queue = Append(@, m)]
  <2>1. t \in PathType /\ PathIsPlain(t)
    BY <1>1, FragmentSentType, FragmentSentIsPlain
  <2> HIDE DEF t
  <2>2. /\ Len(Append(t.queue, m)) = Len(t.queue) + 1
        /\ \A i \in 1 .. Len(t.queue) : Append(t.queue, m)[i] = t.queue[i]
        /\ Append(t.queue, m)[Len(t.queue) + 1] = m
        /\ Len(t.queue) \in Nat
    BY <2>1, AppendProperties, LenProperties DEF PathType
  <2>3. u.final = t.final /\ u.finalSent = t.finalSent /\ u.queue = Append(t.queue, m)
    BY <2>1 DEF PathType
  <2>4. \A i \in 1 .. Len(u.queue) : ~u.queue[i].final
    BY <2>1, <2>2, <2>3 DEF PathIsPlain
  <2>5. PathIsPlain(u)
    BY <2>1, <2>3, <2>4 DEF PathIsPlain
  <2> QED
    BY <1>1, <2>5 DEF SvTransmit, t
<1>2. CASE ~(s.left > 0)
  BY <1>2, TransmittedIsPlain DEF SvTransmit
<1> QED
  BY <1>1, <1>2

LEMMA SvTransmitNextFragmentIsPlain ==
    ASSUME NEW s \in PathType, s.left > 0, PathIsPlain(s)
    PROVE  PathIsPlain(SvTransmitNextFragment(s))
<1> DEFINE t == FragmentSent(s)
<1>1. t \in PathType /\ PathIsPlain(t)
  BY FragmentSentType, FragmentSentIsPlain
<1>2. SvTransmitNextFragment(s)
        = IF t.left = 0 /\ t.queue # <<>>
          THEN [Transmitted(t, Head(t.queue)) EXCEPT !.queue = Tail(@)]
          ELSE t
  BY DEF SvTransmitNextFragment
<1> HIDE DEF t
<1>3. CASE t.left = 0 /\ t.queue # <<>>
  <2> DEFINE u == Transmitted(t, Head(t.queue))
             v == [u EXCEPT !.queue = Tail(@)]
  <2>1. /\ Head(t.queue) \in Waiting /\ Head(t.queue) = t.queue[1]
        /\ Len(t.queue) \in Nat \ {0} /\ Len(Tail(t.queue)) = Len(t.queue) - 1
        /\ \A i \in 1 .. Len(t.queue) - 1 : Tail(t.queue)[i] = t.queue[i + 1]
    BY <1>1, <1>3, HeadTailProperties, EmptySeq, LenProperties DEF PathType
  <2>2. u \in PathType /\ PathIsPlain(u) /\ u.queue = t.queue
    BY <1>1, <2>1, TransmittedType, TransmittedIsPlain DEF PathIsPlain
  <2> HIDE DEF u
  <2>3. v.final = u.final /\ v.finalSent = u.finalSent /\ v.queue = Tail(t.queue)
    BY <2>2 DEF PathType
  <2>4. \A i \in 1 .. Len(v.queue) : ~v.queue[i].final
    <3>1. \A i \in 1 .. Len(t.queue) - 1 : ~t.queue[i + 1].final
      BY <1>1, <2>1 DEF PathIsPlain
    <3>2. \A i \in 1 .. Len(t.queue) - 1 : ~Tail(t.queue)[i].final
      BY <2>1, <3>1
    <3> QED
      BY <2>1, <2>3, <3>2
  <2>5. PathIsPlain(v)
    BY <2>2, <2>3, <2>4 DEF PathIsPlain
  <2> QED
    BY <1>2, <1>3, <2>5 DEF u
<1> QED
  BY <1>1, <1>2, <1>3

LEMMA NextPathIsPlain ==
    ASSUME NEW s \in PathType, PathIsPlain(s), IsNextPath(s)
    PROVE  PathIsPlain(Path)'
  BY DEF IsNextPath, PathIsPlain, Path

LEMMA NextIsPlain ==
    ASSUME TypeOK, PlainUntilDown, [Next]_vars
    PROVE  PlainUntilDown'
<1>1. Path \in PathType /\ (~down => PathIsPlain(Path))
  BY DEF TypeOK, Path, PathType, PlainUntilDown
<1>2. ASSUME NEW n \in Size
      PROVE  Plain(n) \in Waiting /\ ~Plain(n).final
  BY <1>2, MessagesOfSizes DEF Plain
<1>3. SnapshotSizes \subseteq Size /\ GameStateSizes \subseteq Size
  BY DEF Size
<1>4. CASE SendFragment
  <2>1. Path.left > 0 /\ ~down
    BY <1>4 DEF SendFragment, Path
  <2>2. /\ SvTransmitNextFragment(Path) \in PathType
        /\ PathIsPlain(SvTransmitNextFragment(Path))
    BY <1>1, <2>1, SvTransmitNextFragmentType, SvTransmitNextFragmentIsPlain
  <2> QED
    BY <1>4, <2>2, NextPathIsPlain DEF SendFragment, PlainUntilDown
<1>5. ASSUME NEW n \in Size, ~down, IsNextPath(SvTransmit(Path, Plain(n)))
      PROVE  PlainUntilDown'
  <2>1. /\ SvTransmit(Path, Plain(n)) \in PathType
        /\ PathIsPlain(SvTransmit(Path, Plain(n)))
    BY <1>1, <1>2, <1>5, SvTransmitType, SvTransmitIsPlain
  <2> QED
    BY <1>5, <2>1, NextPathIsPlain DEF PlainUntilDown
<1>6. CASE SendSnapshot
  BY <1>3, <1>5, <1>6 DEF SendSnapshot
<1>7. CASE SendGameState
  BY <1>3, <1>5, <1>7 DEF SendGameState
<1>8. ASSUME NEW n \in SnapshotSizes, NEW k \in SnapshotSizes, FinalMessage(n, k)
      PROVE  PlainUntilDown'
  BY <1>8 DEF FinalMessage, PlainUntilDown
<1>9. CASE UNCHANGED vars
  BY <1>9 DEF vars, PlainUntilDown, PathIsPlain, Path
<1> QED
  BY <1>4, <1>6, <1>7, <1>8, <1>9 DEF Next, SendClientMessages

(* A final message that is transmitted went out whole if it takes one       *)
(* datagram.                                                                *)
LEMMA TransmittedSends ==
    ASSUME NEW s \in PathType, NEW n \in Size
    PROVE  /\ Transmitted(s, Final(n)).final
           /\ Transmitted(s, Final(n)).finalSent <=> s.finalSent \/ n = 1
<1> DEFINE t == [s EXCEPT !.left = n, !.final = TRUE]
<1>1. t.left = n /\ t.final = TRUE /\ t.finalSent = s.finalSent
  BY DEF PathType
<1>2. Transmitted(s, Final(n)) = FragmentSent(t)
  BY DEF Transmitted, Final
<1>3. t \in PathType
  BY SizesArePositive DEF PathType
<1> HIDE DEF t
<1> QED
  BY <1>1, <1>2, <1>3 DEF FragmentSent, PathType

(* What the two calls of SV_FinalMessage send of their messages.            *)
LEMMA TwoCalls ==
    ASSUME NEW s \in PathType, PathIsPlain(s), NEW n \in Size, NEW k \in Size
    PROVE  SvTransmit(SvTransmit(s, Final(n)), Final(k)).finalSent
             <=> \/ s.left = 0 /\ n <= 2
                 \/ s.left = 1 /\ k = 1
<1> DEFINE t == SvTransmit(s, Final(n))
<1>1. n \in Nat \ {0} /\ k \in Nat \ {0} /\ s.left \in Nat
  BY SizesArePositive DEF PathType
<1>2. t \in PathType
  BY MessagesOfSizes, SvTransmitType
<1>3. CASE s.left = 0
  <2>1. t.left = n - 1 /\ t.final /\ (t.finalSent <=> n = 1)
    <3>1. t = Transmitted(s, Final(n)) /\ ~s.finalSent /\ Final(n).size = n
      BY <1>3 DEF SvTransmit, PathIsPlain, Final
    <3> HIDE DEF t
    <3>2. t.left = n - 1
      BY <3>1, MessagesOfSizes, TransmittedType
    <3>3. t.final /\ (t.finalSent <=> n = 1)
      BY <3>1, TransmittedSends
    <3> QED
      BY <3>2, <3>3
  <2> HIDE DEF t
  <2>2. CASE n = 1
    <3>1. SvTransmit(t, Final(k)).finalSent
      BY <1>2, <2>1, <2>2, TransmittedSends DEF SvTransmit
    <3> QED
      BY <1>3, <2>2, <3>1 DEF t
  <2>3. CASE n # 1
    <3>1. SvTransmit(t, Final(k)).finalSent <=> t.left = 1
      BY <1>1, <1>2, <2>1, <2>3 DEF SvTransmit, FragmentSent, PathType
    <3> QED
      BY <1>1, <1>3, <2>1, <2>3, <3>1 DEF t
  <2> QED
    BY <2>2, <2>3
<1>4. CASE s.left > 0
  <2>1. t.left = s.left - 1 /\ ~t.final /\ ~t.finalSent
    BY <1>1, <1>4 DEF SvTransmit, FragmentSent, PathIsPlain, PathType
  <2> HIDE DEF t
  <2>2. CASE s.left = 1
    <3>1. SvTransmit(t, Final(k)).finalSent <=> k = 1
      BY <1>2, <2>1, <2>2, TransmittedSends DEF SvTransmit
    <3> QED
      BY <2>2, <3>1 DEF t
  <2>3. CASE s.left # 1
    <3>1. ~SvTransmit(t, Final(k)).finalSent
      BY <1>1, <1>2, <1>4, <2>1, <2>3 DEF SvTransmit, FragmentSent, PathType
    <3> QED
      BY <1>4, <2>3, <3>1 DEF t
  <2> QED
    BY <2>2, <2>3
<1> QED
  BY <1>1, <1>3, <1>4

(* "The messages are sent immediately, not just stuck on the outgoing       *)
(* message list" (sv_init.c:700-702): when the last datagram of one of the  *)
(* two copies goes out before the server exits, for all sizes of messages.  *)
THEOREM FinalMessageIsSent == Spec => FinalMessageGoesOut
<1>1. Init => PlainUntilDown
  BY DEF Init, PlainUntilDown, PathIsPlain, Path
<1>2. Spec => []PlainUntilDown
  BY <1>1, NextIsPlain, TypeCorrect, PTL DEF Spec
<1>3. ASSUME TypeOK, PlainUntilDown, NEW n \in SnapshotSizes,
             NEW k \in SnapshotSizes, FinalMessage(n, k)
      PROVE  finalSent' <=> \/ left = 0 /\ n <= 2
                            \/ left = 1 /\ k = 1
  <2>1. /\ Path \in PathType /\ PathIsPlain(Path) /\ Path.left = left
        /\ n \in Size /\ k \in Size
    BY <1>3 DEF TypeOK, Path, PathType, PlainUntilDown, FinalMessage, Size
  <2>2. finalSent' = SvTransmit(SvTransmit(Path, Final(n)), Final(k)).finalSent
    BY <1>3 DEF FinalMessage, IsNextPath
  <2> QED
    BY <2>1, <2>2, TwoCalls
<1>4. TypeOK /\ PlainUntilDown =>
          \A n, k \in SnapshotSizes :
             FinalMessage(n, k) =>
                 (finalSent' <=> \/ left = 0 /\ n <= 2
                                 \/ left = 1 /\ k = 1)
  BY <1>3
<1> QED
  BY <1>2, <1>4, TypeCorrect, PTL DEF FinalMessageGoesOut
=============================================================================
