--------------------------- MODULE SendPathProofs ---------------------------
(***************************************************************************)
(* Lemmas about the operators of SendPath, for every set M of messages:    *)
(* what a call of the send path holds afterwards, and that messages stay   *)
(* in the order in which they were handed over.  An order of messages is a *)
(* set R of pairs; ClientCommandsProofs orders them by acknowledgement and *)
(* ServerCommandsProofs by the command they reach to.                      *)
(* Three sections are about slots of a ring (a % k), about the least and   *)
(* the greatest element of a set of numbers, and about recursion.          *)
(***************************************************************************)
EXTENDS SendPath, Integers, SequenceTheorems, WellFoundedInduction, TLAPS

(* The messages of a sequence. *)
Elements(f) == {f[i] : i \in 1 .. Len(f)}

Sorted(f, R) == \A i, j \in 1 .. Len(f) : i < j => <<f[i], f[j]>> \in R

(* All of A come before all of B. *)
Before(A, B, R) == \A x \in A, y \in B : <<x, y>> \in R

LEMMA ElementsType ==
    ASSUME NEW M, NEW f \in Seq(M)
    PROVE  Elements(f) \subseteq M
  BY ElementOfSeq, LenProperties DEF Elements

LEMMA AppendKeepsOrder ==
    ASSUME NEW M, NEW f \in Seq(M), NEW m \in M, NEW R
    PROVE  /\ Append(f, m) \in Seq(M)
           /\ Elements(Append(f, m)) = Elements(f) \cup {m}
           /\ Sorted(f, R) /\ Before(Elements(f), {m}, R)
                 => Sorted(Append(f, m), R)
<1> DEFINE t == Append(f, m)
<1>1. /\ t \in Seq(M) /\ Len(t) = Len(f) + 1 /\ Len(f) \in Nat
      /\ t[Len(f) + 1] = m
      /\ \A i \in 1 .. Len(f) : t[i] = f[i]
  BY AppendProperties, LenProperties
<1> HIDE DEF t
<1>2. Elements(t) = Elements(f) \cup {m}
  BY <1>1 DEF Elements
<1>3. ASSUME Sorted(f, R), Before(Elements(f), {m}, R)
      PROVE  Sorted(t, R)
  <2> SUFFICES ASSUME NEW i \in 1 .. Len(t), NEW j \in 1 .. Len(t), i < j
               PROVE  <<t[i], t[j]>> \in R
    BY DEF Sorted
  <2>1. i \in 1 .. Len(f)
    BY <1>1
  <2>2. CASE j \in 1 .. Len(f)
    BY <1>1, <1>3, <2>1, <2>2 DEF Sorted
  <2>3. CASE j = Len(f) + 1
    BY <1>1, <1>3, <2>1, <2>3 DEF Before, Elements
  <2>4. j \in 1 .. Len(f) \/ j = Len(f) + 1
    BY <1>1
  <2> QED
    BY <2>2, <2>3, <2>4
<1> QED
  BY <1>1, <1>2, <1>3 DEF t

(* The end of a sequence behind its first d messages. *)
LEMMA SuffixKeepsOrder ==
    ASSUME NEW M, NEW f \in Seq(M), NEW d \in 0 .. Len(f), NEW R
    PROVE  LET t == SubSeq(f, d + 1, Len(f))
           IN  /\ t \in Seq(M) /\ Len(t) = Len(f) - d
               /\ \A i \in 1 .. Len(f) - d : t[i] = f[i + d]
               /\ Elements(t) \subseteq Elements(f)
               /\ Sorted(f, R) => Sorted(t, R)
               /\ Sorted(f, R) /\ d > 0 => Before({f[d]}, Elements(t), R)
<1> DEFINE t == SubSeq(f, d + 1, Len(f))
<1>1. Len(f) \in Nat /\ d \in Nat /\ d <= Len(f)
  BY LenProperties
<1>2. \A i \in d + 1 .. Len(f) : f[i] \in M
  BY <1>1, ElementOfSeq
<1>3. /\ t \in Seq(M)
      /\ Len(t) = IF d + 1 <= Len(f) THEN Len(f) - (d + 1) + 1 ELSE 0
      /\ \A i \in 1 .. Len(f) - (d + 1) + 1 : t[i] = f[(d + 1) + i - 1]
  BY <1>1, <1>2, SubSeqProperties
<1> HIDE DEF t
<1>4. Len(t) = Len(f) - d
  <2>1. CASE d + 1 <= Len(f)
    BY <1>1, <1>3, <2>1
  <2>2. CASE d = Len(f)
    BY <1>1, <1>3, <2>2
  <2>3. d + 1 <= Len(f) \/ d = Len(f)
    BY <1>1
  <2> QED
    BY <2>1, <2>2, <2>3
<1>5. ASSUME NEW i \in 1 .. Len(f) - d
      PROVE  t[i] = f[i + d]
  <2>1. i \in 1 .. Len(f) - (d + 1) + 1 /\ (d + 1) + i - 1 = i + d
    BY <1>1
  <2> QED
    BY <1>3, <2>1
<1>6. Len(t) = Len(f) - d
  BY <1>4
<1>7. Elements(t) \subseteq Elements(f)
  BY <1>1, <1>5, <1>6 DEF Elements
<1>8. ASSUME Sorted(f, R)
      PROVE  Sorted(t, R)
  <2> SUFFICES ASSUME NEW i \in 1 .. Len(t), NEW j \in 1 .. Len(t), i < j
               PROVE  <<t[i], t[j]>> \in R
    BY DEF Sorted
  <2>1. i + d \in 1 .. Len(f) /\ j + d \in 1 .. Len(f) /\ i + d < j + d
    BY <1>1, <1>6
  <2> QED
    BY <1>5, <1>6, <1>8, <2>1 DEF Sorted
<1>9. ASSUME Sorted(f, R), d > 0
      PROVE  Before({f[d]}, Elements(t), R)
  <2> SUFFICES ASSUME NEW i \in 1 .. Len(t)
               PROVE  <<f[d], t[i]>> \in R
    BY DEF Before, Elements
  <2>1. i + d \in 1 .. Len(f) /\ d \in 1 .. Len(f) /\ d < i + d
    BY <1>1, <1>6, <1>9
  <2> QED
    BY <1>5, <1>6, <1>9, <2>1 DEF Sorted
<1> QED
  BY <1>3, <1>4, <1>5, <1>7, <1>8, <1>9 DEF t

LEMMA TailKeepsOrder ==
    ASSUME NEW M, NEW f \in Seq(M), f # <<>>, NEW R
    PROVE  /\ Tail(f) \in Seq(M) /\ Len(Tail(f)) = Len(f) - 1
           /\ Head(f) \in Elements(f) /\ Head(f) \in M
           /\ Elements(Tail(f)) \subseteq Elements(f)
           /\ Sorted(f, R) => Sorted(Tail(f), R)
           /\ Sorted(f, R) => Before({Head(f)}, Elements(Tail(f)), R)
<1>1. Len(f) \in Nat \ {0}
  BY EmptySeq, LenProperties
<1>2. Tail(f) = SubSeq(f, 1 + 1, Len(f))
  BY TailIsSubSeq
<1>3. 1 \in 0 .. Len(f) /\ 1 > 0
  BY <1>1
<1>4. /\ Tail(f) \in Seq(M) /\ Len(Tail(f)) = Len(f) - 1
      /\ Elements(Tail(f)) \subseteq Elements(f)
      /\ Sorted(f, R) => Sorted(Tail(f), R)
      /\ Sorted(f, R) => Before({f[1]}, Elements(Tail(f)), R)
  BY <1>2, <1>3, SuffixKeepsOrder
<1>5. Head(f) = f[1] /\ Head(f) \in M
  BY HeadTailProperties
<1>6. Head(f) \in Elements(f)
  BY <1>1, <1>5 DEF Elements
<1> QED
  BY <1>4, <1>5, <1>6

LEMMA SequenceWithin ==
    ASSUME NEW M, NEW f \in Seq(M), NEW N, Elements(f) \subseteq N
    PROVE  f \in Seq(N)
<1>1. Len(f) \in Nat /\ f \in [1 .. Len(f) -> M]
  BY LenProperties
<1>2. \A i \in 1 .. Len(f) : f[i] \in N
  BY DEF Elements
<1>3. f \in [1 .. Len(f) -> N]
  BY <1>1, <1>2
<1> QED
  BY <1>1, <1>3, IsASeq

LEMMA SequenceOfMore ==
    ASSUME NEW M, NEW f \in Seq(M), NEW N, M \subseteq N
    PROVE  f \in Seq(N)
  BY ElementsType, SequenceWithin

-----------------------------------------------------------------------------
(* The rings of commands and the numbers in them. *)

LEMMA SlotType ==
    ASSUME NEW k \in Nat \ {0}, NEW a \in Nat
    PROVE  a % k \in 0 .. k - 1
<1>1. a \in Int /\ k \in Int /\ k > 0
  OBVIOUS
<1>2. a % k \in Int /\ 0 <= a % k /\ a % k < k
  BY <1>1
<1> QED
  BY <1>1, <1>2

(* Fewer than k commands apart, two commands have slots of their own. *)
LEMMA SlotsDiffer ==
    ASSUME NEW k \in Nat \ {0}, NEW a \in Nat, NEW b \in Nat, a < b, b - a < k
    PROVE  a % k # b % k
<1> DEFINE p == a \div k
           q == b \div k
<1>1. /\ p \in Nat /\ q \in Nat
      /\ a = k * p + (a % k) /\ b = k * q + (b % k)
      /\ a % k \in Nat /\ b % k \in Nat
  OBVIOUS
<1> HIDE DEF p, q
<1>2. SUFFICES ASSUME a % k = b % k
               PROVE  FALSE
  OBVIOUS
<1>3. b - a = k * q - k * p
  BY <1>1, <1>2
<1>4. k * q - k * p = k * (q - p)
  BY <1>1
<1>5. CASE q <= p
  <2>1. k * q <= k * p
    BY <1>1, <1>5
  <2> QED
    BY <1>1, <1>3, <2>1
<1>6. CASE q >= p + 1
  <2>1. k * (q - p) >= k
    BY <1>1, <1>6
  <2> QED
    BY <1>1, <1>3, <1>4, <2>1
<1> QED
  BY <1>1, <1>5, <1>6

LEMMA SlotWraps ==
    ASSUME NEW k \in Nat \ {0}, NEW a \in Nat
    PROVE  (a + k) % k = a % k
<1> DEFINE p == a \div k
           q == (a + k) \div k
           r == a % k
           s == (a + k) % k
<1>1. /\ p \in Nat /\ q \in Nat
      /\ a = k * p + r /\ a + k = k * q + s
      /\ r \in Nat /\ s \in Nat /\ r < k /\ s < k
  OBVIOUS
<1> HIDE DEF p, q, r, s
<1>2. CASE q <= p
  <2>1. k * q <= k * p
    BY <1>1, <1>2
  <2> QED
    BY <1>1, <2>1
<1>3. CASE q = p + 1
  <2>1. k * q = k * p + k
    BY <1>1, <1>3
  <2>2. r = s
    BY <1>1, <2>1
  <2> QED
    BY <2>2 DEF r, s
<1>4. CASE q >= p + 2
  <2>1. k * q >= k * p + k + k
    BY <1>1, <1>4
  <2> QED
    BY <1>1, <2>1
<1> QED
  BY <1>1, <1>2, <1>3, <1>4

(* A set of numbers has a least element, so that Min is one. *)
LEMMA LeastExists ==
    ASSUME NEW S \in SUBSET Nat, S # {}
    PROVE  \E x \in S : \A y \in S : x <= y
<1> DEFINE less == OpToRel(<, Nat)
<1>1. IsWellFoundedOn(less, Nat)
  BY NatLessThanWellFounded
<1>2. \A x, y \in Nat : x < y => <<x, y>> \in less
  BY DEF OpToRel
<1> HIDE DEF less
<1>3. PICK x \in S : \A y \in S : <<y, x>> \notin less
  BY <1>1, WFMin, Zenon
<1>4. ASSUME NEW y \in S
      PROVE  x <= y
  <2>1. x \in Nat /\ y \in Nat /\ <<y, x>> \notin less
    BY <1>3
  <2>2. ~(y < x)
    BY <1>2, <2>1
  <2> QED
    BY <2>1, <2>2
<1> QED
  BY <1>4

(* A bounded set of numbers has a greatest element, so that Max is one. *)
LEMMA GreatestExists ==
    ASSUME NEW S \in SUBSET Nat, S # {}, NEW b \in Nat, \A x \in S : x <= b
    PROVE  \E x \in S : \A y \in S : x >= y
<1> DEFINE T == {b - x : x \in S}
<1>1. \A x \in S : b - x \in Nat
  OBVIOUS
<1>2. T \in SUBSET Nat /\ T # {}
  BY <1>1
<1> HIDE DEF T
<1>3. PICK t \in T : \A y \in T : t <= y
  BY <1>2, LeastExists
<1>4. PICK x \in S : t = b - x
  BY <1>3 DEF T
<1>5. ASSUME NEW y \in S
      PROVE  x >= y
  <2>1. b - y \in T
    BY DEF T
  <2>2. b - x <= b - y
    BY <1>3, <1>4, <2>1
  <2> QED
    BY <1>4, <1>5, <2>2
<1> QED
  BY <1>4, <1>5

-----------------------------------------------------------------------------
(* Induction up to a number, and recursion by it. *)

(* As a fact about a set: the provers do not take a rule about a predicate. *)
LEMMA IntervalInduction ==
    ASSUME NEW n \in Nat, NEW S, 0 \in S,
           \A k \in 1 .. n : k - 1 \in S => k \in S
    PROVE  \A k \in 0 .. n : k \in S
<1>1. PICK T : T = {k \in 0 .. n : k \notin S}
  OBVIOUS
<1>2. SUFFICES ASSUME T # {}
               PROVE  FALSE
  BY <1>1
<1>3. PICK x \in T : \A y \in T : x <= y
  <2>1. T \in SUBSET Nat
    BY <1>1
  <2> QED
    BY <1>2, <2>1, LeastExists
<1>4. x \in 0 .. n /\ x \notin S /\ x # 0
  BY <1>1, <1>3
<1>5. x \in 1 .. n /\ x - 1 \in 0 .. n /\ ~(x <= x - 1)
  BY <1>4
<1>6. x - 1 \in S
  BY <1>1, <1>3, <1>5
<1> QED
  BY <1>4, <1>5, <1>6

(* A step F, taken n times from d, has its sequence f of values in D: the    *)
(* recursion that f stands for is well defined.                             *)
Iterates(f, n, D, d, F) ==
    /\ f \in [0 .. n -> D]
    /\ f[0] = d
    /\ \A k \in 1 .. n : f[k] = F[<<k, f[k - 1]>>]

LEMMA RecursionExists ==
    ASSUME NEW n \in Nat, NEW D, NEW d \in D, NEW F \in [(1 .. n) \X D -> D]
    PROVE  \E f : Iterates(f, n, D, d, F)
<1> DEFINE Runs(f, m) == Iterates(f, m, D, d, F)
<1>1. PICK S : S = {m \in 0 .. n : \E f : Runs(f, m)}
  OBVIOUS
<1>2. 0 \in S
  <2>1. PICK f : f = [k \in 0 .. 0 |-> d]
    OBVIOUS
  <2>2. f \in [0 .. 0 -> D] /\ f[0] = d /\ 0 \in 0 .. n
    BY <2>1
  <2>3. \A k \in 1 .. 0 : f[k] = F[<<k, f[k - 1]>>]
    OBVIOUS
  <2>4. Runs(f, 0)
    BY <2>2, <2>3 DEF Iterates
  <2> HIDE DEF Runs
  <2>5. \E g : Runs(g, 0)
    BY <2>4
  <2> QED
    BY <1>1, <2>2, <2>5
<1>3. ASSUME NEW m \in 1 .. n, m - 1 \in S
      PROVE  m \in S
  <2>1. PICK f : Runs(f, m - 1)
    BY <1>1, <1>3
  <2>2. PICK g : g = [k \in 0 .. m |-> IF k = m THEN F[<<m, f[m - 1]>>] ELSE f[k]]
    OBVIOUS
  <2>3. m - 1 \in 0 .. m - 1 /\ f[m - 1] \in D
    BY <2>1 DEF Iterates
  <2>4. F[<<m, f[m - 1]>>] \in D
    BY <2>3
  <2>5. g \in [0 .. m -> D]
    <3>1. \A k \in 0 .. m : k = m \/ k \in 0 .. m - 1
      OBVIOUS
    <3> QED
      BY <2>1, <2>2, <2>4, <3>1 DEF Iterates
  <2>6. g[0] = d
    BY <2>1, <2>2 DEF Iterates
  <2>7. ASSUME NEW k \in 1 .. m
        PROVE  g[k] = F[<<k, g[k - 1]>>]
    <3>1. k - 1 \in 0 .. m /\ k - 1 # m /\ g[k - 1] = f[k - 1]
      BY <2>2
    <3>2. CASE k = m
      BY <2>2, <3>1, <3>2
    <3>3. CASE k # m
      <4>1. k \in 1 .. m - 1 /\ g[k] = f[k]
        BY <2>2, <3>3
      <4> QED
        BY <2>1, <3>1, <4>1 DEF Iterates
    <3> QED
      BY <3>2, <3>3
  <2>8. Runs(g, m)
    BY <2>5, <2>6, <2>7 DEF Iterates
  <2> HIDE DEF Runs
  <2>9. \E h : Runs(h, m)
    BY <2>8
  <2> QED
    BY <1>1, <2>9
<1>4. n \in S
  <2>1. \A k \in 0 .. n : k \in S
    BY <1>2, <1>3, IntervalInduction
  <2> QED
    BY <2>1
<1> QED
  BY <1>1, <1>4

-----------------------------------------------------------------------------
(* The network: one message more, one that arrives, one that is lost. *)

LEMMA FlyingKeepsOrder ==
    ASSUME NEW M, NEW f \in Seq(M), NEW m \in M, NEW R
    PROVE  /\ Flying(f, m) \in Seq(M)
           /\ Elements(Flying(f, m)) \subseteq Elements(f) \cup {m}
           /\ Sorted(f, R) /\ Before(Elements(f), {m}, R)
                 => Sorted(Flying(f, m), R)
<1>1. CASE Len(f) < MaxInFlight
  <2>1. Flying(f, m) = Append(f, m)
    BY <1>1 DEF Flying
  <2>2. /\ Append(f, m) \in Seq(M)
        /\ Elements(Append(f, m)) = Elements(f) \cup {m}
        /\ Sorted(f, R) /\ Before(Elements(f), {m}, R) => Sorted(Append(f, m), R)
    BY AppendKeepsOrder
  <2> QED
    BY <2>1, <2>2
<1>2. CASE ~(Len(f) < MaxInFlight)
  <2>1. f # <<>>
    BY <1>2, EmptySeq, SendPathAssumption
  <2>2. /\ Tail(f) \in Seq(M)
        /\ Elements(Tail(f)) \subseteq Elements(f)
        /\ Sorted(f, R) => Sorted(Tail(f), R)
    BY <2>1, TailKeepsOrder
  <2>3. Flying(f, m) = Append(Tail(f), m)
    BY <1>2 DEF Flying
  <2>4. Before(Elements(f), {m}, R) => Before(Elements(Tail(f)), {m}, R)
    BY <2>2 DEF Before
  <2> DEFINE g == Tail(f)
  <2> HIDE DEF g
  <2>5. /\ Append(g, m) \in Seq(M)
        /\ Elements(Append(g, m)) = Elements(g) \cup {m}
        /\ Sorted(g, R) /\ Before(Elements(g), {m}, R) => Sorted(Append(g, m), R)
    BY <2>2, AppendKeepsOrder DEF g
  <2> QED
    BY <2>2, <2>3, <2>4, <2>5 DEF g
<1> QED
  BY <1>1, <1>2

LEMMA ArrivalKeepsOrder ==
    ASSUME NEW M, NEW f \in Seq(M), NEW i \in 1 .. Len(f), NEW R
    PROVE  /\ AfterArrival(f, i) \in Seq(M)
           /\ f[i] \in Elements(f) /\ f[i] \in M
           /\ Elements(AfterArrival(f, i)) \subseteq Elements(f)
           /\ Sorted(f, R) => Sorted(AfterArrival(f, i), R)
           /\ Sorted(f, R) => Before({f[i]}, Elements(AfterArrival(f, i)), R)
<1>1. i \in 0 .. Len(f) /\ i > 0 /\ f[i] \in M
  BY LenProperties, ElementOfSeq
<1>2. f[i] \in Elements(f)
  BY DEF Elements
<1> DEFINE t == SubSeq(f, i + 1, Len(f))
<1>3. /\ t \in Seq(M)
      /\ Elements(t) \subseteq Elements(f)
      /\ Sorted(f, R) => Sorted(t, R)
      /\ Sorted(f, R) => Before({f[i]}, Elements(t), R)
  BY <1>1, SuffixKeepsOrder
<1> QED
  BY <1>1, <1>2, <1>3 DEF AfterArrival

LEMMA LossKeepsOrder ==
    ASSUME NEW M, NEW f \in Seq(M), NEW i \in 1 .. Len(f), NEW R
    PROVE  /\ AfterLoss(f, i) \in Seq(M)
           /\ Elements(AfterLoss(f, i)) \subseteq Elements(f)
           /\ Sorted(f, R) => Sorted(AfterLoss(f, i), R)
<1> DEFINE a == SubSeq(f, 1, i - 1)
           b == AfterArrival(f, i)
           t == AfterLoss(f, i)
<1>1. Len(f) \in Nat /\ i \in 1 .. Len(f)
  BY LenProperties
<1>2. a \in Seq(M) /\ Len(a) = i - 1 /\ \A j \in 1 .. i - 1 : a[j] = f[j]
  <2>1. \A j \in 1 .. i - 1 : f[j] \in M
    BY <1>1, ElementOfSeq
  <2>2. /\ a \in Seq(M)
        /\ Len(a) = IF 1 <= i - 1 THEN i - 1 - 1 + 1 ELSE 0
        /\ \A j \in 1 .. i - 1 - 1 + 1 : a[j] = f[1 + j - 1]
    BY <1>1, <2>1, SubSeqProperties
  <2>3. Len(a) = i - 1
    BY <1>1, <2>2
  <2>4. ASSUME NEW j \in 1 .. i - 1
        PROVE  a[j] = f[j]
    <3>1. j \in 1 .. i - 1 - 1 + 1 /\ 1 + j - 1 = j
      BY <1>1
    <3> QED
      BY <2>2, <3>1
  <2> QED
    BY <2>2, <2>3, <2>4
<1>3. b \in Seq(M) /\ Len(b) = Len(f) - i /\ \A j \in 1 .. Len(f) - i : b[j] = f[j + i]
  <2>1. i \in 0 .. Len(f)
    BY <1>1
  <2> QED
    BY <2>1, SuffixKeepsOrder DEF AfterArrival
<1> HIDE DEF a, b
<1>4. /\ t \in Seq(M) /\ Len(t) = Len(f) - 1
      /\ \A j \in 1 .. Len(f) - 1 : t[j] = IF j <= i - 1 THEN a[j] ELSE b[j - (i - 1)]
  <2>1. t = a \o b
    BY DEF AfterLoss, a, b
  <2>2. /\ t \in Seq(M) /\ Len(t) = Len(a) + Len(b)
        /\ \A j \in 1 .. Len(a) + Len(b) :
              t[j] = IF j <= Len(a) THEN a[j] ELSE b[j - Len(a)]
    <3>1. /\ a \o b \in Seq(M) /\ Len(a \o b) = Len(a) + Len(b)
          /\ \A j \in 1 .. Len(a) + Len(b) :
                (a \o b)[j] = IF j <= Len(a) THEN a[j] ELSE b[j - Len(a)]
      BY <1>2, <1>3, ConcatProperties
    <3> QED
      BY <2>1, <3>1
  <2>3. Len(a) + Len(b) = Len(f) - 1
    BY <1>1, <1>2, <1>3
  <2> QED
    BY <1>2, <2>2, <2>3
<1> HIDE DEF t
<1> DEFINE from(j) == IF j <= i - 1 THEN j ELSE j + 1
<1>5. ASSUME NEW j \in 1 .. Len(f) - 1
      PROVE  from(j) \in 1 .. Len(f) /\ t[j] = f[from(j)]
  <2>1. CASE j <= i - 1
    BY <1>1, <1>2, <1>4, <2>1
  <2>2. CASE ~(j <= i - 1)
    <3>1. j - (i - 1) \in 1 .. Len(f) - i /\ (j - (i - 1)) + i = j + 1
      BY <1>1, <2>2
    <3>2. t[j] = b[j - (i - 1)]
      BY <1>4, <2>2
    <3>3. b[j - (i - 1)] = f[j + 1]
      BY <1>3, <3>1
    <3>4. from(j) = j + 1 /\ j + 1 \in 1 .. Len(f)
      BY <1>1, <2>2
    <3> QED
      BY <3>2, <3>3, <3>4
  <2> QED
    BY <2>1, <2>2
<1>6. Len(t) = Len(f) - 1
  BY <1>4
<1>7. Elements(t) \subseteq Elements(f)
  BY <1>1, <1>5, <1>6 DEF Elements
<1>8. ASSUME Sorted(f, R)
      PROVE  Sorted(t, R)
  <2> SUFFICES ASSUME NEW j \in 1 .. Len(t), NEW k \in 1 .. Len(t), j < k
               PROVE  <<t[j], t[k]>> \in R
    BY DEF Sorted
  <2>1. from(j) < from(k)
    BY <1>1, <1>6
  <2>2. /\ from(j) \in 1 .. Len(f) /\ t[j] = f[from(j)]
        /\ from(k) \in 1 .. Len(f) /\ t[k] = f[from(k)]
    BY <1>1, <1>5, <1>6
  <2> HIDE DEF from
  <2> QED
    BY <1>8, <2>1, <2>2 DEF Sorted
<1> QED
  BY <1>4, <1>7, <1>8 DEF t

-----------------------------------------------------------------------------
(* The send path holds messages of M.                                       *)
PathOf(M) ==
    {s \in [left : Nat, current : Seq(M), queue : Seq(M), flight : Seq(M)] :
        Len(s.current) = IF s.left > 0 THEN 1 ELSE 0}

(* M is a set of messages that SV_Netchan_Encode maps into itself.          *)
IsEncodable(M, key) ==
    \A m \in M : m.datagrams \in Nat \ {0} /\ [m EXCEPT !.key = key] \in M

(* The messages on their way, in the order in which they will arrive.       *)
InOrder(s, R) ==
    /\ Sorted(s.flight, R) /\ Sorted(s.queue, R)
    /\ Before(Elements(s.flight), Elements(s.current), R)
    /\ Before(Elements(s.flight), Elements(s.queue), R)
    /\ Before(Elements(s.current), Elements(s.queue), R)

(* The order does not look at the key.                                      *)
IgnoresKey(M, R, key) ==
    \A x, y \in M :
        <<x, y>> \in R => /\ <<[x EXCEPT !.key = key], y>> \in R
                          /\ <<x, [y EXCEPT !.key = key]>> \in R

OnPath(s) == Elements(s.flight) \cup Elements(s.current) \cup Elements(s.queue)

LEMMA PathParts ==
    ASSUME NEW M, NEW s \in PathOf(M)
    PROVE  /\ s.left \in Nat /\ s.current \in Seq(M)
           /\ s.queue \in Seq(M) /\ s.flight \in Seq(M)
           /\ Elements(s.flight) \subseteq M
           /\ Elements(s.current) \subseteq M
           /\ Elements(s.queue) \subseteq M
           /\ s.left > 0 => /\ Len(s.current) = 1 /\ s.current[1] \in M
                            /\ Elements(s.current) = {s.current[1]}
           /\ s.left = 0 => s.current = <<>> /\ Elements(s.current) = {}
<1>1. /\ s.left \in Nat /\ s.current \in Seq(M)
      /\ s.queue \in Seq(M) /\ s.flight \in Seq(M)
      /\ Len(s.current) = IF s.left > 0 THEN 1 ELSE 0
  BY DEF PathOf
<1>2. /\ Elements(s.flight) \subseteq M
      /\ Elements(s.current) \subseteq M
      /\ Elements(s.queue) \subseteq M
  BY <1>1, ElementsType
<1>3. ASSUME s.left > 0
      PROVE  /\ Len(s.current) = 1 /\ s.current[1] \in M
             /\ Elements(s.current) = {s.current[1]}
  <2>1. Len(s.current) = 1
    BY <1>1, <1>3
  <2>2. Elements(s.current) = {s.current[1]}
    BY <2>1 DEF Elements
  <2> QED
    BY <1>2, <2>1, <2>2
<1>4. ASSUME s.left = 0
      PROVE  s.current = <<>> /\ Elements(s.current) = {}
  <2>1. Len(s.current) = 0
    BY <1>1, <1>4
  <2>2. s.current = <<>>
    BY <1>1, <2>1, EmptySeq
  <2>3. Elements(s.current) = {}
    BY <2>1 DEF Elements
  <2> QED
    BY <2>2, <2>3
<1> QED
  BY <1>1, <1>2, <1>3, <1>4

(* Netchan_Transmit of an idle path: the message is in flight, or it is the *)
(* current one.                                                             *)
LEMMA TransmittedPath ==
    ASSUME NEW M, NEW key, IsEncodable(M, key), NEW s \in PathOf(M), NEW m \in M,
           s.left = 0,
           NEW t, t = Transmitted(s, m, key), NEW e, e = [m EXCEPT !.key = key]
    PROVE  /\ t \in PathOf(M) /\ e \in M
           /\ t.queue = s.queue
           /\ \/ m.datagrams = 1 /\ t.left = 0 /\ t.current = <<>>
                 /\ t.flight = Flying(s.flight, e)
              \/ m.datagrams > 1 /\ t.left = m.datagrams - 1
                 /\ t.current = <<e>> /\ t.flight = s.flight
<1>1. m.datagrams \in Nat \ {0} /\ e \in M
  BY DEF IsEncodable
<1>2. /\ s.left \in Nat /\ s.current = <<>>
      /\ s.queue \in Seq(M) /\ s.flight \in Seq(M)
      /\ s \in [left : Nat, current : Seq(M), queue : Seq(M), flight : Seq(M)]
      /\ Len(s.current) = 0
  BY PathParts DEF PathOf
<1>3. CASE m.datagrams = 1
  <2>1. Flying(s.flight, e) \in Seq(M)
    BY <1>1, <1>2, FlyingKeepsOrder
  <2>2. t = [s EXCEPT !.flight = Flying(s.flight, e)]
    BY <1>3 DEF Transmitted
  <2>3. /\ t \in [left : Nat, current : Seq(M), queue : Seq(M), flight : Seq(M)]
        /\ t.left = s.left /\ t.current = s.current /\ t.queue = s.queue
        /\ t.flight = Flying(s.flight, e)
    BY <1>2, <2>1, <2>2
  <2>4. t \in PathOf(M)
    BY <1>2, <2>3 DEF PathOf
  <2> QED
    BY <1>1, <1>2, <1>3, <2>3, <2>4
<1>4. CASE m.datagrams # 1
  <2>1. <<e>> \in Seq(M) /\ Len(<<e>>) = 1
    BY <1>1
  <2>2. m.datagrams - 1 \in Nat /\ m.datagrams - 1 > 0 /\ m.datagrams > 1
    BY <1>1, <1>4
  <2>3. t = [s EXCEPT !.left = m.datagrams - 1, !.current = <<e>>]
    BY <1>4 DEF Transmitted
  <2>4. /\ t \in [left : Nat, current : Seq(M), queue : Seq(M), flight : Seq(M)]
        /\ t.left = m.datagrams - 1 /\ t.current = <<e>> /\ t.queue = s.queue
        /\ t.flight = s.flight
    BY <1>2, <2>1, <2>2, <2>3
  <2>5. t \in PathOf(M)
    BY <2>1, <2>2, <2>4 DEF PathOf
  <2> QED
    BY <1>1, <2>2, <2>4, <2>5
<1> QED
  BY <1>3, <1>4

(* Netchan_TransmitNextFragment: the last fragment puts the current message *)
(* in flight.                                                               *)
LEMMA FragmentSentPath ==
    ASSUME NEW M, NEW s \in PathOf(M), s.left > 0, NEW t, t = FragmentSent(s)
    PROVE  /\ t \in PathOf(M)
           /\ t.queue = s.queue
           /\ \/ s.left > 1 /\ t.left = s.left - 1
                 /\ t.current = s.current /\ t.flight = s.flight
              \/ s.left = 1 /\ t.left = 0 /\ t.current = <<>>
                 /\ t.flight = Flying(s.flight, s.current[1])
<1>1. /\ s.left \in Nat /\ s.flight \in Seq(M) /\ s.current \in Seq(M)
      /\ s \in [left : Nat, current : Seq(M), queue : Seq(M), flight : Seq(M)]
      /\ Len(s.current) = 1 /\ s.current[1] \in M
  BY PathParts DEF PathOf
<1>2. CASE s.left > 1
  <2>1. t = [s EXCEPT !.left = s.left - 1]
    BY <1>2 DEF FragmentSent
  <2>2. s.left - 1 \in Nat /\ s.left - 1 > 0
    BY <1>1, <1>2
  <2>3. /\ t \in [left : Nat, current : Seq(M), queue : Seq(M), flight : Seq(M)]
        /\ t.left = s.left - 1 /\ t.current = s.current /\ t.queue = s.queue
        /\ t.flight = s.flight
    BY <1>1, <2>1, <2>2
  <2>4. t \in PathOf(M)
    BY <1>1, <2>2, <2>3 DEF PathOf
  <2> QED
    BY <1>2, <2>3, <2>4
<1>3. CASE ~(s.left > 1)
  <2>1. s.left = 1
    BY <1>1, <1>3
  <2> DEFINE f == Flying(s.flight, s.current[1])
  <2>2. f \in Seq(M)
    <3> DEFINE e == s.current[1]
               g == s.flight
    <3>1. e \in M /\ g \in Seq(M)
      BY <1>1
    <3> HIDE DEF e, g
    <3>2. Flying(g, e) \in Seq(M)
      BY <3>1, FlyingKeepsOrder
    <3> QED
      BY <3>2 DEF e, g
  <2>6. <<>> \in Seq(M) /\ Len(<<>>) = 0
    BY EmptySeq
  <2>3. t = [s EXCEPT !.left = 0, !.current = <<>>, !.flight = f]
    BY <1>3 DEF FragmentSent
  <2> HIDE DEF f
  <2>4. /\ t \in [left : Nat, current : Seq(M), queue : Seq(M), flight : Seq(M)]
        /\ t.left = 0 /\ t.current = <<>> /\ t.queue = s.queue
        /\ t.flight = f
    <3> DEFINE none == <<>>
    <3>1. none \in Seq(M) /\ t = [s EXCEPT !.left = 0, !.current = none, !.flight = f]
      BY <2>6, <2>3
    <3> HIDE DEF none
    <3>2. /\ t \in [left : Nat, current : Seq(M), queue : Seq(M), flight : Seq(M)]
          /\ t.left = 0 /\ t.current = none /\ t.queue = s.queue
          /\ t.flight = f
      <4>1. /\ s \in [left : Nat, current : Seq(M), queue : Seq(M), flight : Seq(M)]
            /\ 0 \in Nat
        BY <1>1
      <4> QED
        BY <4>1, <2>2, <3>1
    <3> QED
      BY <3>2 DEF none
  <2>5. t \in PathOf(M)
    BY <2>6, <2>4 DEF PathOf
  <2> QED
    BY <2>1, <2>4, <2>5 DEF f
<1> QED
  BY <1>2, <1>3

(* SV_Netchan_TransmitNextFragment: a fragment is sent, and behind the last *)
(* one the queue's first message is encoded and transmitted.                *)
LEMMA NextFragmentPath ==
    ASSUME NEW M, NEW key, IsEncodable(M, key), NEW s \in PathOf(M), s.left > 0,
           NEW f, f = FragmentSent(s),
           NEW u, u = Transmitted(f, Head(f.queue), key),
           NEW t, t = SvTransmitNextFragment(s, key)
    PROVE  /\ f \in PathOf(M) /\ t \in PathOf(M)
           /\ \/ (f.left > 0 \/ f.queue = <<>>) /\ t = f
              \/ /\ f.left = 0 /\ f.queue # <<>>
                 /\ Head(f.queue) \in M /\ u \in PathOf(M)
                 /\ t.left = u.left /\ t.current = u.current
                 /\ t.flight = u.flight /\ t.queue = Tail(f.queue)
<1> DEFINE m == Head(f.queue)
           q == Tail(f.queue)
<1>1. f \in PathOf(M)
  BY FragmentSentPath
<1>2. f.left \in Nat /\ f.queue \in Seq(M)
  BY <1>1, PathParts
<1>3. CASE f.left > 0 \/ f.queue = <<>>
  <2>1. t = f
    BY <1>2, <1>3 DEF SvTransmitNextFragment
  <2> QED
    BY <1>1, <1>3, <2>1
<1>4. CASE f.left = 0 /\ f.queue # <<>>
  <2>1. m \in M /\ q \in Seq(M)
    BY <1>2, <1>4, TailKeepsOrder
  <2> HIDE DEF m
  <2>2. u \in PathOf(M) /\ u.queue = f.queue
    <3>1. f.left = 0 /\ u = Transmitted(f, m, key)
      BY <1>4 DEF m
    <3>2. PICK e : e = [m EXCEPT !.key = key]
      OBVIOUS
    <3> QED
      BY <1>1, <2>1, <3>1, <3>2, TransmittedPath
  <2>3. t = [u EXCEPT !.queue = Tail(u.queue)]
    BY <1>4 DEF SvTransmitNextFragment
  <2>4. t = [u EXCEPT !.queue = q]
    BY <2>2, <2>3
  <2> HIDE DEF q
  <2>5. /\ u \in [left : Nat, current : Seq(M), queue : Seq(M), flight : Seq(M)]
        /\ Len(u.current) = IF u.left > 0 THEN 1 ELSE 0
    BY <2>2 DEF PathOf
  <2>6. /\ t \in [left : Nat, current : Seq(M), queue : Seq(M), flight : Seq(M)]
        /\ t.left = u.left /\ t.current = u.current /\ t.flight = u.flight
        /\ t.queue = q
    BY <2>1, <2>4, <2>5
  <2>7. t \in PathOf(M)
    BY <2>5, <2>6 DEF PathOf
  <2> QED
    BY <1>1, <1>4, <2>1, <2>2, <2>6, <2>7 DEF m, q
<1> QED
  BY <1>2, <1>3, <1>4

(* SV_Netchan_Transmit. *)
LEMMA TransmitPath ==
    ASSUME NEW M, NEW key, IsEncodable(M, key), NEW s \in PathOf(M), NEW m \in M,
           NEW f, f = FragmentSent(s), NEW t, t = SvTransmit(s, m, key)
    PROVE  /\ t \in PathOf(M)
           /\ \/ s.left = 0 /\ t = Transmitted(s, m, key)
              \/ /\ s.left > 0 /\ f \in PathOf(M)
                 /\ t.left = f.left /\ t.current = f.current
                 /\ t.flight = f.flight /\ t.queue = Append(f.queue, m)
<1>1. s.left \in Nat
  BY PathParts
<1>2. CASE s.left = 0
  <2>1. t = Transmitted(s, m, key)
    BY <1>2 DEF SvTransmit
  <2>2. t \in PathOf(M)
    BY <1>2, <2>1, TransmittedPath
  <2> QED
    BY <1>2, <2>1, <2>2
<1>3. CASE s.left > 0
  <2>1. f \in PathOf(M)
    BY <1>3, FragmentSentPath
  <2> DEFINE q == Append(f.queue, m)
  <2>2. t = [f EXCEPT !.queue = q]
    BY <1>3 DEF SvTransmit
  <2>3. /\ f \in [left : Nat, current : Seq(M), queue : Seq(M), flight : Seq(M)]
        /\ Len(f.current) = IF f.left > 0 THEN 1 ELSE 0
    BY <2>1 DEF PathOf
  <2>4. q \in Seq(M)
    BY <2>3, AppendProperties
  <2> HIDE DEF q
  <2>5. /\ t \in [left : Nat, current : Seq(M), queue : Seq(M), flight : Seq(M)]
        /\ t.left = f.left /\ t.current = f.current /\ t.flight = f.flight
        /\ t.queue = q
    BY <2>2, <2>3, <2>4
  <2>6. t \in PathOf(M)
    BY <2>3, <2>5 DEF PathOf
  <2> QED
    BY <1>3, <2>1, <2>5, <2>6 DEF q
<1> QED
  BY <1>1, <1>2, <1>3

-----------------------------------------------------------------------------
(* What is on the path stays in order.                                       *)

(* A message that comes after all of flight, on an idle path.                *)
LEMMA TransmittedInOrder ==
    ASSUME NEW M, NEW key, IsEncodable(M, key), NEW R, IgnoresKey(M, R, key),
           NEW s \in PathOf(M), NEW m \in M, s.left = 0,
           NEW t, t = Transmitted(s, m, key),
           Sorted(s.flight, R), Before(Elements(s.flight), {m}, R),
           NEW B \in SUBSET M, Before(Elements(s.flight) \cup {m}, B, R)
    PROVE  /\ Sorted(t.flight, R)
           /\ Before(Elements(t.flight), Elements(t.current), R)
           /\ Before(Elements(t.flight), B, R)
           /\ Before(Elements(t.current), B, R)
<1>1. PICK e : e = [m EXCEPT !.key = key]
  OBVIOUS
<1>2. /\ e \in M
      /\ \/ t.current = <<>> /\ t.flight = Flying(s.flight, e)
         \/ t.current = <<e>> /\ t.flight = s.flight
  BY <1>1, TransmittedPath
<1>3. s.flight \in Seq(M) /\ Elements(s.flight) \subseteq M
  BY PathParts
<1>4. Before(Elements(s.flight), {e}, R) /\ Before({e}, B, R)
      /\ Before(Elements(s.flight), B, R)
  BY <1>1, <1>3 DEF Before, IgnoresKey
<1>5. CASE t.current = <<>> /\ t.flight = Flying(s.flight, e)
  <2>1. /\ Elements(t.flight) \subseteq Elements(s.flight) \cup {e}
        /\ Sorted(t.flight, R)
    <3>1. PICK g : g = s.flight
      OBVIOUS
    <3>2. g \in Seq(M) /\ Sorted(g, R) /\ Before(Elements(g), {e}, R) /\ e \in M
      BY <1>2, <1>3, <1>4, <3>1
    <3>3. /\ Elements(Flying(g, e)) \subseteq Elements(g) \cup {e}
          /\ Sorted(Flying(g, e), R)
      BY <3>2, FlyingKeepsOrder
    <3> QED
      BY <1>5, <3>1, <3>3
  <2>2. Elements(t.current) = {}
    BY <1>5, EmptySeq DEF Elements
  <2> QED
    BY <1>4, <2>1, <2>2 DEF Before
<1>6. CASE t.current = <<e>> /\ t.flight = s.flight
  <2>1. Elements(t.current) = {e}
    BY <1>6 DEF Elements
  <2> QED
    BY <1>4, <1>6, <2>1
<1> QED
  BY <1>2, <1>5, <1>6

LEMMA FragmentInOrder ==
    ASSUME NEW M, NEW R, NEW s \in PathOf(M), s.left > 0,
           NEW f, f = FragmentSent(s), InOrder(s, R)
    PROVE  InOrder(f, R) /\ OnPath(f) \subseteq OnPath(s)
<1>1. /\ f.queue = s.queue
      /\ \/ f.current = s.current /\ f.flight = s.flight
         \/ f.current = <<>> /\ f.flight = Flying(s.flight, s.current[1])
  BY FragmentSentPath
<1>2. CASE f.current = s.current /\ f.flight = s.flight
  BY <1>1, <1>2 DEF InOrder, OnPath
<1>3. CASE f.current = <<>> /\ f.flight = Flying(s.flight, s.current[1])
  <2>1. PICK e : e = s.current[1]
    OBVIOUS
  <2>2. e \in M /\ Elements(s.current) = {e} /\ s.flight \in Seq(M)
    BY <2>1, PathParts
  <2>3. /\ Elements(f.flight) \subseteq Elements(s.flight) \cup {e}
        /\ Sorted(f.flight, R)
    <3>1. PICK g : g = s.flight
      OBVIOUS
    <3>2. g \in Seq(M) /\ Sorted(g, R) /\ Before(Elements(g), {e}, R) /\ e \in M
      BY <2>2, <3>1 DEF InOrder
    <3>3. /\ Elements(Flying(g, e)) \subseteq Elements(g) \cup {e}
          /\ Sorted(Flying(g, e), R)
      BY <3>2, FlyingKeepsOrder
    <3> QED
      BY <1>3, <2>1, <3>1, <3>3
  <2>4. Elements(f.current) = {}
    BY <1>3, EmptySeq DEF Elements
  <2> QED
    BY <1>1, <2>2, <2>3, <2>4 DEF InOrder, OnPath, Before
<1> QED
  BY <1>1, <1>2, <1>3

LEMMA NextFragmentInOrder ==
    ASSUME NEW M, NEW key, IsEncodable(M, key), NEW R, IgnoresKey(M, R, key),
           NEW s \in PathOf(M), s.left > 0, InOrder(s, R)
    PROVE  InOrder(SvTransmitNextFragment(s, key), R)
<1>1. PICK f : f = FragmentSent(s)
  OBVIOUS
<1>2. PICK m : m = Head(f.queue)
  OBVIOUS
<1>3. PICK u : u = Transmitted(f, m, key)
  OBVIOUS
<1>4. PICK t : t = SvTransmitNextFragment(s, key)
  OBVIOUS
<1>5. /\ f \in PathOf(M) /\ t \in PathOf(M)
      /\ \/ t = f
         \/ /\ f.left = 0 /\ f.queue # <<>>
            /\ m \in M
            /\ t.current = u.current
            /\ t.flight = u.flight /\ t.queue = Tail(f.queue)
  BY <1>1, <1>2, <1>3, <1>4, NextFragmentPath
<1>6. InOrder(f, R)
  BY <1>1, FragmentInOrder
<1>7. ASSUME f.left = 0, f.queue # <<>>, m \in M, t.current = u.current,
             t.flight = u.flight, t.queue = Tail(f.queue)
      PROVE  InOrder(t, R)
  <2> DEFINE B == Elements(Tail(f.queue))
  <2>1. f.queue \in Seq(M) /\ Elements(f.queue) \subseteq M
    BY <1>5, PathParts
  <2>2. /\ B \subseteq Elements(f.queue) /\ m \in Elements(f.queue)
        /\ Sorted(Tail(f.queue), R) /\ Before({m}, B, R)
    BY <1>2, <1>6, <1>7, <2>1, TailKeepsOrder DEF InOrder
  <2> HIDE DEF B
  <2>3. /\ Before(Elements(f.flight), {m}, R) /\ Sorted(f.flight, R)
        /\ Before(Elements(f.flight) \cup {m}, B, R) /\ B \in SUBSET M
    BY <1>6, <2>1, <2>2 DEF InOrder, Before
  <2>4. /\ Sorted(u.flight, R)
        /\ Before(Elements(u.flight), Elements(u.current), R)
        /\ Before(Elements(u.flight), B, R)
        /\ Before(Elements(u.current), B, R)
    <3>1. f \in PathOf(M) /\ m \in M /\ f.left = 0
      BY <1>5, <1>7
    <3> QED
      BY <1>3, <2>3, <3>1, TransmittedInOrder
  <2> QED
    BY <1>7, <2>2, <2>4 DEF InOrder, B
<1> QED
  BY <1>4, <1>5, <1>6, <1>7

LEMMA TransmitInOrder ==
    ASSUME NEW M, NEW key, IsEncodable(M, key), NEW R, IgnoresKey(M, R, key),
           NEW s \in PathOf(M), NEW m \in M, InOrder(s, R), ~Strands(s),
           Before(OnPath(s), {m}, R)
    PROVE  InOrder(SvTransmit(s, m, key), R)
<1>1. PICK f : f = FragmentSent(s)
  OBVIOUS
<1>2. PICK t : t = SvTransmit(s, m, key)
  OBVIOUS
<1>3. \/ s.left = 0 /\ t = Transmitted(s, m, key)
      \/ /\ s.left > 0 /\ f \in PathOf(M) /\ t.current = f.current
         /\ t.flight = f.flight /\ t.queue = Append(f.queue, m)
  BY <1>1, <1>2, TransmitPath
<1>4. CASE s.left = 0 /\ t = Transmitted(s, m, key)
  <2>1. PICK e : e = [m EXCEPT !.key = key]
    OBVIOUS
  <2>2. t.queue = <<>>
    <3>1. s.queue = <<>>
      BY <1>4 DEF Strands
    <3>2. t.queue = s.queue
      BY <1>4, <2>1, TransmittedPath
    <3> QED
      BY <3>1, <3>2
  <2>3. Elements(t.queue) = {} /\ Sorted(t.queue, R)
    BY <2>2, EmptySeq DEF Elements, Sorted
  <2>4. /\ Sorted(s.flight, R) /\ Before(Elements(s.flight), {m}, R)
        /\ {} \in SUBSET M /\ Before(Elements(s.flight) \cup {m}, {}, R)
    BY DEF InOrder, Before, OnPath
  <2>5. /\ Sorted(t.flight, R)
        /\ Before(Elements(t.flight), Elements(t.current), R)
    BY <1>4, <2>4, TransmittedInOrder
  <2>6. InOrder(t, R)
    BY <2>3, <2>5 DEF InOrder, Before
  <2> QED
    BY <1>2, <2>6
<1>5. CASE /\ s.left > 0 /\ f \in PathOf(M) /\ t.current = f.current
           /\ t.flight = f.flight /\ t.queue = Append(f.queue, m)
  <2>1. InOrder(f, R) /\ OnPath(f) \subseteq OnPath(s)
    BY <1>1, <1>5, FragmentInOrder
  <2>2. f.queue \in Seq(M)
    BY <1>5, PathParts
  <2>3. Before(OnPath(f), {m}, R)
    BY <2>1 DEF Before
  <2>4. Before(Elements(f.queue), {m}, R) /\ Sorted(f.queue, R)
    BY <2>1, <2>3 DEF Before, InOrder, OnPath
  <2>5. /\ Elements(t.queue) = Elements(f.queue) \cup {m}
        /\ Sorted(t.queue, R)
    <3>1. PICK q : q = f.queue
      OBVIOUS
    <3>2. q \in Seq(M) /\ Sorted(q, R) /\ Before(Elements(q), {m}, R)
      BY <2>2, <2>4, <3>1
    <3>3. /\ Elements(Append(q, m)) = Elements(q) \cup {m}
          /\ Sorted(Append(q, m), R)
      BY <3>2, AppendKeepsOrder
    <3> QED
      BY <1>5, <3>1, <3>3
  <2>6. InOrder(t, R)
    BY <1>5, <2>1, <2>3, <2>5 DEF InOrder, Before, OnPath
  <2> QED
    BY <1>2, <2>6
<1> QED
  BY <1>3, <1>4, <1>5

-----------------------------------------------------------------------------
(* A path whose messages are all of N. *)
LEMMA PathWithin ==
    ASSUME NEW M, NEW N, NEW s \in PathOf(M), OnPath(s) \subseteq N
    PROVE  s \in PathOf(N)
<1>1. /\ s \in [left : Nat, current : Seq(M), queue : Seq(M), flight : Seq(M)]
      /\ Len(s.current) = IF s.left > 0 THEN 1 ELSE 0
  BY DEF PathOf
<1>2. s.current \in Seq(N) /\ s.queue \in Seq(N) /\ s.flight \in Seq(N)
  BY <1>1, SequenceWithin DEF OnPath
<1>3. s \in [left : Nat, current : Seq(N), queue : Seq(N), flight : Seq(N)]
  BY <1>1, <1>2
<1> QED
  BY <1>1, <1>3 DEF PathOf

LEMMA PathOfMore ==
    ASSUME NEW M, NEW N, NEW s \in PathOf(M), M \subseteq N
    PROVE  s \in PathOf(N)
  BY PathParts, PathWithin DEF OnPath

LEMMA OnPathType ==
    ASSUME NEW M, NEW s \in PathOf(M)
    PROVE  OnPath(s) \subseteq M
  BY PathParts DEF OnPath

(* A message arrives or is lost. *)
LEMMA FlightChanges ==
    ASSUME NEW M, NEW R, NEW s \in PathOf(M), NEW g \in Seq(M),
           Elements(g) \subseteq Elements(s.flight),
           NEW t \in [left : Nat, current : Seq(M), queue : Seq(M), flight : Seq(M)],
           t.left = s.left, t.current = s.current, t.queue = s.queue, t.flight = g
    PROVE  /\ t \in PathOf(M)
           /\ OnPath(t) \subseteq OnPath(s)
           /\ InOrder(s, R) /\ Sorted(g, R) => InOrder(t, R)
<1>1. t \in PathOf(M)
  BY DEF PathOf
<1>2. OnPath(t) \subseteq OnPath(s)
  BY DEF OnPath
<1>3. InOrder(s, R) /\ Sorted(g, R) => InOrder(t, R)
  BY DEF InOrder, Before
<1> QED
  BY <1>1, <1>2, <1>3
=============================================================================
