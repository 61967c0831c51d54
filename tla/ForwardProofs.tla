---------------------------- MODULE ForwardProofs ----------------------------
(***************************************************************************)
(* The forwarding programs, proved to implement a FIFO queue of packets in *)
(* each direction, for every number of buffers, every ring, deque and      *)
(* batch size and every set of packets.                                    *)
(***************************************************************************)
EXTENDS WorkerProofs, SequenceTheorems

-----------------------------------------------------------------------------
(* Sequences.                                                              *)

\* The library's facts, for the provers to cite.
LEMMA Joined ==
  ASSUME NEW a \in Seq(Buf), NEW b \in Seq(Buf)
  PROVE  /\ a \o b \in Seq(Buf) /\ Len(a \o b) = Len(a) + Len(b)
         /\ \A i \in 1 .. Len(a) + Len(b) :
              (a \o b)[i] = IF i <= Len(a) THEN a[i] ELSE b[i - Len(a)]
BY ConcatProperties

LEMMA Regrouped ==
  ASSUME NEW a \in Seq(Buf), NEW b \in Seq(Buf), NEW c \in Seq(Buf)
  PROVE  (a \o b) \o c = a \o (b \o c)
BY ConcatAssociative

\* A prefix and the rest.
LEMMA SplitJoin ==
  ASSUME NEW s \in Seq(Buf), NEW n \in 0 .. Len(s)
  PROVE  /\ SubSeq(s, 1, n) \in Seq(Buf) /\ SubSeq(s, n + 1, Len(s)) \in Seq(Buf)
         /\ SubSeq(s, 1, n) \o SubSeq(s, n + 1, Len(s)) = s
<1>1. Len(s) \in Nat
  BY LenProperties
<1>2. 1 \in 1 .. Len(s) + 1 /\ n \in 1 - 1 .. Len(s) /\ Len(s) \in n .. Len(s)
  BY <1>1
<1>3. SubSeq(s, 1, n) \o SubSeq(s, n + 1, Len(s)) = SubSeq(s, 1, Len(s))
  BY <1>2, ConcatAdjacentSubSeq
<1>4. SubSeq(s, 1, Len(s)) = s
  BY SubSeqFull
<1>5. SubSeq(s, 1, n) \in Seq(Buf) /\ SubSeq(s, n + 1, Len(s)) \in Seq(Buf)
  BY <1>1
<1> QED BY <1>3, <1>4, <1>5

\* A prefix of s that moves to the end of what is before it.
LEMMA NextMoved ==
  ASSUME NEW b \in Seq(Buf), NEW s \in Seq(Buf), NEW n \in 0 .. Len(s)
  PROVE  (b \o SubSeq(s, 1, n)) \o SubSeq(s, n + 1, Len(s)) = b \o s
<1> DEFINE x == SubSeq(s, 1, n)
           y == SubSeq(s, n + 1, Len(s))
<1>1. x \in Seq(Buf) /\ y \in Seq(Buf) /\ x \o y = s
  BY SplitJoin
<1> HIDE DEF x, y
<1>2. (b \o x) \o y = b \o (x \o y)
  BY <1>1, Regrouped
<1> QED BY <1>1, <1>2 DEF x, y

\* Taking the first element of a longer sequence.
LEMMA HeadJoin ==
  ASSUME NEW a \in Seq(Buf), NEW b \in Seq(Buf), a # <<>>
  PROVE  /\ a \o b # <<>> /\ Head(a \o b) = Head(a) /\ Tail(a) \in Seq(Buf)
         /\ Tail(a \o b) = Tail(a) \o b
<1>1. /\ Len(a) \in Nat /\ Len(b) \in Nat /\ Len(a) >= 1
      /\ Tail(a) \in Seq(Buf) /\ Len(Tail(a)) = Len(a) - 1
      /\ \A i \in 1 .. Len(a) - 1 : Tail(a)[i] = a[i + 1]
  BY LenProperties, EmptySeq, HeadTailProperties
<1>2. /\ a \o b \in Seq(Buf) /\ Len(a \o b) = Len(a) + Len(b)
      /\ \A i \in 1 .. Len(a) + Len(b) :
           (a \o b)[i] = IF i <= Len(a) THEN a[i] ELSE b[i - Len(a)]
  BY ConcatProperties
<1>3. a \o b # <<>>
  BY <1>1, <1>2, EmptySeq
<1>4. Head(a \o b) = Head(a)
  <2>1. (a \o b)[1] = a[1]
    BY <1>1, <1>2
  <2> QED BY <1>2, <1>3, <2>1
<1>5. /\ Tail(a \o b) \in Seq(Buf) /\ Len(Tail(a \o b)) = Len(a) + Len(b) - 1
      /\ \A i \in 1 .. Len(a) + Len(b) - 1 : Tail(a \o b)[i] = (a \o b)[i + 1]
  BY <1>2, <1>3, HeadTailProperties
<1>6. /\ Tail(a) \o b \in Seq(Buf) /\ Len(Tail(a) \o b) = Len(a) - 1 + Len(b)
      /\ \A i \in 1 .. Len(a) - 1 + Len(b) :
           (Tail(a) \o b)[i] = IF i <= Len(a) - 1 THEN Tail(a)[i]
                               ELSE b[i - (Len(a) - 1)]
  BY <1>1, ConcatProperties
<1>7. Tail(a \o b) = Tail(a) \o b
  <2>1. Len(a) + Len(b) - 1 = Len(a) - 1 + Len(b)
    BY <1>1
  <2>2. ASSUME NEW i \in 1 .. Len(a) + Len(b) - 1
        PROVE  Tail(a \o b)[i] = (Tail(a) \o b)[i]
    <3>1. i + 1 \in 1 .. Len(a) + Len(b) /\ Tail(a \o b)[i] = (a \o b)[i + 1]
      BY <1>1, <1>5
    <3>2. CASE i <= Len(a) - 1
      <4>1. i + 1 <= Len(a) /\ i \in 1 .. Len(a) - 1 /\ i \in 1 .. Len(a) - 1 + Len(b)
        BY <1>1, <3>2
      <4> QED BY <1>1, <1>2, <1>6, <3>1, <3>2, <4>1
    <3>3. CASE ~(i <= Len(a) - 1)
      <4>1. /\ ~(i + 1 <= Len(a)) /\ i \in 1 .. Len(a) - 1 + Len(b)
            /\ i + 1 - Len(a) = i - (Len(a) - 1)
        BY <1>1, <3>3
      <4> QED BY <1>2, <1>6, <3>1, <3>3, <4>1
    <3> QED BY <3>2, <3>3
  <2> QED BY <1>5, <1>6, <2>1, <2>2, SeqEqual
<1> QED BY <1>1, <1>3, <1>4, <1>7

\* Four sequences, one after the other.
LEMMA FourJoined ==
  ASSUME NEW a \in Seq(Buf), NEW b \in Seq(Buf), NEW c \in Seq(Buf), NEW d \in Seq(Buf)
  PROVE  LET s == a \o b \o c \o d
             m == Len(a)
             n == m + Len(b)
             o == n + Len(c)
         IN  /\ a \o b \in Seq(Buf) /\ a \o b \o c \in Seq(Buf) /\ s \in Seq(Buf)
             /\ m \in Nat /\ n \in Nat /\ o \in Nat /\ Len(d) \in Nat
             /\ m <= n /\ n <= o /\ Len(s) = o + Len(d)
             /\ \A k \in 1 .. Len(s) :
                  \/ k \in DOMAIN a /\ s[k] = a[k]
                  \/ k - m \in DOMAIN b /\ s[k] = b[k - m] /\ m < k /\ k <= n
                  \/ k - n \in DOMAIN c /\ s[k] = c[k - n] /\ n < k /\ k <= o
                  \/ k - o \in DOMAIN d /\ s[k] = d[k - o] /\ o < k
<1> DEFINE ab == a \o b
           abc == ab \o c
           s == abc \o d
           m == Len(a)
           n == m + Len(b)
           o == n + Len(c)
<1>1. /\ m \in Nat /\ Len(b) \in Nat /\ Len(c) \in Nat /\ Len(d) \in Nat
      /\ DOMAIN a = 1 .. m /\ DOMAIN b = 1 .. Len(b)
      /\ DOMAIN c = 1 .. Len(c) /\ DOMAIN d = 1 .. Len(d)
  BY LenProperties
<1>2. n \in Nat /\ o \in Nat /\ m <= n /\ n <= o
  BY <1>1
<1>3. /\ ab \in Seq(Buf) /\ Len(ab) = n
      /\ \A k \in 1 .. n : ab[k] = IF k <= m THEN a[k] ELSE b[k - m]
  BY ConcatProperties
<1> HIDE DEF ab
<1>4. /\ abc \in Seq(Buf) /\ Len(abc) = o
      /\ \A k \in 1 .. o : abc[k] = IF k <= n THEN ab[k] ELSE c[k - n]
  <2>1. /\ abc \in Seq(Buf) /\ Len(abc) = Len(ab) + Len(c)
        /\ \A k \in 1 .. Len(ab) + Len(c) :
             abc[k] = IF k <= Len(ab) THEN ab[k] ELSE c[k - Len(ab)]
    BY <1>3, Joined
  <2> QED BY <1>3, <2>1
<1> HIDE DEF abc
<1>5. /\ s \in Seq(Buf) /\ Len(s) = o + Len(d)
      /\ \A k \in 1 .. o + Len(d) : s[k] = IF k <= o THEN abc[k] ELSE d[k - o]
  <2>1. /\ s \in Seq(Buf) /\ Len(s) = Len(abc) + Len(d)
        /\ \A k \in 1 .. Len(abc) + Len(d) :
             s[k] = IF k <= Len(abc) THEN abc[k] ELSE d[k - Len(abc)]
    BY <1>4, Joined
  <2> QED BY <1>4, <2>1
<1> HIDE DEF s
<1>6. ASSUME NEW k \in 1 .. Len(s)
      PROVE  \/ k \in DOMAIN a /\ s[k] = a[k]
             \/ k - m \in DOMAIN b /\ s[k] = b[k - m] /\ m < k /\ k <= n
             \/ k - n \in DOMAIN c /\ s[k] = c[k - n] /\ n < k /\ k <= o
             \/ k - o \in DOMAIN d /\ s[k] = d[k - o] /\ o < k
  <2> HIDE DEF m, n, o
  <2>1. n - m = Len(b) /\ o - n = Len(c) /\ k \in Nat /\ k >= 1 /\ k <= o + Len(d)
    BY <1>1, <1>5 DEF n, o
  <2>2. CASE k <= m
    BY <1>1, <1>2, <1>3, <1>4, <1>5, <2>1, <2>2
  <2>3. CASE m < k /\ k <= n
    BY <1>1, <1>2, <1>3, <1>4, <1>5, <2>1, <2>3
  <2>4. CASE n < k /\ k <= o
    <3>1. k \in 1 .. o /\ k \in 1 .. o + Len(d) /\ ~(k <= n) /\ k - n \in 1 .. Len(c)
      BY <1>1, <1>2, <2>1, <2>4
    <3>2. s[k] = abc[k] /\ abc[k] = c[k - n]
      BY <1>4, <1>5, <2>4, <3>1
    <3> QED BY <1>1, <2>4, <3>1, <3>2
  <2>5. CASE o < k
    BY <1>1, <1>2, <1>5, <2>1, <2>5
  <2> QED BY <1>1, <1>2, <2>1, <2>2, <2>3, <2>4, <2>5
<1> QED BY <1>1, <1>2, <1>3, <1>4, <1>5, <1>6 DEF ab, abc, s

-----------------------------------------------------------------------------
(* The buffers on their way from link l to where they go.                  *)

Path(l) == held[NicTx(OutLink(l))] \o held[Tx(OutLink(l))] \o held[D(l)] \o held[Rx(l)]

\* The places along the way.
Stops(l) == {NicTx(OutLink(l)), Tx(OutLink(l)), D(l), Rx(l)}

LEMMA StopsFacts ==
  ASSUME NEW l \in Link
  PROVE  /\ OutLink(l) \in Link /\ l \in Deque
         /\ NicTx(OutLink(l)) \in Place /\ Tx(OutLink(l)) \in Place
         /\ D(l) \in Place /\ Rx(l) \in Place
         /\ Stops(l) \subseteq FramePlaces /\ Stops(l) \subseteq Place
<1>1. OutLink(l) \in Link /\ l \in Deque
  BY Constants DEF OutLink, Other
<1> QED BY <1>1, Places, FramePlace DEF Stops

\* The two ways do not cross.
LEMMA StopsApart ==
  ASSUME NEW k \in Link, NEW l \in Link, k # l
  PROVE  OutLink(k) # OutLink(l) /\ Stops(k) \cap Stops(l) = {}
<1>1. OutLink(k) # OutLink(l)
  BY Constants DEF OutLink, Other
<1> QED BY <1>1 DEF Stops, NicTx, Tx, D, Rx

\* The places that are on no way.
LEMMA OffStops ==
  ASSUME NEW l \in Link, NEW q \in Place, q \notin FramePlaces
  PROVE  q \notin Stops(l)
BY StopsFacts

LEMMA PathSeqs ==
  ASSUME HeldType, NEW l \in Link
  PROVE  /\ held[NicTx(OutLink(l))] \in Seq(Buf) /\ held[Tx(OutLink(l))] \in Seq(Buf)
         /\ held[D(l)] \in Seq(Buf) /\ held[Rx(l)] \in Seq(Buf)
         /\ held[NicTx(OutLink(l))] \o held[Tx(OutLink(l))] \in Seq(Buf)
         /\ held[NicTx(OutLink(l))] \o held[Tx(OutLink(l))] \o held[D(l)] \in Seq(Buf)
         /\ Path(l) \in Seq(Buf)
<1>1. /\ held[NicTx(OutLink(l))] \in Seq(Buf) /\ held[Tx(OutLink(l))] \in Seq(Buf)
      /\ held[D(l)] \in Seq(Buf) /\ held[Rx(l)] \in Seq(Buf)
  BY StopsFacts, HeldSeq
<1> QED BY <1>1, Joined DEF Path

\* What is on the way is at one of its places.
LEMMA PathAt ==
  ASSUME HeldType, NEW l \in Link, NEW k \in DOMAIN Path(l)
  PROVE  \E q \in Stops(l) : Path(l)[k] \in At(q)
<1> DEFINE a == held[NicTx(OutLink(l))]
           b == held[Tx(OutLink(l))]
           c == held[D(l)]
           d == held[Rx(l)]
<1>1. a \in Seq(Buf) /\ b \in Seq(Buf) /\ c \in Seq(Buf) /\ d \in Seq(Buf)
  BY PathSeqs
<1>2. Path(l) = a \o b \o c \o d
  BY DEF Path
<1>5. Path(l) \in Seq(Buf) /\ k \in 1 .. Len(Path(l))
  BY PathSeqs, LenProperties
<1>3. \/ k \in DOMAIN a /\ Path(l)[k] = a[k]
      \/ k - Len(a) \in DOMAIN b /\ Path(l)[k] = b[k - Len(a)]
      \/ k - (Len(a) + Len(b)) \in DOMAIN c /\ Path(l)[k] = c[k - (Len(a) + Len(b))]
      \/ /\ k - (Len(a) + Len(b) + Len(c)) \in DOMAIN d
         /\ Path(l)[k] = d[k - (Len(a) + Len(b) + Len(c))]
  <2> HIDE DEF a, b, c, d
  <2> DEFINE s == a \o b \o c \o d
             m == Len(a)
             n == m + Len(b)
             o == n + Len(c)
  <2>1. \A i \in 1 .. Len(s) :
          \/ i \in DOMAIN a /\ s[i] = a[i]
          \/ i - m \in DOMAIN b /\ s[i] = b[i - m] /\ m < i /\ i <= n
          \/ i - n \in DOMAIN c /\ s[i] = c[i - n] /\ n < i /\ i <= o
          \/ i - o \in DOMAIN d /\ s[i] = d[i - o] /\ o < i
    BY <1>1, FourJoined, Zenon
  <2> QED BY <1>2, <1>5, <2>1
<1>4. \/ Path(l)[k] \in At(NicTx(OutLink(l))) \/ Path(l)[k] \in At(Tx(OutLink(l)))
      \/ Path(l)[k] \in At(D(l)) \/ Path(l)[k] \in At(Rx(l))
  BY <1>3 DEF At
<1> QED BY <1>4 DEF Stops

\* As no buffer is in two places, there is never more on the way than there
\* are buffers.
LEMMA PathFits == DpInv => \A l \in Link : Len(Path(l)) <= Cardinality(Buf)
<1> SUFFICES ASSUME DpInv, NEW l \in Link PROVE Len(Path(l)) <= Cardinality(Buf)
  OBVIOUS
<1> DEFINE s == Path(l)
           a == held[NicTx(OutLink(l))]
           b == held[Tx(OutLink(l))]
           c == held[D(l)]
           d == held[Rx(l)]
           m == Len(a)
           n == m + Len(b)
           o == n + Len(c)
<1>1. HeldType /\ Exclusive
  BY InvParts DEF HeldOK, Ownership
<1>2. /\ a \in Seq(Buf) /\ b \in Seq(Buf) /\ c \in Seq(Buf) /\ d \in Seq(Buf)
      /\ s \in Seq(Buf) /\ Len(s) \in Nat /\ DOMAIN s = 1 .. Len(s)
  BY <1>1, PathSeqs, LenProperties
<1> DEFINE In(k, q, i) == i \in DOMAIN held[q] /\ s[k] = held[q][i]
<1>3. /\ m \in Nat /\ n \in Nat /\ o \in Nat /\ m <= n /\ n <= o
      /\ \A k \in 1 .. Len(s) :
           \/ k \in DOMAIN a /\ s[k] = a[k]
           \/ k - m \in DOMAIN b /\ s[k] = b[k - m] /\ m < k /\ k <= n
           \/ k - n \in DOMAIN c /\ s[k] = c[k - n] /\ n < k /\ k <= o
           \/ k - o \in DOMAIN d /\ s[k] = d[k - o] /\ o < k
  <2>1. s = a \o b \o c \o d
    BY DEF Path
  <2> HIDE DEF a, b, c, d, s
  <2> DEFINE u == a \o b \o c \o d
  <2>2. /\ m \in Nat /\ n \in Nat /\ o \in Nat /\ m <= n /\ n <= o
        /\ \A k \in 1 .. Len(u) :
             \/ k \in DOMAIN a /\ u[k] = a[k]
             \/ k - m \in DOMAIN b /\ u[k] = b[k - m] /\ m < k /\ k <= n
             \/ k - n \in DOMAIN c /\ u[k] = c[k - n] /\ n < k /\ k <= o
             \/ k - o \in DOMAIN d /\ u[k] = d[k - o] /\ o < k
    BY <1>2, FourJoined, Zenon
  <2> HIDE DEF m, n, o
  <2> QED BY <2>1, <2>2
<1>4. ASSUME NEW k \in 1 .. Len(s)
      PROVE  \/ In(k, NicTx(OutLink(l)), k) \/ In(k, Tx(OutLink(l)), k - m)
             \/ In(k, D(l), k - n) \/ In(k, Rx(l), k - o)
  BY <1>3
<1> HIDE DEF s
<1>5. ASSUME NEW j, NEW k, NEW p \in Place, NEW q \in Place, NEW i, NEW h,
             In(j, p, i), In(k, q, h), s[j] = s[k]
      PROVE  p = q /\ i = h
  <2>1. i \in DOMAIN held[p] /\ h \in DOMAIN held[q] /\ held[p][i] = held[q][h]
    BY <1>5
  <2> QED BY <1>1, <2>1 DEF Exclusive
<1>6. ASSUME NEW j \in 1 .. Len(s), NEW k \in 1 .. Len(s), s[j] = s[k]
      PROVE  j = k
  <2>1. /\ NicTx(OutLink(l)) \in Place /\ Tx(OutLink(l)) \in Place
        /\ D(l) \in Place /\ Rx(l) \in Place
        /\ NicTx(OutLink(l)) # Tx(OutLink(l)) /\ NicTx(OutLink(l)) # D(l)
        /\ NicTx(OutLink(l)) # Rx(l) /\ Tx(OutLink(l)) # D(l)
        /\ Tx(OutLink(l)) # Rx(l) /\ D(l) # Rx(l)
    BY StopsFacts DEF NicTx, Tx, D, Rx
  <2>2. j \in Nat /\ k \in Nat
    BY <1>2
  <2> HIDE DEF In, s, a, b, c, d, m, n, o
  <2> QED BY <1>3, <1>4, <1>5, <1>6, <2>1, <2>2
<1>7. IsFiniteSet(Buf) /\ Cardinality(Buf) \in Nat
  BY FS_CardinalityType, DatapathAssumption
<1>8. IsFiniteSet(1 .. Len(s)) /\ Cardinality(1 .. Len(s)) = Len(s)
  <2> DEFINE e == Len(s)
  <2>1. 1 \in Int /\ e \in Int /\ e \in Nat
    BY <1>2
  <2> HIDE DEF e
  <2>2. IsFiniteSet(1 .. e) /\ Cardinality(1 .. e) = e
    BY <2>1, FS_Interval
  <2> QED BY <2>2 DEF e
<1>9. s \in [1 .. Len(s) -> Buf]
  BY <1>2, LenProperties
<1>10. ~ (Cardinality(Buf) < Cardinality(1 .. Len(s)))
  <2> SUFFICES ASSUME Cardinality(Buf) < Cardinality(1 .. Len(s)) PROVE FALSE
    OBVIOUS
  <2>1. \E i, j \in 1 .. Len(s) : i # j /\ s[i] = s[j]
    BY <1>7, <1>8, <1>9, FS_PigeonHole
  <2> QED BY <1>6, <2>1
<1> QED BY <1>2, <1>7, <1>8, <1>10 DEF s

-----------------------------------------------------------------------------
(* What a move does to the frames on the way.                              *)

\* The moves along the way leave its frames as they are: from the RX ring to
\* the deque, from there to the TX ring, from there to the NIC.
LEMMA MovedAlong ==
  ASSUME HeldType, NEW l \in Link, OutLink(l)' = OutLink(l), NEW n \in Nat,
         \/ n <= Count(Rx(l)) /\ MoveFront(Rx(l), D(l), n)
         \/ n <= Count(D(l)) /\ MoveFront(D(l), Tx(OutLink(l)), n)
         \/ n <= Count(Tx(OutLink(l))) /\ MoveFront(Tx(OutLink(l)), NicTx(OutLink(l)), n)
  PROVE  Path(l)' = Path(l)
<1> DEFINE a == held[NicTx(OutLink(l))]
           b == held[Tx(OutLink(l))]
           c == held[D(l)]
           d == held[Rx(l)]
           ab == a \o b
<1>1. /\ a \in Seq(Buf) /\ b \in Seq(Buf) /\ c \in Seq(Buf) /\ d \in Seq(Buf)
      /\ ab \in Seq(Buf)
  BY PathSeqs
<1>2. Path(l) = a \o b \o c \o d
  BY DEF Path
<1>3. Path(l)' = held'[NicTx(OutLink(l))] \o held'[Tx(OutLink(l))]
                   \o held'[D(l)] \o held'[Rx(l)]
  BY DEF Path, NicTx, Tx
<1>4. /\ NicTx(OutLink(l)) \in Place /\ Tx(OutLink(l)) \in Place
      /\ D(l) \in Place /\ Rx(l) \in Place
      /\ NicTx(OutLink(l)) # Tx(OutLink(l)) /\ NicTx(OutLink(l)) # D(l)
      /\ NicTx(OutLink(l)) # Rx(l) /\ Tx(OutLink(l)) # D(l)
      /\ Tx(OutLink(l)) # Rx(l) /\ D(l) # Rx(l)
  BY StopsFacts DEF NicTx, Tx, D, Rx
<1>5. CASE n <= Count(Rx(l)) /\ MoveFront(Rx(l), D(l), n)
  <2>1. /\ held'[NicTx(OutLink(l))] = a /\ held'[Tx(OutLink(l))] = b
        /\ held'[D(l)] = c \o SubSeq(d, 1, n) /\ held'[Rx(l)] = SubSeq(d, n + 1, Len(d))
    BY <1>4, <1>5 DEF HeldType, MoveFront
  <2>2. n \in 0 .. Len(d)
    BY <1>1, <1>5 DEF Count
  <2> DEFINE x == SubSeq(d, 1, n)
             y == SubSeq(d, n + 1, Len(d))
             z == c \o x
  <2>3. y \in Seq(Buf) /\ z \in Seq(Buf) /\ z \o y = c \o d
    BY <1>1, <2>2, SplitJoin, NextMoved, Joined
  <2> HIDE DEF ab, a, b, c, d, x, y, z
  <2>4. (ab \o z) \o y = ab \o (z \o y)
    BY <1>1, <2>3, Regrouped
  <2>5. ab \o (c \o d) = (ab \o c) \o d
    BY <1>1, Regrouped
  <2> QED BY <1>2, <1>3, <2>1, <2>3, <2>4, <2>5 DEF ab, x, y, z
<1>6. CASE n <= Count(D(l)) /\ MoveFront(D(l), Tx(OutLink(l)), n)
  <2>1. /\ held'[NicTx(OutLink(l))] = a /\ held'[Tx(OutLink(l))] = b \o SubSeq(c, 1, n)
        /\ held'[D(l)] = SubSeq(c, n + 1, Len(c)) /\ held'[Rx(l)] = d
    BY <1>4, <1>6 DEF HeldType, MoveFront
  <2>2. n \in 0 .. Len(c)
    BY <1>1, <1>6 DEF Count
  <2> DEFINE x == SubSeq(c, 1, n)
             y == SubSeq(c, n + 1, Len(c))
             z == b \o x
  <2>3. y \in Seq(Buf) /\ z \in Seq(Buf) /\ z \o y = b \o c
    BY <1>1, <2>2, SplitJoin, NextMoved, Joined
  <2> HIDE DEF ab, a, b, c, d, x, y, z
  <2>4. (a \o z) \o y = a \o (z \o y)
    BY <1>1, <2>3, Regrouped
  <2>5. a \o (b \o c) = (a \o b) \o c
    BY <1>1, Regrouped
  <2> QED BY <1>2, <1>3, <2>1, <2>3, <2>4, <2>5 DEF ab, x, y, z
<1>7. CASE n <= Count(Tx(OutLink(l))) /\ MoveFront(Tx(OutLink(l)), NicTx(OutLink(l)), n)
  <2>1. /\ held'[NicTx(OutLink(l))] = a \o SubSeq(b, 1, n)
        /\ held'[Tx(OutLink(l))] = SubSeq(b, n + 1, Len(b))
        /\ held'[D(l)] = c /\ held'[Rx(l)] = d
    BY <1>4, <1>7 DEF HeldType, MoveFront
  <2>2. n \in 0 .. Len(b)
    BY <1>1, <1>7 DEF Count
  <2> HIDE DEF a, b, c, d
  <2>3. (a \o SubSeq(b, 1, n)) \o SubSeq(b, n + 1, Len(b)) = a \o b
    BY <1>1, <2>2, NextMoved
  <2> QED BY <1>2, <1>3, <2>1, <2>3
<1> QED BY <1>5, <1>6, <1>7

\* A move between places off the way.
LEMMA MovedAside ==
  ASSUME HeldType, NEW l \in Link, OutLink(l)' = OutLink(l),
         \A q \in Stops(l) : held'[q] = held[q]
  PROVE  Path(l)' = Path(l)
<1>1. Path(l)' = held'[NicTx(OutLink(l))] \o held'[Tx(OutLink(l))]
                   \o held'[D(l)] \o held'[Rx(l)]
  BY DEF Path, NicTx, Tx
<1>2. /\ held'[NicTx(OutLink(l))] = held[NicTx(OutLink(l))]
      /\ held'[Tx(OutLink(l))] = held[Tx(OutLink(l))]
      /\ held'[D(l)] = held[D(l)] /\ held'[Rx(l)] = held[Rx(l)]
  BY DEF Stops
<1> QED BY <1>1, <1>2 DEF Path

\* A frame that arrives is the last one on the way.
LEMMA Entered ==
  ASSUME HeldType, NEW l \in Link, OutLink(l)' = OutLink(l),
         held[NicRx(l)] # <<>>, MoveFront(NicRx(l), Rx(l), 1)
  PROVE  Path(l)' = Path(l) \o <<Head(held[NicRx(l)])>>
<1> DEFINE a == held[NicTx(OutLink(l))]
           b == held[Tx(OutLink(l))]
           c == held[D(l)]
           d == held[Rx(l)]
           x == Head(held[NicRx(l)])
<1>1. a \o b \o c \in Seq(Buf) /\ d \in Seq(Buf)
  BY PathSeqs
<1>2. Path(l)' = held'[NicTx(OutLink(l))] \o held'[Tx(OutLink(l))]
                   \o held'[D(l)] \o held'[Rx(l)]
  BY DEF Path, NicTx, Tx
<1>3. /\ NicTx(OutLink(l)) \in Place /\ Tx(OutLink(l)) \in Place
      /\ D(l) \in Place /\ Rx(l) \in Place /\ NicRx(l) \in Place
      /\ NicRx(l) # NicTx(OutLink(l)) /\ NicRx(l) # Tx(OutLink(l))
      /\ NicRx(l) # D(l) /\ NicRx(l) # Rx(l)
      /\ Rx(l) # NicTx(OutLink(l)) /\ Rx(l) # Tx(OutLink(l)) /\ Rx(l) # D(l)
  BY StopsFacts, Places DEF NicTx, Tx, D, Rx, NicRx
<1>4. /\ held'[NicTx(OutLink(l))] = a /\ held'[Tx(OutLink(l))] = b /\ held'[D(l)] = c
      /\ held'[Rx(l)] = d \o SubSeq(held[NicRx(l)], 1, 1)
  BY <1>3 DEF HeldType, MoveFront
<1>5. SubSeq(held[NicRx(l)], 1, 1) = <<x>> /\ x \in Buf
  <2>1. held[NicRx(l)] \in Seq(Buf)
    BY <1>3, HeldSeq
  <2> DEFINE t == SubSeq(held[NicRx(l)], 1, 1)
  <2>2. x \in Buf /\ x = held[NicRx(l)][1] /\ Len(held[NicRx(l)]) >= 1
    BY <2>1
  <2>3. t \in Seq(Buf) /\ Len(t) = 1 /\ t[1] = x
    BY <2>1, <2>2
  <2>4. <<x>> \in Seq(Buf) /\ Len(<<x>>) = 1 /\ <<x>>[1] = x
    BY <2>2
  <2> HIDE DEF t, x
  <2>5. t = <<x>>
    BY <2>3, <2>4, SeqEqual
  <2> QED BY <2>2, <2>5 DEF t
<1>6. <<x>> \in Seq(Buf)
  BY <1>5
<1> HIDE DEF a, b, c, d, x
<1>7. ((a \o b \o c) \o d) \o <<x>> = (a \o b \o c) \o (d \o <<x>>)
  BY <1>1, <1>6, Regrouped
<1> QED BY <1>2, <1>4, <1>5, <1>7 DEF Path, a, b, c, d, x

\* A frame that is sent was the first one on the way.
LEMMA Left ==
  ASSUME HeldType, NEW l \in Link, OutLink(l)' = OutLink(l),
         held[NicTx(OutLink(l))] # <<>>, MoveFront(NicTx(OutLink(l)), Cq(OutLink(l)), 1)
  PROVE  /\ Path(l) # <<>> /\ Path(l)' = Tail(Path(l))
         /\ Head(Path(l)) = Head(held[NicTx(OutLink(l))])
<1> DEFINE a == held[NicTx(OutLink(l))]
           b == held[Tx(OutLink(l))]
           c == held[D(l)]
           d == held[Rx(l)]
<1>1. /\ a \in Seq(Buf) /\ b \in Seq(Buf) /\ c \in Seq(Buf) /\ d \in Seq(Buf)
      /\ a \o b \in Seq(Buf) /\ a \o b \o c \in Seq(Buf) /\ a # <<>>
  BY PathSeqs
<1>2. Path(l)' = held'[NicTx(OutLink(l))] \o held'[Tx(OutLink(l))]
                   \o held'[D(l)] \o held'[Rx(l)]
  BY DEF Path, NicTx, Tx
<1>3. /\ NicTx(OutLink(l)) \in Place /\ Tx(OutLink(l)) \in Place
      /\ D(l) \in Place /\ Rx(l) \in Place /\ Cq(OutLink(l)) \in Place
      /\ Cq(OutLink(l)) # NicTx(OutLink(l)) /\ Cq(OutLink(l)) # Tx(OutLink(l))
      /\ Cq(OutLink(l)) # D(l) /\ Cq(OutLink(l)) # Rx(l)
      /\ NicTx(OutLink(l)) # Tx(OutLink(l)) /\ NicTx(OutLink(l)) # D(l)
      /\ NicTx(OutLink(l)) # Rx(l)
  BY StopsFacts, Places DEF NicTx, Tx, D, Rx, Cq
<1>4. /\ held'[NicTx(OutLink(l))] = SubSeq(a, 2, Len(a))
      /\ held'[Tx(OutLink(l))] = b /\ held'[D(l)] = c /\ held'[Rx(l)] = d
  BY <1>3 DEF HeldType, MoveFront
<1> HIDE DEF a, b, c, d
<1>5. SubSeq(a, 2, Len(a)) = Tail(a)
  BY <1>1
<1>6. /\ a \o b # <<>> /\ Head(a \o b) = Head(a) /\ Tail(a \o b) = Tail(a) \o b
  BY <1>1, HeadJoin
<1>7. /\ a \o b \o c # <<>> /\ Head(a \o b \o c) = Head(a \o b)
      /\ Tail(a \o b \o c) = Tail(a \o b) \o c
  BY <1>1, <1>6, HeadJoin
<1>8. /\ a \o b \o c \o d # <<>> /\ Head(a \o b \o c \o d) = Head(a \o b \o c)
      /\ Tail(a \o b \o c \o d) = Tail(a \o b \o c) \o d
  BY <1>1, <1>7, HeadJoin
<1>9. Path(l) = a \o b \o c \o d
  BY DEF Path, a, b, c, d
<1> QED BY <1>2, <1>4, <1>5, <1>6, <1>7, <1>8, <1>9 DEF a

-----------------------------------------------------------------------------
(* What a step does to one direction: nothing, a frame arrives, or the     *)
(* oldest one leaves.                                                      *)

\* The packets on the way keep their contents, but for swapped addresses.
SameFrames(l) ==
  \A q \in Stops(l) : \A b \in At(q) : Frame(data'[b]) = Frame(data[b])

Still(l) ==
  /\ Path(l)' = Path(l) /\ SameFrames(l)
  /\ lastSent'[OutLink(l)] = lastSent[OutLink(l)]

Arrives(l) ==
  /\ \E b \in Buf : Path(l)' = Path(l) \o <<b>> /\ data'[b] \in Packet
  /\ SameFrames(l)
  /\ lastSent'[OutLink(l)] = lastSent[OutLink(l)]

Leaves(l) ==
  /\ Path(l) # <<>> /\ Path(l)' = Tail(Path(l)) /\ SameFrames(l)
  /\ lastSent'[OutLink(l)] = data[Head(Path(l))]

\* The buffers of two places are not the same.
LEMMA Elsewhere ==
  ASSUME DpInv, NEW p \in Place, NEW q \in Place, p # q, NEW b \in At(q)
  PROVE  b \notin At(p)
<1>1. Exclusive
  BY InvParts DEF HeldOK, Ownership
<1> QED BY <1>1 DEF At, Exclusive

\* A step that touches no place on the way.
LEMMA AsideStill ==
  ASSUME HeldType, NEW l \in Link, OutLink(l)' = OutLink(l),
         \A q \in Stops(l) : held'[q] = held[q],
         \A q \in Stops(l) : \A b \in At(q) : data'[b] = data[b],
         UNCHANGED lastSent
  PROVE  Still(l)
BY MovedAside DEF Still, SameFrames

\* A move of buffers between places off the way.
LEMMA MovedStill ==
  ASSUME HeldType, NEW l \in Link, OutLink(l)' = OutLink(l),
         NEW p \in Place, NEW r \in Place, NEW n, Moved(p, r, n),
         p \notin Stops(l), r \notin Stops(l), UNCHANGED <<data, lastSent>>
  PROVE  Still(l)
<1>1. \A q \in Stops(l) : held'[q] = held[q]
  BY StopsFacts DEF Moved
<1> QED BY <1>1, AsideStill

\* The calls on the Umem touch no frame: service empties buffers that were sent.
LEMMA UmemStill ==
  ASSUME DpInv, NEW k \in Link, OutLink(k)' = OutLink(k),
         NEW l \in Link, NEW v \in Vec, NEW n \in Nat,
         Fill(l, v, n) \/ Service(l, v, n) \/ PoolGet(v, n)
  PROVE  Still(k)
<1>1. HeldOK /\ HeldType
  BY InvParts DEF HeldOK
<1>2. /\ V(v) \in Place /\ Fq(l) \in Place /\ Cq(l) \in Place /\ Pool \in Place
      /\ V(v) \notin Stops(k) /\ Fq(l) \notin Stops(k)
      /\ Cq(l) \notin Stops(k) /\ Pool \notin Stops(k)
  BY Places, FramePlace, OffStops
<1>3. CASE Fill(l, v, n)
  <2>1. Moved(V(v), Fq(l), Filled(l, v, n)) /\ UNCHANGED <<data, lastSent>>
    BY <1>1, <1>3, FillMoves DEF Fill
  <2> QED BY <1>1, <1>2, <2>1, MovedStill
<1>4. CASE PoolGet(v, n)
  <2>1. Moved(Pool, V(v), Least(n, Count(Pool))) /\ UNCHANGED <<data, lastSent>>
    BY <1>1, <1>4, PoolMoves DEF PoolGet
  <2> QED BY <1>1, <1>2, <2>1, MovedStill
<1>5. CASE Service(l, v, n)
  <2>1. /\ Moved(Cq(l), V(v), Serviced(l, v, n)) /\ UNCHANGED lastSent
        /\ Serviced(l, v, n) \in 0 .. Count(Cq(l))
    BY <1>1, <1>5, ServiceMoves DEF Service
  <2>2. \A q \in Stops(k) : held'[q] = held[q]
    BY <1>2, <2>1, StopsFacts DEF Moved
  <2>3. ASSUME NEW q \in Stops(k), NEW b \in At(q) PROVE data'[b] = data[b]
    <3>1. q \in Place /\ q # Cq(l) /\ b \in Buf
      BY <1>1, <1>2, StopsFacts, AtBufs
    <3>2. b \notin At(Cq(l))
      BY <1>2, <3>1, Elsewhere
    <3>3. DOMAIN held[Cq(l)] = 1 .. Count(Cq(l)) /\ Count(Cq(l)) \in Nat
      BY <1>1, <1>2, HeldSeq
    <3>4. \A i \in 1 .. Serviced(l, v, n) : b # held[Cq(l)][i]
      BY <2>1, <3>2, <3>3 DEF At
    <3> QED BY <1>5, <3>1, <3>4 DEF Service
  <2> QED BY <1>1, <2>1, <2>2, <2>3, AsideStill
<1> QED BY <1>3, <1>4, <1>5

\* try_recv and try_send move frames along their own way.
LEMMA SocketStill ==
  ASSUME DpInv, NEW k \in Link, OutLink(k)' = OutLink(k), NEW l \in Link, NEW n \in Nat,
         TryRecv(l, l, n) \/ TrySend(OutLink(l), l, n)
  PROVE  Still(k)
<1>1. HeldOK /\ HeldType
  BY InvParts DEF HeldOK
<1>2. /\ D(l) \in Place /\ Rx(l) \in Place /\ Tx(OutLink(l)) \in Place
      /\ OutLink(l) \in Link /\ l \in Deque
      /\ Count(Rx(l)) \in Nat /\ Count(D(l)) \in Nat
      /\ {D(l), Rx(l), Tx(OutLink(l))} \subseteq Stops(l)
  BY <1>1, StopsFacts, Counts DEF Stops
<1>3. k # l => Stops(k) \cap Stops(l) = {}
  BY StopsApart
<1>4. CASE TryRecv(l, l, n)
  <2>1. /\ Moved(Rx(l), D(l), Received(l, l, n)) /\ UNCHANGED <<data, lastSent>>
        /\ Received(l, l, n) \in 0 .. Count(Rx(l))
        /\ MoveFront(Rx(l), D(l), Received(l, l, n))
    BY <1>1, <1>2, <1>4, RecvMoves DEF TryRecv
  <2>2. CASE k = l
    <3>1. Path(l)' = Path(l)
      BY <1>1, <1>2, <2>1, <2>2, MovedAlong
    <3> QED BY <2>1, <2>2, <3>1 DEF Still, SameFrames
  <2>3. CASE k # l
    BY <1>1, <1>2, <1>3, <2>1, <2>3, MovedStill
  <2> QED BY <2>2, <2>3
<1>5. CASE TrySend(OutLink(l), l, n)
  <2>1. /\ Moved(D(l), Tx(OutLink(l)), Sent(OutLink(l), l, n))
        /\ Sent(OutLink(l), l, n) \in 0 .. Count(D(l))
        /\ MoveFront(D(l), Tx(OutLink(l)), Sent(OutLink(l), l, n))
        /\ UNCHANGED <<data, lastSent>>
    BY <1>1, <1>2, <1>5, SendMoves DEF TrySend
  <2>2. CASE k = l
    <3>1. Path(l)' = Path(l)
      BY <1>1, <1>2, <2>1, <2>2, MovedAlong
    <3> QED BY <2>1, <2>2, <3>1 DEF Still, SameFrames
  <2>3. CASE k # l
    BY <1>1, <1>2, <1>3, <2>1, <2>3, MovedStill
  <2> QED BY <2>2, <2>3
<1> QED BY <1>4, <1>5

\* swap_macs twice is nothing: a frame stays the same packet.
LEMMA SwapStill ==
  ASSUME WorkerInv, NEW k \in Link, SwapMacs
  PROVE  Still(k)
<1>1. /\ pos \in Link /\ pos \in Deque /\ DpInv /\ FramesFull
      /\ HeldOK /\ HeldType
  BY InLoop, InvParts DEF HeldOK
<1>2. UNCHANGED <<held, lastSent, program>>
  BY DEF SwapMacs, Rewrite
<1>3. D(pos) \in Place /\ D(pos) \in FramePlaces
  BY <1>1, FramePlace
<1>4. ASSUME NEW q \in Stops(k), NEW b \in At(q) PROVE Frame(data'[b]) = Frame(data[b])
  <2>1. b \in Buf /\ data[b] \in Packet
    BY <1>1, StopsFacts, AtBufs DEF FramesFull
  <2>2. data'[b] \in {data[b], Swap[data[b]]}
    BY <2>1 DEF SwapMacs, Rewrite
  <2>3. Swap[Swap[data[b]]] = data[b]
    BY <2>1, WorkerAssumption
  <2> QED BY <2>2, <2>3 DEF Frame
<1>5. OutLink(k)' = OutLink(k)
  BY <1>2 DEF OutLink
<1>6. Path(k)' = Path(k)
  BY <1>1, <1>2, <1>5, MovedAside
<1> QED BY <1>2, <1>4, <1>6 DEF Still, SameFrames

\* The driver moves one frame at a time.
LEMMA KernelWay ==
  ASSUME DpInv, NEW k \in Link, OutLink(k)' = OutLink(k), NEW l \in Link, Kernel(l)
  PROVE  Still(k) \/ Arrives(k) \/ Leaves(k)
<1>1. HeldOK /\ HeldType /\ RestOK
  BY InvParts DEF HeldOK
<1>2. /\ Fq(l) \in Place /\ NicRx(l) \in Place /\ Rx(l) \in Place
      /\ Tx(l) \in Place /\ NicTx(l) \in Place /\ Cq(l) \in Place
      /\ Fq(l) \notin Stops(k) /\ NicRx(l) \notin Stops(k) /\ Cq(l) \notin Stops(k)
  BY Places, FramePlace, OffStops
<1>3. CASE KernelTakeFill(l)
  <2>1. Moved(Fq(l), NicRx(l), 1) /\ UNCHANGED <<data, lastSent>>
    BY <1>1, <1>3, KernelMoves DEF KernelTakeFill
  <2> QED BY <1>1, <1>2, <2>1, MovedStill
<1>4. ASSUME NEW p \in Arriving[l], KernelReceive(l, p)
      PROVE  Still(k) \/ Arrives(k)
  <2> DEFINE b == Head(held[NicRx(l)])
  <2>1. /\ Moved(NicRx(l), Rx(l), 1) /\ MoveFront(NicRx(l), Rx(l), 1)
        /\ held[NicRx(l)] # <<>> /\ UNCHANGED lastSent
    BY <1>1, <1>4, KernelMoves DEF KernelReceive
  <2>2. b \in Buf /\ p \in Packet /\ data'[b] = p
    BY <1>1, <1>2, <1>4, OldestBuffer, DatapathAssumption DEF KernelReceive, RestOK
  <2>3. b \in At(NicRx(l))
    <3>1. held[NicRx(l)] \in Seq(Buf)
      BY <1>1, <1>2, HeldSeq
    <3>2. 1 \in DOMAIN held[NicRx(l)] /\ b = held[NicRx(l)][1]
      BY <2>1, <3>1
    <3> QED BY <3>2 DEF At
  <2>4. ASSUME NEW q \in Stops(k), NEW x \in At(q) PROVE data'[x] = data[x]
    <3>1. q \in Place /\ q # NicRx(l) /\ x \in Buf
      BY <1>1, <1>2, StopsFacts, AtBufs
    <3>2. x # b
      BY <1>2, <2>3, <3>1, Elsewhere
    <3> QED BY <1>1, <1>4, <3>1, <3>2 DEF KernelReceive, RestOK
  <2>5. CASE k = l
    <3>1. Path(k)' = Path(k) \o <<b>>
      BY <1>1, <2>1, <2>5, Entered
    <3> QED BY <2>1, <2>2, <2>4, <3>1 DEF Arrives, SameFrames
  <2>6. CASE k # l
    <3>1. Rx(l) \notin Stops(k)
      BY <2>6 DEF Stops, Rx, NicTx, Tx, D
    <3>2. \A q \in Stops(k) : held'[q] = held[q]
      BY <1>2, <2>1, <3>1, StopsFacts DEF Moved
    <3> QED BY <1>1, <2>1, <2>4, <3>2, AsideStill
  <2> QED BY <2>5, <2>6
<1>5. CASE KernelTakeTx(l)
  <2>1. /\ Moved(Tx(l), NicTx(l), 1) /\ MoveFront(Tx(l), NicTx(l), 1)
        /\ held[Tx(l)] # <<>> /\ UNCHANGED <<data, lastSent>>
    BY <1>1, <1>5, KernelMoves DEF KernelTakeTx
  <2>2. CASE l = OutLink(k)
    <3>1. Count(Tx(l)) \in Nat /\ 1 \in 0 .. Count(Tx(l))
      BY <1>1, <1>2, <2>1, OldestBuffer, HeldSeq
    <3>2. Path(k)' = Path(k)
      BY <1>1, <2>1, <2>2, <3>1, MovedAlong
    <3> QED BY <2>1, <3>2 DEF Still, SameFrames
  <2>3. CASE l # OutLink(k)
    <3>1. Tx(l) \notin Stops(k) /\ NicTx(l) \notin Stops(k)
      BY <2>3 DEF Stops, Rx, NicTx, Tx, D
    <3> QED BY <1>1, <1>2, <2>1, <3>1, MovedStill
  <2> QED BY <2>2, <2>3
<1>6. CASE KernelSend(l)
  <2>1. /\ Moved(NicTx(l), Cq(l), 1) /\ MoveFront(NicTx(l), Cq(l), 1)
        /\ held[NicTx(l)] # <<>> /\ UNCHANGED data
        /\ lastSent' = [lastSent EXCEPT ![l] = data[Head(held[NicTx(l)])]]
    BY <1>1, <1>6, KernelMoves DEF KernelSend
  <2>2. CASE l = OutLink(k)
    <3>1. /\ Path(k) # <<>> /\ Path(k)' = Tail(Path(k))
          /\ Head(Path(k)) = Head(held[NicTx(l)])
      BY <1>1, <2>1, <2>2, Left
    <3>2. lastSent'[l] = data[Head(held[NicTx(l)])]
      BY <1>1, <2>1 DEF RestOK
    <3> QED BY <2>1, <2>2, <3>1, <3>2 DEF Leaves, SameFrames
  <2>3. CASE l # OutLink(k)
    <3>1. NicTx(l) \notin Stops(k)
      BY <2>3 DEF Stops, Rx, NicTx, Tx, D
    <3>2. \A q \in Stops(k) : held'[q] = held[q]
      BY <1>2, <2>1, <3>1, StopsFacts DEF Moved
    <3>3. Path(k)' = Path(k)
      BY <1>1, <3>2, MovedAside
    <3>4. lastSent'[OutLink(k)] = lastSent[OutLink(k)]
      BY <1>1, <2>1, <2>3, StopsFacts DEF RestOK
    <3> QED BY <2>1, <3>3, <3>4 DEF Still, SameFrames
  <2> QED BY <2>2, <2>3
<1>7. CASE KernelRxSleep(l) \/ KernelTxSleep(l)
  BY <1>1, <1>7, AsideStill DEF KernelRxSleep, KernelTxSleep
<1> QED BY <1>3, <1>4, <1>5, <1>6, <1>7 DEF Kernel

\* A step of a forwarding program.
LEMMA ForwarderWay ==
  ASSUME WorkerInv, [WorkerNext]_wVars, program \in Forwarders, NEW k \in Link
  PROVE  /\ UNCHANGED program
         /\ Still(k) \/ Arrives(k) \/ Leaves(k)
<1>1. /\ pos \in Link /\ pos \in Deque /\ DpInv /\ "bufs" \in Vec
      /\ program \in Program /\ BatchSize \in Nat /\ HeldType
  BY InLoop, InvParts, Constants DEF HeldOK
<1>2. /\ StartBufs \in Nat /\ (program \notin Workers => BufNum[program] \in Nat)
      /\ Wanted \in Nat /\ deficit[pos] \in Nat
  <2>1. Wanted \in Nat
    BY <1>1, WantedIsNat
  <2>2. deficit[pos] \in 0 .. Wanted
    BY <1>1, WorkerParts DEF ProgramOK
  <2> QED BY <1>1, <2>1, <2>2, Constants
<1>3. ASSUME UNCHANGED program,
             \/ UNCHANGED <<held, data, lastSent>>
             \/ \E n \in Nat : \/ Fill(pos, "bufs", n) \/ Service(pos, "bufs", n)
                               \/ PoolGet("bufs", n)
             \/ \E n \in Nat : TryRecv(pos, pos, n) \/ TrySend(OutLink(pos), pos, n)
             \/ SwapMacs
             \/ \E l \in Link : Kernel(l)
      PROVE  Still(k) \/ Arrives(k) \/ Leaves(k)
  <2>1. OutLink(k)' = OutLink(k)
    BY <1>3 DEF OutLink
  <2>2. CASE UNCHANGED <<held, data, lastSent>>
    BY <1>1, <2>1, <2>2, AsideStill
  <2>3. CASE \E n \in Nat : \/ Fill(pos, "bufs", n) \/ Service(pos, "bufs", n)
                           \/ PoolGet("bufs", n)
    BY <1>1, <2>1, <2>3, UmemStill
  <2>4. CASE \E n \in Nat : TryRecv(pos, pos, n) \/ TrySend(OutLink(pos), pos, n)
    BY <1>1, <2>1, <2>4, SocketStill
  <2>5. CASE SwapMacs
    BY <2>5, SwapStill
  <2>6. CASE \E l \in Link : Kernel(l)
    BY <1>1, <2>1, <2>6, KernelWay
  <2> QED BY <1>3, <2>2, <2>3, <2>4, <2>5, <2>6
<1>4. CASE MulticoreLoop \/ TwoLinkLoop \/ EchoLoop \/ DropLoop \/ DumpLoop
  <2>1. \/ NoExit("service") \/ Tick \/ ServiceCq \/ Poll \/ Forward \/ Kick
        \/ Receive("hand_on") \/ Receive("swap") \/ SwapMacs
        \/ Refill(FillThreshold) \/ Refill(1)
    BY <1>4 DEF MulticoreLoop, TwoLinkLoop, EchoLoop, DropLoop, DumpLoop, Forwarders
  <2>2. CASE NoExit("service") \/ Tick \/ Poll \/ Kick
    <3>1. UNCHANGED <<held, data, lastSent>> /\ UNCHANGED program
      BY <2>2 DEF NoExit, Tick, Poll, WakeRx, Wake, Kick, WakeupIfRequired, dpVars
    <3> QED BY <1>3, <3>1
  <2>3. CASE ServiceCq
    <3>1. Service(pos, "bufs", BatchSize) /\ UNCHANGED program
      BY <2>3 DEF ServiceCq
    <3> QED BY <1>1, <1>3, <3>1
  <2>4. CASE Forward
    <3>1. /\ UNCHANGED dpVars \/ TrySend(OutLink(pos), pos, BatchSize)
          /\ UNCHANGED program
      BY <2>4 DEF Forward
    <3>2. UNCHANGED dpVars => UNCHANGED <<held, data, lastSent>>
      BY DEF dpVars
    <3> QED BY <1>1, <1>3, <3>1, <3>2
  <2>5. CASE Receive("hand_on") \/ Receive("swap")
    <3>1. TryRecv(pos, pos, BatchSize) /\ UNCHANGED program
      BY <2>5 DEF Receive
    <3> QED BY <1>1, <1>3, <3>1
  <2>6. CASE SwapMacs
    <3>1. UNCHANGED program
      BY <2>6 DEF SwapMacs
    <3> QED BY <1>3, <2>6, <3>1
  <2>7. CASE Refill(FillThreshold) \/ Refill(1)
    <3>1. /\ UNCHANGED dpVars \/ Fill(pos, "bufs", deficit[pos])
          /\ UNCHANGED program
      BY <2>7 DEF Refill
    <3>2. UNCHANGED dpVars => UNCHANGED <<held, data, lastSent>>
      BY DEF dpVars
    <3> QED BY <1>2, <1>3, <3>1, <3>2
  <2> QED BY <2>1, <2>2, <2>3, <2>4, <2>5, <2>6, <2>7
<1>5. CASE GetBufs
  <2>1. /\ \E n \in Nat : PoolGet("bufs", n)
        /\ UNCHANGED program
    BY <1>2, <1>5 DEF GetBufs
  <2> QED BY <1>3, <2>1
<1>6. CASE FillLink
  <2>1. Fill(pos, "bufs", Wanted) /\ UNCHANGED program
    BY <1>6 DEF FillLink
  <2> QED BY <1>2, <1>3, <2>1
<1>7. CASE Exit \/ LastTick \/ UNCHANGED wVars
  <2>1. UNCHANGED <<held, data, lastSent>> /\ UNCHANGED program
    BY <1>7 DEF Exit, LastTick, wVars, myVars, dpVars
  <2> QED BY <1>3, <2>1
<1>8. ASSUME NEW l \in Links, Kernel(l), UNCHANGED myVars
      PROVE  /\ UNCHANGED program
             /\ Still(k) \/ Arrives(k) \/ Leaves(k)
  <2>1. l \in Link /\ UNCHANGED program
    BY <1>8 , InLoop, LinksServed DEF myVars
  <2> QED BY <1>3, <1>8, <2>1
<1> QED BY <1>4, <1>5, <1>6, <1>7, <1>8 DEF WorkerNext, Step

-----------------------------------------------------------------------------
(* The steps of the queue.                                                 *)

Contents == {Frame(p) : p \in Packet}

\* InFlight, without the frames it is made from.
LEMMA Flight ==
  ASSUME DpInv, FramesFull, program \in Forwarders, NEW l \in Link
  PROVE  /\ InFlight(l) \in Seq(Contents) /\ Len(InFlight(l)) = Len(Path(l))
         /\ \A k \in 1 .. Len(Path(l)) : InFlight(l)[k] = Frame(data[Path(l)[k]])
         /\ Path(l) \in Seq(Buf)
<1>1. HeldType
  BY InvParts DEF HeldOK
<1>2. Path(l) \in Seq(Buf) /\ DOMAIN Path(l) = 1 .. Len(Path(l)) /\ Len(Path(l)) \in Nat
  BY <1>1, PathSeqs, LenProperties
<1>3. InFlight(l) = [k \in 1 .. Len(Path(l)) |-> Frame(data[Path(l)[k]])]
  BY <1>2 DEF InFlight, Path
<1>4. ASSUME NEW k \in 1 .. Len(Path(l)) PROVE Frame(data[Path(l)[k]]) \in Contents
  <2>1. PICK q \in Stops(l) : Path(l)[k] \in At(q)
    BY <1>1, <1>2, PathAt
  <2>2. data[Path(l)[k]] \in Packet
    BY <2>1, StopsFacts DEF FramesFull
  <2> QED BY <2>2 DEF Contents
<1> DEFINE n == Len(Path(l))
           e == [k \in 1 .. n |-> Frame(data[Path(l)[k]])]
<1>5. e \in Seq(Contents) /\ Len(e) = n
  <2>1. n \in Nat /\ e \in [1 .. n -> Contents]
    BY <1>2, <1>4
  <2> HIDE DEF e, n
  <2> QED BY <2>1
<1> QED BY <1>2, <1>3, <1>5

LEMMA FlightNext ==
  DpInv' /\ FramesFull' /\ program' \in Forwarders =>
    \A l \in Link :
      /\ InFlight(l)' \in Seq(Contents) /\ Len(InFlight(l)') = Len(Path(l)')
      /\ \A k \in 1 .. Len(Path(l)') :
           InFlight(l)'[k] = Frame(data'[Path(l)'[k]])
<1>1. DpInv /\ FramesFull /\ program \in Forwarders =>
        \A l \in Link :
          /\ InFlight(l) \in Seq(Contents) /\ Len(InFlight(l)) = Len(Path(l))
          /\ \A k \in 1 .. Len(Path(l)) : InFlight(l)[k] = Frame(data[Path(l)[k]])
  BY Flight
<1>2. (DpInv /\ FramesFull /\ program \in Forwarders)' =>
        (\A l \in Link :
          /\ InFlight(l) \in Seq(Contents) /\ Len(InFlight(l)) = Len(Path(l))
          /\ \A k \in 1 .. Len(Path(l)) : InFlight(l)[k] = Frame(data[Path(l)[k]]))'
  BY <1>1, PTL
<1> QED BY <1>2 DEF Frame

LEMMA PathFitsNext == DpInv' => \A l \in Link : Len(Path(l)') <= Cardinality(Buf)
<1>1. DpInv' => (\A l \in Link : Len(Path(l)) <= Cardinality(Buf))'
  BY PathFits, PTL
<1> QED BY <1>1

\* What a step of a queue of frames does.
QueueStep(q, o, r, u) ==
  \/ r = q /\ u = o
  \/ /\ Len(q) + 1 <= Cardinality(Buf) /\ u = o
     /\ \E c \in Contents : r = q \o <<c>>
  \/ q # <<>> /\ r = Tail(q) /\ u = Head(q)

LEMMA WaySteps ==
  ASSUME DpInv, FramesFull, DpInv', FramesFull', program \in Forwarders,
         UNCHANGED program, NEW l \in Link, Still(l) \/ Arrives(l) \/ Leaves(l)
  PROVE  QueueStep(InFlight(l), LastOut(OutLink(l)), InFlight(l)', LastOut(OutLink(l))')
<1> DEFINE q == InFlight(l)
           r == InFlight(l)'
           s == Path(l)
           t == Path(l)'
           o == LastOut(OutLink(l))
           u == LastOut(OutLink(l))'
<1>1. HeldType /\ RestOK /\ OutLink(l) \in Link /\ NoPacket \notin Packet
  BY InvParts, StopsFacts, DatapathAssumption DEF HeldOK
<1>2. /\ q \in Seq(Contents) /\ Len(q) = Len(s) /\ s \in Seq(Buf) /\ Len(s) \in Nat
      /\ DOMAIN s = 1 .. Len(s)
      /\ \A k \in 1 .. Len(s) : q[k] = Frame(data[s[k]])
  BY Flight, LenProperties
<1>3. /\ r \in Seq(Contents) /\ Len(r) = Len(t)
      /\ \A k \in 1 .. Len(t) : r[k] = Frame(data'[t[k]])
  BY FlightNext
<1>4. OutLink(l)' = OutLink(l)
  BY DEF OutLink
<1>5. u = IF lastSent'[OutLink(l)] = NoPacket THEN {} ELSE Frame(lastSent'[OutLink(l)])
  BY <1>4 DEF LastOut, Frame
<1>6. o = IF lastSent[OutLink(l)] = NoPacket THEN {} ELSE Frame(lastSent[OutLink(l)])
  BY DEF LastOut
<1>7. ASSUME SameFrames(l), NEW k \in 1 .. Len(s)
      PROVE  Frame(data'[s[k]]) = q[k]
  <2>1. PICK p \in Stops(l) : s[k] \in At(p)
    BY <1>1, <1>2, PathAt
  <2> QED BY <1>2, <1>7, <2>1 DEF SameFrames
<1>8. Len(t) <= Cardinality(Buf)
  BY PathFitsNext
<1>9. Len(s) >= 1 => data[s[1]] \in Packet
  <2> SUFFICES ASSUME Len(s) >= 1 PROVE data[s[1]] \in Packet
    OBVIOUS
  <2>1. 1 \in DOMAIN Path(l)
    BY <1>2
  <2>2. PICK p \in Stops(l) : s[1] \in At(p)
    BY <1>1, <2>1, PathAt
  <2> QED BY <2>2, StopsFacts DEF FramesFull
<1> HIDE DEF q, r, s, t, o, u
<1>10. CASE Still(l)
  <2>1. t = s /\ SameFrames(l) /\ u = o
    BY <1>5, <1>6, <1>10 DEF Still, s, t
  <2>2. \A k \in 1 .. Len(r) : r[k] = q[k]
    BY <1>2, <1>3, <1>7, <2>1
  <2>3. r = q
    BY <1>2, <1>3, <2>1, <2>2, SeqEqual
  <2> QED BY <2>1, <2>3 DEF QueueStep, q, r, o, u
<1>11. CASE Arrives(l)
  <2>1. PICK b \in Buf : t = s \o <<b>> /\ data'[b] \in Packet
    BY <1>11 DEF Arrives, s, t
  <2>2. SameFrames(l) /\ u = o
    BY <1>5, <1>6, <1>11 DEF Arrives
  <2> DEFINE c == Frame(data'[b])
  <2>3. c \in Contents
    BY <2>1 DEF Contents
  <2>4. /\ Len(t) = Len(s) + 1
        /\ \A k \in 1 .. Len(s) : t[k] = s[k]
        /\ t[Len(s) + 1] = b
    BY <1>2, <2>1
  <2> HIDE DEF c
  <2>5. /\ q \o <<c>> \in Seq(Contents) /\ Len(q \o <<c>>) = Len(s) + 1
        /\ \A k \in 1 .. Len(s) : (q \o <<c>>)[k] = q[k]
        /\ (q \o <<c>>)[Len(s) + 1] = c
    BY <1>2, <2>3
  <2>6. ASSUME NEW k \in 1 .. Len(r) PROVE r[k] = (q \o <<c>>)[k]
    <3>1. k \in 1 .. Len(s) \/ k = Len(s) + 1
      BY <1>2, <1>3, <2>4
    <3>2. CASE k \in 1 .. Len(s)
      <4>1. r[k] = Frame(data'[s[k]])
        BY <1>2, <1>3, <2>4, <3>2
      <4> QED BY <1>7, <2>2, <2>5, <3>2, <4>1
    <3>3. CASE k = Len(s) + 1
      <4>1. r[k] = Frame(data'[b])
        BY <1>2, <1>3, <2>4, <3>3
      <4> QED BY <2>5, <3>3, <4>1 DEF c
    <3> QED BY <3>1, <3>2, <3>3
  <2>7. r = q \o <<c>>
    BY <1>3, <2>4, <2>5, <2>6, SeqEqual
  <2>8. Len(q) + 1 <= Cardinality(Buf)
    BY <1>2, <1>8, <2>4
  <2> QED BY <2>2, <2>3, <2>7, <2>8 DEF QueueStep, q, r, o, u
<1>12. CASE Leaves(l)
  <2>1. /\ s # <<>> /\ t = Tail(s) /\ SameFrames(l)
        /\ lastSent'[OutLink(l)] = data[Head(s)]
    BY <1>12 DEF Leaves, s, t
  <2>2. /\ Len(s) >= 1 /\ Head(s) = s[1] /\ Len(t) = Len(s) - 1
        /\ \A k \in 1 .. Len(s) - 1 : t[k] = s[k + 1]
    BY <1>2, <2>1
  <2>3. q # <<>> /\ Head(q) = q[1]
    BY <1>2, <2>2
  <2>4. u = Head(q)
    <3>1. data[s[1]] \in Packet /\ 1 \in 1 .. Len(s)
      BY <1>2, <1>9, <2>2
    <3>2. u = Frame(data[s[1]])
      BY <1>1, <1>5, <2>1, <2>2, <3>1
    <3> QED BY <1>2, <2>3, <3>1, <3>2
  <2>5. /\ Tail(q) \in Seq(Contents) /\ Len(Tail(q)) = Len(s) - 1
        /\ \A k \in 1 .. Len(s) - 1 : Tail(q)[k] = q[k + 1]
    BY <1>2, <2>3
  <2>6. ASSUME NEW k \in 1 .. Len(r) PROVE r[k] = Tail(q)[k]
    <3>1. k \in 1 .. Len(s) - 1 /\ k + 1 \in 1 .. Len(s)
      BY <1>2, <1>3, <2>2
    <3>2. r[k] = Frame(data'[s[k + 1]])
      BY <1>2, <1>3, <2>2, <3>1
    <3> QED BY <1>7, <2>1, <2>5, <3>1, <3>2
  <2>7. r = Tail(q)
    BY <1>3, <2>2, <2>5, <2>6, SeqEqual
  <2> QED BY <2>3, <2>4, <2>7 DEF QueueStep, q, r, o, u
<1> QED BY <1>10, <1>11, <1>12

-----------------------------------------------------------------------------
(* The programs that forward nothing send nothing.                         *)

NothingSent ==
  program \notin Forwarders =>
    \A l \in Link : /\ held[Tx(l)] = <<>> /\ held[NicTx(l)] = <<>>
                    /\ lastSent[l] = NoPacket

LEMMA StartsEmpty ==
  WorkerInit => /\ NothingSent
                /\ \A l \in Link : InFlight(l) = <<>> /\ LastOut(l) = {}
<1> SUFFICES ASSUME WorkerInit, NEW l \in Link
             PROVE  /\ held[Tx(l)] = <<>> /\ held[NicTx(l)] = <<>>
                    /\ lastSent[l] = NoPacket
                    /\ InFlight(l) = <<>> /\ LastOut(l) = {}
  BY DEF NothingSent
<1>1. DpInit(AreaOrder)
  BY DEF WorkerInit
<1>2. \A k \in Link : \A q \in Stops(k) : held[q] = <<>>
  <2> SUFFICES ASSUME NEW k \in Link, NEW q \in Stops(k) PROVE held[q] = <<>>
    OBVIOUS
  <2>1. q \in Place /\ q # Pool
    BY StopsFacts, FramePlace
  <2> QED BY <1>1, <2>1 DEF DpInit
<1>3. lastSent[l] = NoPacket
  BY <1>1 DEF DpInit
<1>4. /\ held[Tx(l)] = <<>> /\ held[NicTx(l)] = <<>>
  <2>1. Tx(l) \in Place /\ Tx(l) # Pool /\ NicTx(l) \in Place /\ NicTx(l) # Pool
    BY Places, FramePlace
  <2> QED BY <1>1, <2>1 DEF DpInit
<1>5. InFlight(l) = <<>>
  <2>1. /\ held[NicTx(OutLink(l))] = <<>> /\ held[Tx(OutLink(l))] = <<>>
        /\ held[D(l)] = <<>> /\ held[Rx(l)] = <<>>
    BY <1>2 DEF Stops
  <2>2. <<>> \o <<>> = <<>>
    OBVIOUS
  <2> QED BY <2>1, <2>2 DEF InFlight
<1>6. LastOut(l) = {}
  BY <1>3 DEF LastOut
<1> QED BY <1>3, <1>4, <1>5, <1>6

\* dump.rs and rxdrop.rs never call try_send.
LEMMA NothingSentNext ==
  ASSUME WorkerInv, NothingSent, [WorkerNext]_wVars
  PROVE  NothingSent' /\ program' = program
<1>1. /\ pos \in Link /\ pos \in Deque /\ DpInv /\ "bufs" \in Vec
      /\ program \in Program /\ BatchSize \in Nat /\ HeldOK /\ HeldType
  BY InLoop, InvParts, Constants DEF HeldOK
<1>2. /\ StartBufs \in Nat /\ (program \notin Workers => BufNum[program] \in Nat)
      /\ Wanted \in Nat /\ deficit[pos] \in Nat
  <2>1. Wanted \in Nat
    BY <1>1, WantedIsNat
  <2>2. deficit[pos] \in 0 .. Wanted
    BY <1>1, WorkerParts DEF ProgramOK
  <2> QED BY <1>1, <2>1, <2>2, Constants
<1>3. program' = program
  BY Zenon DEF WorkerNext, Step, GetBufs, FillLink, MulticoreLoop, TwoLinkLoop, EchoLoop,
     DropLoop, DumpLoop, NoExit, Exit, Tick, LastTick, ServiceCq, Receive, Poll,
     WakeRx, SwapMacs, Forward, Kick, HandBack, Refill, wVars, myVars
<1>4. SUFFICES ASSUME program \notin Forwarders, NEW l \in Link
               PROVE  /\ held'[Tx(l)] = <<>> /\ held'[NicTx(l)] = <<>>
                      /\ lastSent'[l] = NoPacket
  BY <1>3 DEF NothingSent, Tx, NicTx
<1>5. /\ held[Tx(l)] = <<>> /\ held[NicTx(l)] = <<>> /\ lastSent[l] = NoPacket
  BY <1>4 DEF NothingSent
<1>6. /\ Tx(l) \in Place /\ NicTx(l) \in Place
  BY Places
<1> DEFINE Silent == /\ held'[Tx(l)] = <<>> /\ held'[NicTx(l)] = <<>>
                     /\ lastSent'[l] = NoPacket
<1>7. ASSUME NEW p \in Place, NEW r \in Place, NEW n, Moved(p, r, n), UNCHANGED lastSent,
             p \notin {Tx(l), NicTx(l)}, r \notin {Tx(l), NicTx(l)}
      PROVE  Silent
  BY <1>5, <1>6, <1>7 DEF Moved
<1>8. /\ V("bufs") \in Place /\ Pool \in Place
      /\ V("bufs") \notin {Tx(l), NicTx(l)} /\ Pool \notin {Tx(l), NicTx(l)}
      /\ \A k \in Link : /\ Fq(k) \in Place /\ NicRx(k) \in Place /\ Rx(k) \in Place
                          /\ Cq(k) \in Place /\ D(k) \in Place /\ k \in Deque
                          /\ Fq(k) \notin {Tx(l), NicTx(l)}
                          /\ NicRx(k) \notin {Tx(l), NicTx(l)}
                          /\ Rx(k) \notin {Tx(l), NicTx(l)}
                          /\ Cq(k) \notin {Tx(l), NicTx(l)}
                          /\ D(k) \notin {Tx(l), NicTx(l)}
  BY <1>1, Places, Constants DEF V, Pool, Fq, NicRx, Rx, Cq, D, Tx, NicTx
<1>9. ASSUME \/ UNCHANGED <<held, lastSent>>
             \/ \E n \in Nat : \/ Fill(pos, "bufs", n) \/ PoolGet("bufs", n)
                               \/ TryRecv(pos, pos, n)
             \/ Discard(pos, "bufs")
             \/ \E k \in Link : Kernel(k)
      PROVE  Silent
  <2>1. CASE UNCHANGED <<held, lastSent>>
    BY <1>5, <2>1
  <2>2. ASSUME NEW n \in Nat, Fill(pos, "bufs", n) PROVE Silent
    <3>1. Moved(V("bufs"), Fq(pos), Filled(pos, "bufs", n)) /\ UNCHANGED lastSent
      BY <1>1, <2>2, FillMoves DEF Fill
    <3> QED BY <1>1, <1>7, <1>8, <3>1
  <2>3. ASSUME NEW n \in Nat, PoolGet("bufs", n) PROVE Silent
    <3>1. Moved(Pool, V("bufs"), Least(n, Count(Pool))) /\ UNCHANGED lastSent
      BY <1>1, <2>3, PoolMoves DEF PoolGet
    <3> QED BY <1>7, <1>8, <3>1
  <2>4. ASSUME NEW n \in Nat, TryRecv(pos, pos, n) PROVE Silent
    <3>1. Moved(Rx(pos), D(pos), Received(pos, pos, n)) /\ UNCHANGED lastSent
      BY <1>1, <2>4, RecvMoves DEF TryRecv
    <3> QED BY <1>1, <1>7, <1>8, <3>1
  <2>5. CASE Discard(pos, "bufs")
    <3>1. Moved(D(pos), V("bufs"), Count(D(pos))) /\ UNCHANGED lastSent
      BY <1>1, <2>5, DiscardMoves DEF Discard
    <3> QED BY <1>1, <1>7, <1>8, <3>1
  <2>6. ASSUME NEW k \in Link, Kernel(k) PROVE Silent
    <3>1. held[Tx(k)] = <<>> /\ held[NicTx(k)] = <<>>
      BY <1>4 DEF NothingSent
    <3>2. CASE KernelTakeFill(k)
      <4>1. Moved(Fq(k), NicRx(k), 1) /\ UNCHANGED lastSent
        BY <1>1, <3>2, KernelMoves DEF KernelTakeFill
      <4> QED BY <1>7, <1>8, <4>1
    <3>3. CASE \E p \in Arriving[k] : KernelReceive(k, p)
      <4>1. Moved(NicRx(k), Rx(k), 1) /\ UNCHANGED lastSent
        BY <1>1, <3>3, KernelMoves DEF KernelReceive
      <4> QED BY <1>7, <1>8, <4>1
    <3>4. CASE KernelRxSleep(k) \/ KernelTxSleep(k)
      BY <2>1, <3>4 DEF KernelRxSleep, KernelTxSleep
    <3>5. ~ KernelTakeTx(k) /\ ~ KernelSend(k)
      BY <3>1 DEF KernelTakeTx, KernelSend
    <3> QED BY <2>6, <3>2, <3>3, <3>4, <3>5 DEF Kernel
  <2> QED BY <1>9, <2>1, <2>2, <2>3, <2>4, <2>5, <2>6
<1>10. CASE MulticoreLoop \/ TwoLinkLoop \/ EchoLoop \/ DropLoop \/ DumpLoop
  <2>1. \/ NoExit("receive") \/ Receive("hand_on") \/ Poll \/ HandBack
        \/ Refill(FillThreshold)
    BY <1>4, <1>10 DEF MulticoreLoop, TwoLinkLoop, EchoLoop, DropLoop, DumpLoop, Forwarders
  <2>2. CASE NoExit("receive") \/ Poll
    <3>1. UNCHANGED <<held, lastSent>>
      BY <2>2 DEF NoExit, Poll, WakeRx, Wake, dpVars
    <3> QED BY <1>9, <3>1
  <2>3. CASE Receive("hand_on")
    <3>1. TryRecv(pos, pos, BatchSize)
      BY <2>3 DEF Receive
    <3> QED BY <1>1, <1>9, <3>1
  <2>4. CASE HandBack
    <3>1. Discard(pos, "bufs")
      BY <2>4 DEF HandBack
    <3> QED BY <1>9, <3>1
  <2>5. CASE Refill(FillThreshold)
    <3>1. UNCHANGED dpVars \/ Fill(pos, "bufs", deficit[pos])
      BY <2>5 DEF Refill
    <3>2. UNCHANGED dpVars => UNCHANGED <<held, lastSent>>
      BY DEF dpVars
    <3> QED BY <1>2, <1>9, <3>1, <3>2
  <2> QED BY <2>1, <2>2, <2>3, <2>4, <2>5
<1>11. CASE GetBufs
  <2>1. \E n \in Nat : PoolGet("bufs", n)
    BY <1>2, <1>11 DEF GetBufs
  <2> QED BY <1>9, <2>1
<1>12. CASE FillLink
  <2>1. Fill(pos, "bufs", Wanted)
    BY <1>12 DEF FillLink
  <2> QED BY <1>2, <1>9, <2>1
<1>13. CASE Exit \/ LastTick \/ UNCHANGED wVars
  <2>1. UNCHANGED <<held, lastSent>>
    BY <1>13 DEF Exit, LastTick, wVars, dpVars
  <2> QED BY <1>9, <2>1
<1>14. ASSUME NEW k \in Links, Kernel(k)
       PROVE  Silent
  <2>1. k \in Link
    BY <1>14, InLoop, LinksServed
  <2> QED BY <1>9, <1>14, <2>1
<1> QED BY <1>10, <1>11, <1>12, <1>13, <1>14 DEF WorkerNext, Step

-----------------------------------------------------------------------------
(* The theorem.                                                            *)

\* One step, in either direction.
LEMMA QueueSteps ==
  ASSUME WorkerInv, WorkerInv', NothingSent, NothingSent', [WorkerNext]_wVars,
         NEW l \in Link
  PROVE  QueueStep(InFlight(l), LastOut(OutLink(l)), InFlight(l)', LastOut(OutLink(l))')
<1>1. /\ DpInv /\ FramesFull /\ DpInv' /\ FramesFull'
      /\ program' = program /\ OutLink(l) \in Link
  BY WorkerParts, NothingSentNext, StopsFacts
<1>2. CASE program \in Forwarders
  <2>1. Still(l) \/ Arrives(l) \/ Leaves(l)
    BY <1>2, ForwarderWay
  <2> QED BY <1>1, <1>2, <2>1, WaySteps
<1>3. CASE program \notin Forwarders
  <2>1. InFlight(l) = <<>> /\ InFlight(l)' = <<>>
    BY <1>1, <1>3 DEF InFlight
  <2>2. lastSent[OutLink(l)] = NoPacket
    BY <1>1, <1>3 DEF NothingSent
  <2>3. lastSent'[OutLink(l)] = NoPacket
    BY <1>1, <1>3 DEF NothingSent
  <2>4. OutLink(l)' = OutLink(l)
    BY <1>1 DEF OutLink
  <2>5. LastOut(OutLink(l))' = LastOut(OutLink(l))
    BY <2>2, <2>3, <2>4 DEF LastOut
  <2> QED BY <2>1, <2>5 DEF QueueStep
<1> QED BY <1>2, <1>3

\* Whichever program runs, whatever it and the kernel do, in whatever order: a
\* frame received on a link is sent on the link it belongs to, or back, exactly
\* once, in the order of arrival and with the contents it came with, the order
\* of its addresses aside.  The programs that only receive send nothing.
THEOREM ForwardersImplementFifo == WorkerSpec => ForwardsInOrder
<1>1. Link = {0, 1} /\ \A l \in Link : OutLink(l) \in Link
  BY Constants, StopsFacts
<1>2. WorkerInit => NothingSent /\ Pipe0!Init /\ Pipe1!Init
  BY <1>1, StartsEmpty DEF Pipe0!Init, Pipe1!Init
<1>3. WorkerInv /\ NothingSent /\ [WorkerNext]_wVars => NothingSent'
  BY NothingSentNext
<1>4. ASSUME NEW c \in Contents
      PROVE  /\ 1 \in Nat /\ <<c>> \in [1 .. 1 -> Contents] /\ Len(<<c>>) = 1
  OBVIOUS
<1>5. ASSUME WorkerInv, NEW l \in Link, Len(InFlight(l)) + 1 <= Cardinality(Buf)
      PROVE  1 \in 1 .. Cardinality(Buf)
  <2>1. Len(InFlight(l)) \in Nat
    <3>1. CASE program \in Forwarders
      BY <1>5, <3>1, WorkerParts, Flight, LenProperties
    <3>2. CASE program \notin Forwarders
      BY <3>2, EmptySeq DEF InFlight
    <3> QED BY <3>1, <3>2
  <2>2. Cardinality(Buf) \in Nat
    BY FS_CardinalityType, DatapathAssumption
  <2> QED BY <1>5, <2>1, <2>2
<1>6. WorkerInv /\ WorkerInv' /\ NothingSent /\ NothingSent' /\ [WorkerNext]_wVars
        => [Pipe0!Next]_<<InFlight(0), LastOut(OutLink(0))>>
  <2> SUFFICES ASSUME WorkerInv, WorkerInv', NothingSent, NothingSent', [WorkerNext]_wVars
               PROVE  [Pipe0!Next]_<<InFlight(0), LastOut(OutLink(0))>>
    OBVIOUS
  <2>1. QueueStep(InFlight(0), LastOut(OutLink(0)),
                  InFlight(0)', LastOut(OutLink(0))')
    BY <1>1, QueueSteps
  <2>2. CASE /\ Len(InFlight(0)) + 1 <= Cardinality(Buf)
             /\ LastOut(OutLink(0))' = LastOut(OutLink(0))
             /\ \E c \in Contents : InFlight(0)' = InFlight(0) \o <<c>>
    <3>1. PICK c \in Contents : InFlight(0)' = InFlight(0) \o <<c>>
      BY <2>2
    <3>2. Pipe0!Put(<<c>>)
      BY <1>4, <2>2, <3>1 DEF Pipe0!Put
    <3>3. 1 \in 1 .. Cardinality(Buf)
      BY <1>1, <1>5, <2>2
    <3> QED BY <1>4, <3>2, <3>3 DEF Pipe0!Next, Contents
  <2>3. CASE /\ InFlight(0) # <<>> /\ InFlight(0)' = Tail(InFlight(0))
             /\ LastOut(OutLink(0))' = Head(InFlight(0))
    BY <2>3 DEF Pipe0!Next, Pipe0!Take
  <2> QED BY <2>1, <2>2, <2>3 DEF QueueStep
<1>7. WorkerInv /\ WorkerInv' /\ NothingSent /\ NothingSent' /\ [WorkerNext]_wVars
        => [Pipe1!Next]_<<InFlight(1), LastOut(OutLink(1))>>
  <2> SUFFICES ASSUME WorkerInv, WorkerInv', NothingSent, NothingSent', [WorkerNext]_wVars
               PROVE  [Pipe1!Next]_<<InFlight(1), LastOut(OutLink(1))>>
    OBVIOUS
  <2>1. QueueStep(InFlight(1), LastOut(OutLink(1)),
                  InFlight(1)', LastOut(OutLink(1))')
    BY <1>1, QueueSteps
  <2>2. CASE /\ Len(InFlight(1)) + 1 <= Cardinality(Buf)
             /\ LastOut(OutLink(1))' = LastOut(OutLink(1))
             /\ \E c \in Contents : InFlight(1)' = InFlight(1) \o <<c>>
    <3>1. PICK c \in Contents : InFlight(1)' = InFlight(1) \o <<c>>
      BY <2>2
    <3>2. Pipe1!Put(<<c>>)
      BY <1>4, <2>2, <3>1 DEF Pipe1!Put
    <3>3. 1 \in 1 .. Cardinality(Buf)
      BY <1>1, <1>5, <2>2
    <3> QED BY <1>4, <3>2, <3>3 DEF Pipe1!Next, Contents
  <2>3. CASE /\ InFlight(1) # <<>> /\ InFlight(1)' = Tail(InFlight(1))
             /\ LastOut(OutLink(1))' = Head(InFlight(1))
    BY <2>3 DEF Pipe1!Next, Pipe1!Take
  <2> QED BY <2>1, <2>2, <2>3 DEF QueueStep
<1> QED
  BY <1>2, <1>3, <1>6, <1>7, WorkerInvariant, PTL
  DEF WorkerSpec, ForwardsInOrder, Pipe0!Spec, Pipe1!Spec
=============================================================================
